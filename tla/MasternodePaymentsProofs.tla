---------------------- MODULE MasternodePaymentsProofs ----------------------
(***************************************************************************)
(* Proofs, for any masternodes, votes, heights and limits, that the two    *)
(* maps of CMasternodePayments stay together, that the vote of another     *)
(* masternode counts once, and that a template that pays a voted payee     *)
(* stays valid.                                                            *)
(***************************************************************************)
EXTENDS MasternodePayments, TLAPS

\* The types of the maps, in memory or in the file.
MapTypes(st, ve, pa) ==
    st \subseteq Votes /\ ve \subseteq Votes /\ pa \in [Heights -> Seq(Votes)]

\* What CountedVerified and CountedOnce say of any copy of the maps.
Together(st, ve, pa) ==
    \A h \in Heights : \A i \in DOMAIN pa[h] :
        pa[h][i] \in ve \cap st /\ pa[h][i].height = h
Once(pa) ==
    \A h \in Heights : \A i, j \in DOMAIN pa[h] :
        pa[h][i] = pa[h][j] /\ pa[h][i].mn # Self => i = j
GoodMaps(st, ve, pa) == MapTypes(st, ve, pa) /\ Together(st, ve, pa) /\ Once(pa)

\* Only the message-handler thread adds votes of other masternodes, and the
\* one it is about to add is not verified yet.
ThreadInv ==
    /\ msg \in Threads /\ (msg.pc # "idle" => msg.vote \in Votes)
    /\ own \in Threads /\ (own.pc # "idle" => own.vote \in Votes)
    /\ msg.pc = "store" /\ msg.vote.mn # Self => msg.vote \notin verified
    /\ own.pc = "store" => own.vote.mn = Self

\* A template is on the tip, and its payee keeps its votes.
TemplateInv ==
    /\ template \in [height : Heights \cup {NoHeight},
                     payee : Payees \cup {NoPayee}, voted : BOOLEAN]
    /\ template.voted => /\ template.height \in Heights
                         /\ template.height = tip + 1
                         /\ template.payee \in PayeesOf(payees[template.height])

OtherTypes ==
    /\ lastVote \in [Masternodes -> Heights \cup {NoHeight}]
    /\ tip \in Tips /\ stage \in Stages /\ relayed \subseteq Votes
    /\ dumps \in 0 .. MaxDumps /\ restarts \in 0 .. MaxRestarts

SavedInv ==
    /\ saved \in [stored : SUBSET Votes, verified : SUBSET Votes,
                  payees : [Heights -> Seq(Votes)]]
    /\ GoodMaps(saved.stored, saved.verified, saved.payees)

IInv ==
    /\ GoodMaps(stored, verified, payees)
    /\ SavedInv /\ ThreadInv /\ TemplateInv /\ OtherTypes

-----------------------------------------------------------------------------
\* AddPaymentVote, given a vote that is not counted yet or is the node's own,
\* keeps the maps together and drops no payee.
LEMMA StoreVoteKeepsMaps ==
    ASSUME GoodMaps(stored, verified, payees), NEW v \in Votes, StoreVote(v),
           v.mn # Self => v \notin verified
    PROVE  /\ GoodMaps(stored', verified', payees')
           /\ \A h \in Heights : PayeesOf(payees[h]) \subseteq PayeesOf(payees'[h])
<1> v.height \in Heights
  BY DEF Votes
<1>1. payees \in [Heights -> Seq(Votes)]
  BY DEF GoodMaps, MapTypes
<1>2. /\ stored' = stored \cup {v} /\ verified' = verified \cup {v}
      /\ payees' = [payees EXCEPT ![v.height] = Append(payees[v.height], v)]
  BY DEF StoreVote
<1>3. \A h \in Heights : h # v.height => payees'[h] = payees[h]
  BY <1>1, <1>2
<1> DEFINE s == payees[v.height]
<1>4. s \in Seq(Votes)
  BY <1>1
<1>5. /\ payees'[v.height] = Append(s, v)
      /\ DOMAIN Append(s, v) = 1 .. Len(s) + 1
      /\ \A i \in DOMAIN s : Append(s, v)[i] = s[i]
      /\ Append(s, v)[Len(s) + 1] = v
      /\ DOMAIN s = 1 .. Len(s) /\ Len(s) \in Nat
  BY <1>1, <1>2, <1>4
<1>6. MapTypes(stored', verified', payees')
  BY <1>1, <1>2 DEF GoodMaps, MapTypes
<1> HIDE DEF s
<1>7. Together(stored', verified', payees')
  <2> SUFFICES ASSUME NEW h \in Heights, NEW i \in DOMAIN payees'[h]
               PROVE  /\ payees'[h][i] \in verified' \cap stored'
                      /\ payees'[h][i].height = h
    BY DEF Together
  <2>1. CASE h # v.height
    BY <2>1, <1>2, <1>3 DEF GoodMaps, Together
  <2>2. CASE h = v.height /\ i \in DOMAIN s
    BY <2>2, <1>2, <1>5 DEF GoodMaps, Together, s
  <2>3. CASE h = v.height /\ i = Len(s) + 1
    BY <2>3, <1>2, <1>5
  <2> QED
    BY <2>1, <2>2, <2>3, <1>5
<1>8. Once(payees')
  <2> SUFFICES ASSUME NEW h \in Heights, NEW i \in DOMAIN payees'[h],
                      NEW j \in DOMAIN payees'[h],
                      payees'[h][i] = payees'[h][j], payees'[h][i].mn # Self
               PROVE  i = j
    BY DEF Once
  <2>1. CASE h # v.height
    BY <2>1, <1>3 DEF GoodMaps, Once
  <2>2. CASE h = v.height
    <3>1. v.mn # Self => \A k \in DOMAIN s : s[k] # v
      BY DEF GoodMaps, Together, s
    <3>2. \A k, l \in DOMAIN s : s[k] = s[l] /\ s[k].mn # Self => k = l
      BY DEF GoodMaps, Once, s
    <3>3. CASE i \in DOMAIN s /\ j \in DOMAIN s
      BY <2>2, <3>2, <3>3, <1>5
    <3>4. CASE i = Len(s) + 1 \/ j = Len(s) + 1
      BY <2>2, <3>1, <3>4, <1>5
    <3> QED
      BY <2>2, <3>3, <3>4, <1>5
  <2> QED
    BY <2>1, <2>2
<1>9. \A h \in Heights : PayeesOf(payees[h]) \subseteq PayeesOf(payees'[h])
  <2> SUFFICES ASSUME NEW h \in Heights, NEW i \in DOMAIN payees[h]
               PROVE  payees[h][i].payee \in PayeesOf(payees'[h])
    BY DEF PayeesOf
  <2>1. i \in DOMAIN payees'[h] /\ payees'[h][i] = payees[h][i]
    BY <1>3, <1>5 DEF s
  <2> QED
    BY <2>1 DEF PayeesOf
<1> QED
  BY <1>6, <1>7, <1>8, <1>9 DEF GoodMaps

\* The empty maps, at the start or in a missing file, are good.
LEMMA EmptyMapsGood == GoodMaps({}, {}, [h \in Heights |-> <<>>])
  BY DEF GoodMaps, MapTypes, Together, Once

\* Removing old votes keeps the maps together and keeps the votes of the
\* block after the tip.
LEMMA RemovalKeepsMaps ==
    ASSUME GoodMaps(stored, verified, payees), tip \in Tips, CheckAndRemove
    PROVE  /\ GoodMaps(stored', verified', payees')
           /\ tip + 1 \in Heights => payees'[tip + 1] = payees[tip + 1]
<1>1. /\ stored' = stored \ Old /\ verified' = verified \ Old
      /\ payees' = [h \in Heights |->
                      IF \E v \in Old : v.height = h THEN <<>> ELSE payees[h]]
  BY DEF CheckAndRemove
<1>2. \A h \in Heights : payees'[h] = <<>> \/ payees'[h] = payees[h]
  BY <1>1
<1>3. MapTypes(stored', verified', payees')
  BY <1>1 DEF GoodMaps, MapTypes
<1>4. Once(payees')
  <2> SUFFICES ASSUME NEW h \in Heights
               PROVE  \A i, j \in DOMAIN payees'[h] :
                        payees'[h][i] = payees'[h][j] /\ payees'[h][i].mn # Self
                            => i = j
    BY DEF Once
  <2> QED
    BY <1>2 DEF GoodMaps, Once
<1>5. Together(stored', verified', payees')
  <2> SUFFICES ASSUME NEW h \in Heights, NEW i \in DOMAIN payees'[h]
               PROVE  /\ payees'[h][i] \in verified' \cap stored'
                      /\ payees'[h][i].height = h
    BY DEF Together
  <2>1. payees'[h] = payees[h] /\ ~ \E v \in Old : v.height = h
    BY <1>1
  <2> QED
    BY <1>1, <2>1 DEF GoodMaps, Together
<1>6. ASSUME tip + 1 \in Heights PROVE payees'[tip + 1] = payees[tip + 1]
  <2>1. \A v \in Old : v.height # tip + 1
    BY PaymentsAssumptions DEF Old, GoodMaps, MapTypes, Votes, Heights, Tips
  <2> QED
    BY <1>1, <1>6, <2>1
<1> QED
  BY <1>3, <1>4, <1>5, <1>6 DEF GoodMaps

-----------------------------------------------------------------------------
\* An idle thread, and no template, satisfy what is asked of them.
LEMMA Idle ==
    /\ IdleThread \in Threads /\ IdleThread.pc = "idle"
    /\ NoTemplate \in [height : Heights \cup {NoHeight},
                       payee : Payees \cup {NoPayee}, voted : BOOLEAN]
    /\ NoTemplate.voted = FALSE
  BY DEF IdleThread, Threads, NoTemplate

\* The maps start empty.
LEMMA InitIInv == Init => IInv
<1> SUFFICES ASSUME Init PROVE IInv
  OBVIOUS
<1>1. GoodMaps(stored, verified, payees)
  BY EmptyMapsGood DEF Init
<1>2. SavedInv
  BY EmptyMapsGood DEF Init, SavedInv, EmptyFile, GoodMaps, MapTypes
<1>3. ThreadInv
  BY Idle DEF Init, ThreadInv
<1>4. TemplateInv
  BY Idle DEF Init, TemplateInv
<1>5. OtherTypes
  BY PaymentsAssumptions DEF Init, OtherTypes, Tips, Stages
<1> QED
  BY <1>1, <1>2, <1>3, <1>4, <1>5 DEF IInv

\* A step of the message-handler thread before it adds its vote.
LEMMA MessageSteps ==
    ASSUME IInv,
           \/ \E v \in Ballots : ReceiveVote(v)
           \/ VoteInvalid \/ VoteRepeated \/ CanVote
           \/ SignatureRefused \/ SignatureAccepted
    PROVE  IInv'
<1> USE DEF IInv
<1>1. UNCHANGED <<verified, payees, tip, stage, own, relayed, template, saved,
                  dumps, restarts>>
  BY DEF ReceiveVote, VoteInvalid, VoteRepeated, CanVote, SignatureRefused,
         SignatureAccepted, maps
<1>2. CASE \E v \in Ballots : ReceiveVote(v)
  <2> PICK v \in Ballots : ReceiveVote(v)
    BY <1>2
  <2>1. v \in Votes
    BY PaymentsAssumptions
  <2>2. GoodMaps(stored, verified, payees)'
    BY <1>1, <2>1 DEF ReceiveVote, GoodMaps, MapTypes, Together, Once
  <2>3. ThreadInv'
    BY <1>1, <2>1 DEF ReceiveVote, ThreadInv, Threads
  <2> QED
    BY <1>1, <2>2, <2>3 DEF ReceiveVote, SavedInv, TemplateInv, OtherTypes
<1>3. CASE VoteInvalid \/ VoteRepeated \/ CanVote \/ SignatureRefused \/ SignatureAccepted
  <2>1. UNCHANGED stored
    BY <1>3 DEF VoteInvalid, VoteRepeated, CanVote, SignatureRefused,
                SignatureAccepted, maps
  <2>2. ThreadInv'
    <3>1. CASE msg' = IdleThread
      BY <1>1, <3>1, Idle DEF ThreadInv
    <3>2. CASE msg' = [msg EXCEPT !.pc = "authenticate"] /\ msg.pc # "idle"
      BY <1>1, <3>2 DEF ThreadInv, Threads
    <3>3. CASE /\ msg' = [msg EXCEPT !.pc = "store"] /\ msg.pc # "idle"
               /\ AddPaymentVoteChecks(msg.vote)
      BY <1>1, <3>3 DEF ThreadInv, Threads, AddPaymentVoteChecks
    <3> QED
      BY <1>3, <3>1, <3>2, <3>3 DEF VoteInvalid, VoteRepeated, CanVote,
         SignatureRefused, SignatureAccepted
  <2>3. lastVote' \in [Masternodes -> Heights \cup {NoHeight}]
    BY <1>3 DEF VoteInvalid, VoteRepeated, CanVote, SignatureRefused,
                SignatureAccepted, OtherTypes, ThreadInv, Threads, Votes
  <2>4. GoodMaps(stored, verified, payees)'
    BY <1>1, <2>1
  <2> QED
    BY <1>1, <2>2, <2>3, <2>4 DEF SavedInv, TemplateInv, OtherTypes
<1> QED
  BY <1>2, <1>3

\* Adding the received vote.
LEMMA AddReceived == ASSUME IInv, AddReceivedVote PROVE IInv'
<1> USE DEF IInv
<1>1. /\ msg.vote \in Votes /\ StoreVote(msg.vote) /\ msg' = IdleThread
      /\ UNCHANGED <<lastVote, tip, stage, own, relayed, template, saved, dumps,
                     restarts>>
  BY DEF AddReceivedVote, ThreadInv
<1>2. /\ GoodMaps(stored', verified', payees')
      /\ \A h \in Heights : PayeesOf(payees[h]) \subseteq PayeesOf(payees'[h])
  BY <1>1, StoreVoteKeepsMaps DEF AddReceivedVote, ThreadInv
<1>3. ThreadInv'
  BY <1>1, Idle DEF ThreadInv
<1>4. TemplateInv'
  BY <1>1, <1>2 DEF TemplateInv
<1> QED
  BY <1>1, <1>2, <1>3, <1>4 DEF SavedInv, OtherTypes

\* Adding the node's own vote.
LEMMA AddOwn == ASSUME IInv, AddOwnVote PROVE IInv'
<1> USE DEF IInv
<1>1. /\ own.vote \in Votes /\ own.vote.mn = Self
      /\ StoreVote(own.vote) /\ own' = IdleThread
      /\ relayed' = relayed \cup {own.vote}
      /\ UNCHANGED <<lastVote, tip, stage, msg, template, saved, dumps, restarts>>
  BY DEF AddOwnVote, ThreadInv
<1>2. /\ GoodMaps(stored', verified', payees')
      /\ \A h \in Heights : PayeesOf(payees[h]) \subseteq PayeesOf(payees'[h])
  BY <1>1, StoreVoteKeepsMaps
<1>3. ThreadInv'
  BY <1>1, Idle DEF ThreadInv, StoreVote
<1>4. TemplateInv'
  BY <1>1, <1>2 DEF TemplateInv
<1> QED
  BY <1>1, <1>2, <1>3, <1>4 DEF SavedInv, OtherTypes

\* A new tip, with or without a vote of the node.
LEMMA TipSteps ==
    ASSUME IInv, NEW h \in Tips,
           UpdatedBlockTip(h) \/ \E v \in Ballots : ProcessBlock(h, v)
    PROVE  IInv'
<1> USE DEF IInv
<1>1. /\ tip' = h /\ template' = NoTemplate
      /\ UNCHANGED <<stored, verified, payees, lastVote, stage, msg, relayed,
                     saved, dumps, restarts>>
  BY DEF UpdatedBlockTip, ProcessBlock, maps
<1>2. ThreadInv'
  <2>1. CASE UpdatedBlockTip(h)
    BY <1>1, <2>1 DEF UpdatedBlockTip, ThreadInv
  <2>2. CASE \E v \in Ballots : ProcessBlock(h, v)
    BY <1>1, <2>2, PaymentsAssumptions DEF ProcessBlock, ThreadInv, Threads
  <2> QED
    BY <2>1, <2>2
<1>3. GoodMaps(stored, verified, payees)' /\ SavedInv'
  BY <1>1 DEF SavedInv
<1>4. TemplateInv'
  BY <1>1, Idle DEF TemplateInv
<1> QED
  BY <1>1, <1>2, <1>3, <1>4 DEF OtherTypes

\* The maintenance thread removes old votes.
LEMMA RemovalStep == ASSUME IInv, CheckAndRemove PROVE IInv'
<1> USE DEF IInv
<1>1. /\ verified' = verified \ Old
      /\ UNCHANGED <<lastVote, tip, stage, msg, own, relayed, template, saved,
                     dumps, restarts>>
  BY DEF CheckAndRemove
<1>2. /\ GoodMaps(stored', verified', payees')
      /\ tip + 1 \in Heights => payees'[tip + 1] = payees[tip + 1]
  BY RemovalKeepsMaps DEF OtherTypes
<1>3. ThreadInv'
  BY <1>1 DEF ThreadInv
<1>4. TemplateInv'
  BY <1>1, <1>2 DEF TemplateInv
<1> QED
  BY <1>1, <1>2, <1>3, <1>4 DEF SavedInv, OtherTypes

\* The miner fills in a payee.
LEMMA FillStep ==
    ASSUME IInv, NEW p \in Payees \cup {NoPayee}, FillMasterNodePayment(p)
    PROVE  IInv'
<1> USE DEF IInv
<1>1. UNCHANGED <<stored, verified, payees, lastVote, tip, stage, msg, own,
                  relayed, saved, dumps, restarts>>
  BY DEF FillMasterNodePayment, maps
<1>2. tip + 1 \in Heights
  BY PaymentsAssumptions DEF FillMasterNodePayment, OtherTypes, Tips, Heights
<1>3. (payees[tip + 1] # <<>>) => p \in PayeesOf(payees[tip + 1])
  BY DEF FillMasterNodePayment, GetBestPayee
<1>4. template' = [height |-> tip + 1, payee |-> p, voted |-> payees[tip + 1] # <<>>]
  BY DEF FillMasterNodePayment
<1>5. TemplateInv'
  BY Zenon, <1>1, <1>2, <1>3, <1>4 DEF TemplateInv
<1> QED
  BY <1>1, <1>5 DEF SavedInv, ThreadInv, OtherTypes

\* The sync state moves, the maps are saved, the node restarts.
LEMMA OtherSteps ==
    ASSUME IInv,
           (\E s \in Stages : SyncStage(s)) \/ DumpCacheFiles \/ Restart
    PROVE  IInv'
<1> USE DEF IInv
<1>1. CASE \E s \in Stages : SyncStage(s)
  BY <1>1 DEF SyncStage, maps, SavedInv, ThreadInv, TemplateInv, OtherTypes
<1>2. CASE DumpCacheFiles
  <2>1. /\ saved' = [stored |-> stored, verified |-> verified, payees |-> payees]
        /\ dumps' \in 0 .. MaxDumps
        /\ UNCHANGED <<stored, verified, payees, lastVote, tip, stage, msg, own,
                       relayed, template, restarts>>
    BY <1>2, PaymentsAssumptions DEF DumpCacheFiles, maps, OtherTypes
  <2>2. SavedInv'
    BY <2>1 DEF SavedInv, GoodMaps, MapTypes
  <2> QED
    BY <2>1, <2>2 DEF ThreadInv, TemplateInv, OtherTypes
<1>3. CASE Restart
  <2>1. PICK file \in {saved, EmptyFile} :
          /\ stored' = file.stored /\ verified' = file.verified
          /\ payees' = file.payees
    BY <1>3 DEF Restart
  <2>2. GoodMaps(EmptyFile.stored, EmptyFile.verified, EmptyFile.payees)
    BY EmptyMapsGood DEF EmptyFile
  <2>3. /\ msg' = IdleThread /\ own' = IdleThread /\ template' = NoTemplate
        /\ lastVote' = [mn \in Masternodes |-> NoHeight] /\ stage' = "none"
        /\ restarts' \in 0 .. MaxRestarts
        /\ UNCHANGED <<tip, relayed, saved, dumps>>
    BY <1>3, PaymentsAssumptions DEF Restart, OtherTypes
  <2>4. GoodMaps(stored, verified, payees)' /\ SavedInv'
    BY <2>1, <2>2, <2>3 DEF SavedInv
  <2>5. ThreadInv' /\ TemplateInv'
    BY <2>3, Idle DEF ThreadInv, TemplateInv
  <2> QED
    BY <2>3, <2>4, <2>5 DEF OtherTypes, Stages
<1> QED
  BY <1>1, <1>2, <1>3

\* Every step keeps the invariant.
LEMMA StepIInv == ASSUME IInv, [Next]_vars PROVE IInv'
<1>1. CASE Next
  <2>1. CASE VoteMessage
    BY <2>1, MessageSteps, AddReceived DEF VoteMessage
  <2>2. CASE NewTip
    BY <2>2, TipSteps, AddOwn DEF NewTip
  <2> QED
    BY <1>1, <2>1, <2>2, RemovalStep, FillStep, OtherSteps DEF Next
<1>2. CASE UNCHANGED vars
  BY <1>2 DEF vars, IInv, SavedInv, ThreadInv, TemplateInv, OtherTypes
<1> QED
  BY <1>1, <1>2

\* The invariant holds in every reachable state.
LEMMA Invariance == Spec => []IInv
  BY InitIInv, StepIInv, PTL DEF Spec

-----------------------------------------------------------------------------
\* The variables of CMasternodePayments keep their types.
THEOREM TypeCorrect == Spec => []TypeOK
<1>1. IInv => TypeOK
  BY DEF IInv, GoodMaps, MapTypes, SavedInv, ThreadInv, TemplateInv, OtherTypes,
         TypeOK
<1> QED
  BY <1>1, Invariance, PTL

\* Every vote that counts for a payee is in the map of votes with its
\* signature, through AddPaymentVote, CheckAndRemove and restarts.
THEOREM CountedVotesVerified == Spec => []CountedVerified
<1>1. IInv => CountedVerified
  BY DEF IInv, GoodMaps, Together, CountedVerified
<1> QED
  BY <1>1, Invariance, PTL

\* The vote of another masternode counts once, although AddPaymentVote tests
\* for it before it takes the locks.
THEOREM CountedVotesOnce == Spec => []CountedOnce
<1>1. IInv => CountedOnce
  BY DEF IInv, GoodMaps, Once, CountedOnce
<1> QED
  BY <1>1, Invariance, PTL

\* A template that pays a voted payee stays valid until the tip changes.
THEOREM VotedTemplateStaysValid == Spec => []TemplateStaysValid
<1>1. IInv => TemplateStaysValid
  BY DEF IInv, TemplateInv, TemplateStaysValid, IsTransactionValid
<1> QED
  BY <1>1, Invariance, PTL
=============================================================================
