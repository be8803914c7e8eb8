---------------------------- MODULE SentinelProofs ----------------------------
(***************************************************************************)
(* The elections of Sentinel, for any number of sentinels and instances,   *)
(* any quorum, and any number of failovers, restarts and lost messages.    *)
(***************************************************************************)
EXTENDS Sentinel, FiniteSetTheorems, TLAPS

(* A leaf that needs arithmetic, or much of set theory, names its prover. *)
USE ZenonT(20)

(* What the code takes for granted: a finite set of sentinels, which have  *)
(* run ids, and of the bounds of the model only the flag for Init.         *)
Setting ==
  /\ IsFiniteSet(Sentinels) /\ Nobody \notin Sentinels
  /\ First \in Instances
  /\ \A c \in Scenarios : c.down \in BOOLEAN

Addresses == Instances \cup {Nobody}
Candidates == Sentinels \cup {Nobody}

States == {"NONE", "WAIT_START", "SELECT_SLAVE", "SEND_SLAVEOF_NOONE", "WAIT_PROMOTION"} \cup Promoted

View == [down: BOOLEAN, leader: Candidates, epoch: Nat]

Rec ==
  [epoch: Nat, addr: Addresses, config: Nat, leader: Candidates, leaderEpoch: Nat,
   sdown: BOOLEAN, state: States, fepoch: Nat, forced: BOOLEAN, promoted: Addresses,
   reconf: [Instances -> {"none", "sent", "inprog", "done"}], view: [Sentinels -> View]]

File == [epoch: Nat, addr: Addresses, config: Nat, leaderEpoch: Nat]

Question == [addr: Addresses, epoch: Nat, runid: Candidates]

(* Every variable the elections depend on keeps its type. *)
TypeOK ==
  /\ sentinel \in [Sentinels -> Rec]
  /\ disk \in [Sentinels -> File]
  /\ ask \in [Sentinels -> [Sentinels -> Question]]
  /\ hellos \subseteq [epoch: Nat, addr: Addresses, config: Nat]
  /\ cast \subseteq Sentinels \X Nat \X Sentinels
  /\ elected \subseteq [who: Sentinels, fepoch: Nat, epoch: Nat, forced: BOOLEAN]

(* The epoch of the last vote is on disk, and no vote has a later one. *)
VotesOnDisk ==
  /\ \A s \in Sentinels : disk[s].leaderEpoch = sentinel[s].leaderEpoch
  /\ \A v \in cast : v[2] <= sentinel[v[1]].leaderEpoch

(* Whom a sentinel says it voted for, and what others keep of its answer,  *)
(* are votes it cast; and no sentinel asks itself.                         *)
AnswersAreVotes ==
  \A s \in Sentinels :
    /\ sentinel[s].leader # Nobody => <<s, sentinel[s].leaderEpoch, sentinel[s].leader>> \in cast
    /\ ask[s][s] = Idle /\ sentinel[s].view[s].leader = Nobody
    /\ \A t \in Sentinels : sentinel[s].view[t].leader # Nobody =>
         <<t, sentinel[s].view[t].epoch, sentinel[s].view[t].leader>> \in cast

(* A majority of the sentinels voted for a leader. *)
Backed(epoch, who) ==
  \E Q \in SUBSET Sentinels :
    2 * Cardinality(Q) > Cardinality(Sentinels) /\ \A t \in Q : <<t, epoch, who>> \in cast

LeadersBacked == \A e \in elected : Regular(e) => Backed(e.fepoch, e.who)

Ballots == TypeOK /\ VotesOnDisk /\ AnswersAreVotes /\ OneVotePerEpoch

IInv == Ballots /\ LeadersBacked

-----------------------------------------------------------------------------
LEMMA LoadedRec ==
  ASSUME NEW d \in File
  PROVE  /\ Loaded(d) \in Rec
         /\ Loaded(d).leader = Nobody /\ Loaded(d).leaderEpoch = d.leaderEpoch
         /\ \A t \in Sentinels : Loaded(d).view[t] = NoView
BY DEF Loaded, File, Rec, View, NoView, States, Addresses, Candidates

LEMMA InitIInv ==
  ASSUME Setting, Init
  PROVE  IInv
<1>1. PICK c \in Scenarios :
        sentinel = [s \in Sentinels |->
            [Loaded(disk[s]) EXCEPT !.sdown = c.down,
                                    !.view = [t \in Sentinels |-> [NoView EXCEPT !.down = c.down /\ s # t]]]]
  BY DEF Init
<1>2. c.down \in BOOLEAN
  BY DEF Setting
<1>3. disk \in [Sentinels -> File]
  BY DEF File, Init, Setting, Addresses
<1>4. ASSUME NEW s \in Sentinels
      PROVE  /\ sentinel[s] \in Rec /\ sentinel[s].leader = Nobody /\ sentinel[s].leaderEpoch = 0
             /\ \A t \in Sentinels : sentinel[s].view[t].leader = Nobody
  <2> DEFINE view == [t \in Sentinels |-> [NoView EXCEPT !.down = c.down /\ s # t]]
             l == Loaded(disk[s])
  <2>1. view \in [Sentinels -> View] /\ \A t \in Sentinels : view[t].leader = Nobody
    BY <1>2 DEF NoView, View, Candidates
  <2>2. l \in Rec /\ l.leader = Nobody /\ l.leaderEpoch = disk[s].leaderEpoch
    BY <1>3, <1>4, LoadedRec
  <2>3. disk[s].leaderEpoch = 0
    BY <1>4 DEF Init
  <2>4. sentinel[s] = [l EXCEPT !.sdown = c.down, !.view = view]
    BY <1>1, <1>4
  <2> HIDE DEF l, view
  <2> QED BY <1>2, <2>1, <2>2, <2>3, <2>4 DEF Rec
<1>5. TypeOK
  <2>1. sentinel \in [Sentinels -> Rec]
    <3>1. sentinel = [s \in Sentinels |-> sentinel[s]]
      BY <1>1
    <3> QED BY <1>4, <3>1
  <2>2. ask \in [Sentinels -> [Sentinels -> Question]]
    BY DEF Init, Idle, Question, Addresses, Candidates
  <2> QED BY <1>3, <2>1, <2>2 DEF Init, TypeOK
<1>6. VotesOnDisk /\ AnswersAreVotes /\ OneVotePerEpoch /\ LeadersBacked
  BY <1>4 DEF Init, VotesOnDisk, AnswersAreVotes, OneVotePerEpoch, LeadersBacked
<1> QED BY <1>5, <1>6 DEF IInv, Ballots

-----------------------------------------------------------------------------
(* A step in which only sentinel s may vote, and only in a later epoch     *)
(* than before.                                                            *)
VoteStep(s) ==
  /\ \A t \in Sentinels :
       LET r == sentinel[t]
           n == sentinel'[t]
       IN  /\ disk'[t].leaderEpoch = n.leaderEpoch
           /\ \/ n.leaderEpoch = r.leaderEpoch /\ n.leader \in {Nobody, r.leader}
              \/ t = s /\ r.leaderEpoch < n.leaderEpoch /\ n.leader \in Sentinels
           /\ n.view[t].leader = Nobody
           /\ \A u \in Sentinels :
                \/ n.view[u].leader = Nobody
                \/ n.view[u].leader = r.view[u].leader /\ n.view[u].epoch = r.view[u].epoch
                \/ /\ u = s /\ n.view[u].leader = sentinel'[u].leader
                   /\ n.view[u].epoch = sentinel'[u].leaderEpoch
  /\ cast' = cast \cup Votes(s, sentinel'[s])

LEMMA VoteStepBallots ==
  ASSUME Ballots, TypeOK', NEW s \in Sentinels, VoteStep(s), \A t \in Sentinels : ask'[t][t] = Idle
  PROVE  Ballots'
<1> DEFINE n == sentinel'[s]
<1>0. TypeOK /\ VotesOnDisk /\ AnswersAreVotes /\ OneVotePerEpoch
  BY DEF Ballots
<1>1. \/ n.leaderEpoch = sentinel[s].leaderEpoch /\ cast' = cast
      \/ /\ n.leaderEpoch > sentinel[s].leaderEpoch /\ n.leader \in Sentinels
         /\ cast' = cast \cup {<<s, n.leaderEpoch, n.leader>>}
  <2>1. n.leaderEpoch \in Nat /\ sentinel[s].leaderEpoch \in Nat
    BY <1>0 DEF TypeOK, Rec
  <2> QED BY <2>1 DEF VoteStep, Votes
<1>2. VotesOnDisk'
  <2>1. ASSUME NEW t \in Sentinels
        PROVE  /\ disk'[t].leaderEpoch = sentinel'[t].leaderEpoch
               /\ sentinel[t].leaderEpoch <= sentinel'[t].leaderEpoch
    <3>1. sentinel'[t].leaderEpoch \in Nat /\ sentinel[t].leaderEpoch \in Nat
      BY <1>0 DEF TypeOK, Rec
    <3> QED BY SMTT(30), <3>1, <2>1 DEF VoteStep
  <2>2. ASSUME NEW v \in cast'
        PROVE  v[2] <= sentinel'[v[1]].leaderEpoch
    <3>1. CASE v \in cast
      <4>1. v[1] \in Sentinels /\ v[2] \in Nat /\ v[2] <= sentinel[v[1]].leaderEpoch
        BY <1>0, <3>1 DEF TypeOK, VotesOnDisk
      <4>2. sentinel'[v[1]].leaderEpoch \in Nat /\ sentinel[v[1]].leaderEpoch \in Nat
        BY <1>0, <4>1 DEF TypeOK, Rec
      <4>3. sentinel[v[1]].leaderEpoch <= sentinel'[v[1]].leaderEpoch
        BY <2>1, <4>1
      <4> QED BY SMTT(30), <4>1, <4>2, <4>3
    <3>2. CASE v = <<s, n.leaderEpoch, n.leader>>
      <4>1. n.leaderEpoch \in Nat
        BY DEF TypeOK, Rec
      <4> QED BY SMTT(30), <3>2, <4>1
    <3> QED BY <1>1, <2>2, <3>1, <3>2
  <2> QED BY <2>1, <2>2 DEF VotesOnDisk
<1>3. AnswersAreVotes'
  <2>1. ASSUME NEW t \in Sentinels, sentinel'[t].leader # Nobody
        PROVE  <<t, sentinel'[t].leaderEpoch, sentinel'[t].leader>> \in cast'
    <3>1. CASE sentinel'[t].leaderEpoch = sentinel[t].leaderEpoch /\ sentinel'[t].leader = sentinel[t].leader
      BY <1>0, <1>1, <2>1, <3>1 DEF AnswersAreVotes
    <3>2. CASE t = s /\ sentinel[t].leaderEpoch < sentinel'[t].leaderEpoch
      <4>1. n.leaderEpoch \in Nat /\ sentinel[s].leaderEpoch \in Nat
        BY <1>0 DEF TypeOK, Rec
      <4> QED BY SMTT(30), <1>1, <3>2, <4>1
    <3> QED BY <2>1, <3>1, <3>2 DEF VoteStep
  <2>2. ASSUME NEW t \in Sentinels, NEW u \in Sentinels, sentinel'[t].view[u].leader # Nobody
        PROVE  <<u, sentinel'[t].view[u].epoch, sentinel'[t].view[u].leader>> \in cast'
    <3>1. CASE /\ sentinel'[t].view[u].leader = sentinel[t].view[u].leader
               /\ sentinel'[t].view[u].epoch = sentinel[t].view[u].epoch
      BY <1>0, <1>1, <2>2, <3>1 DEF AnswersAreVotes
    <3>2. CASE /\ u = s /\ sentinel'[t].view[u].leader = sentinel'[u].leader
               /\ sentinel'[t].view[u].epoch = sentinel'[u].leaderEpoch
      BY <2>1, <2>2, <3>2
    <3> QED BY <2>2, <3>1, <3>2 DEF VoteStep
  <2>3. \A t \in Sentinels : sentinel'[t].view[t].leader = Nobody
    BY DEF VoteStep
  <2> QED BY <2>1, <2>2, <2>3 DEF AnswersAreVotes, Idle
<1>4. OneVotePerEpoch'
  <2>1. ASSUME NEW v \in cast, v[1] = s, n.leaderEpoch > sentinel[s].leaderEpoch
        PROVE  v[2] # n.leaderEpoch
    <3>1. v[2] <= sentinel[s].leaderEpoch
      BY <1>0, <2>1 DEF VotesOnDisk
    <3>2. v[2] \in Nat /\ n.leaderEpoch \in Nat /\ sentinel[s].leaderEpoch \in Nat
      BY <1>0, <2>1 DEF TypeOK, Rec
    <3> QED BY SMTT(30), <2>1, <3>1, <3>2
  <2> QED BY SMTT(30), <1>0, <1>1, <2>1 DEF OneVotePerEpoch
<1> QED BY <1>2, <1>3, <1>4 DEF Ballots

-----------------------------------------------------------------------------
(* What one sentinel may make of itself: it keeps the answers of the       *)
(* others, and keeps or forgets its vote, or votes in a later epoch.       *)
Advances(r, n) ==
  /\ n \in Rec /\ n.view = r.view
  /\ \/ n.leaderEpoch = r.leaderEpoch /\ n.leader \in {Nobody, r.leader}
     \/ r.leaderEpoch < n.leaderEpoch /\ n.leader \in Sentinels

LEMMA OnlyRec ==
  ASSUME NEW x, NEW n \in Only(x)
  PROVE  n.r = x
BY SMTT(30) DEF Only

LEMMA VoteLeaderAdvances ==
  ASSUME NEW r \in Rec, NEW epoch \in Nat, NEW runid \in Sentinels
  PROVE  LET v == VoteLeader(r, epoch, runid)
         IN  Advances(r, v) /\ v.fepoch = r.fepoch /\ v.forced = r.forced /\ v.state = r.state
<1> DEFINE e == IF epoch > r.epoch THEN epoch ELSE r.epoch
<1>1. r.epoch \in Nat /\ r.leaderEpoch \in Nat /\ e \in Nat
  BY DEF Rec
<1> HIDE DEF e
<1>2. CASE r.leaderEpoch < epoch /\ e <= epoch
  <2>1. VoteLeader(r, epoch, runid) = [r EXCEPT !.epoch = e, !.leader = runid, !.leaderEpoch = e]
    BY <1>2 DEF VoteLeader, e
  <2>2. r.leaderEpoch < e
    BY SMTT(30), <1>1, <1>2 DEF e
  <2> QED BY <1>1, <2>1, <2>2 DEF Advances, Rec, Candidates
<1>3. CASE ~(r.leaderEpoch < epoch /\ e <= epoch)
  <2>1. VoteLeader(r, epoch, runid) = [r EXCEPT !.epoch = e]
    BY <1>3 DEF VoteLeader, e
  <2> QED BY <1>1, <2>1 DEF Advances, Rec
<1> QED BY <1>2, <1>3

LEMMA ResetAdvances ==
  ASSUME NEW r \in Rec, NEW addr \in Addresses
  PROVE  /\ Advances(r, ResetMasterAndChangeAddress(r, addr))
         /\ ResetMasterAndChangeAddress(r, addr).leaderEpoch = r.leaderEpoch
BY DEF ResetMasterAndChangeAddress, ResetMaster, Advances, Rec, Candidates, Addresses, States

LEMMA AbortAdvances ==
  ASSUME NEW r \in Rec, NEW n \in Rec, Advances(r, n)
  PROVE  Advances(r, AbortFailover(n)) /\ AbortFailover(n).state # "SELECT_SLAVE"
BY DEF AbortFailover, Advances, Rec, Addresses, States

LEMMA SelectSlaveAdvances ==
  ASSUME NEW r \in Rec, NEW n \in FailoverSelectSlave(r) \cup FailoverSendSlaveOfNoOne(r) \cup
                                  FailoverWaitPromotion(r)
  PROVE  Advances(r, n.r)
<1>0. Advances(r, r) /\ Advances(r, AbortFailover(r))
  <2>1. Advances(r, r)
    BY DEF Advances
  <2> QED BY <2>1, AbortAdvances
<1>1. CASE n \in FailoverSelectSlave(r)
  <2>1. PICK i \in SelectSlave(r) :
          n \in Only(IF i = Nobody THEN AbortFailover(r)
                     ELSE [r EXCEPT !.state = "SEND_SLAVEOF_NOONE", !.promoted = i])
    BY <1>1 DEF FailoverSelectSlave
  <2>2. i \in Addresses
    BY DEF SelectSlave, Slaves, Addresses
  <2>3. Advances(r, [r EXCEPT !.state = "SEND_SLAVEOF_NOONE", !.promoted = i])
    BY <2>2 DEF Advances, Rec, States
  <2> QED BY <1>0, <2>1, <2>3, OnlyRec
<1>2. CASE n \in FailoverSendSlaveOfNoOne(r)
  <2>1. Advances(r, [r EXCEPT !.state = "WAIT_PROMOTION"])
    BY DEF Advances, Rec, States
  <2> QED BY SMTT(30), <1>0, <1>2, <2>1 DEF FailoverSendSlaveOfNoOne, Only
<1>3. CASE n \in FailoverWaitPromotion(r)
  BY SMTT(30), <1>0, <1>3 DEF FailoverWaitPromotion, Only
<1> QED BY <1>1, <1>2, <1>3

(* What a step of RECONF_SLAVES may leave behind. *)
LEMMA ReconfCases ==
  ASSUME NEW r \in Rec, NEW n \in FailoverReconfNextSlave(r)
  PROVE  \/ n.r = r \/ n.r = Switch(r)
         \/ \E i \in Instances : \/ n.r = [r EXCEPT !.reconf[i] = "sent"]
                                 \/ n.r = [r EXCEPT !.reconf[i] = "done"]
                                 \/ n.r = Switch([r EXCEPT !.reconf[i] = "done"])
<1> DEFINE busy == {i \in Slaves(r) : r.reconf[i] \in {"sent", "inprog"}}
           next == {i \in Unconfigured(r) : r.reconf[i] = "none"}
           done(i) == [r EXCEPT !.reconf[i] = "done"]
           end(q) == IF Unconfigured(q) = {} THEN Switch(q) ELSE q
           A == Only(end(r))
           B == {[r |-> [r EXCEPT !.reconf[i] = "sent"], send |-> {<<i, r.promoted>>}]
                   : i \in IF busy = {} THEN next ELSE {}}
           C == UNION {Only(end(done(i))) : i \in {j \in busy : r.reconf[j] = "sent"}}
           D == {[r |-> Switch(r), send |-> {<<i, r.promoted>> : i \in reached}]
                   : reached \in SUBSET next}
<1>0. FailoverReconfNextSlave(r) = ((A \cup B) \cup C) \cup D
  BY DEF FailoverReconfNextSlave
<1>1. n \in A \/ n \in B \/ n \in C \/ n \in D
  <2> HIDE DEF A, B, C, D
  <2> QED BY <1>0
<1>2. busy \subseteq Instances /\ next \subseteq Instances
  BY DEF Unconfigured, Slaves
<1>3. ASSUME n \in C
      PROVE  \E i \in Instances : n.r = done(i) \/ n.r = Switch(done(i))
  <2>1. PICK i \in busy : n \in Only(end(done(i)))
    BY <1>3
  <2>2. n.r = end(done(i))
    BY <2>1, OnlyRec
  <2> QED BY <1>2, <2>1, <2>2
<1>4. n \in A => n.r = r \/ n.r = Switch(r)
  BY OnlyRec
<1>5. ASSUME n \in B
      PROVE  \E i \in Instances : n.r = [r EXCEPT !.reconf[i] = "sent"]
  <2>1. PICK i \in next : n = [r |-> [r EXCEPT !.reconf[i] = "sent"], send |-> {<<i, r.promoted>>}]
    BY <1>5
  <2>2. i \in Instances
    BY <1>2
  <2>3. n.r = [r EXCEPT !.reconf[i] = "sent"]
    BY <2>1
  <2> QED BY <2>2, <2>3
<1>6. n \in D => n.r = Switch(r)
  BY SMTT(30)
<1> HIDE DEF A, B, C, D
<1> QED BY <1>1, <1>3, <1>4, <1>5, <1>6

LEMMA ReconfAdvances ==
  ASSUME NEW r \in Rec, NEW n \in FailoverReconfNextSlave(r)
  PROVE  Advances(r, n.r)
<1>1. ASSUME NEW i \in Instances, NEW p \in {"sent", "done"}
      PROVE  /\ Advances(r, [r EXCEPT !.reconf[i] = p])
             /\ [r EXCEPT !.reconf[i] = p].leaderEpoch = r.leaderEpoch
  BY <1>1 DEF Advances, Rec
<1>2. ASSUME NEW q \in Rec, q.view = r.view, q.leaderEpoch = r.leaderEpoch
      PROVE  Advances(r, Switch(q))
  <2>1. q.promoted \in Addresses
    BY DEF Rec
  <2>2. Advances(q, Switch(q)) /\ Switch(q).leaderEpoch = q.leaderEpoch /\ Switch(q).leader = Nobody
    BY <2>1, ResetAdvances DEF Switch, ResetMasterAndChangeAddress, ResetMaster, Rec
  <2> QED BY <1>2, <2>2 DEF Advances, Rec
<1>3. Advances(r, r)
  BY DEF Advances
<1>5. \/ n.r = r \/ n.r = Switch(r)
      \/ \E i \in Instances : \/ n.r = [r EXCEPT !.reconf[i] = "sent"]
                              \/ n.r = [r EXCEPT !.reconf[i] = "done"]
                              \/ n.r = Switch([r EXCEPT !.reconf[i] = "done"])
  BY ReconfCases
<1>6. \A i \in Instances : Advances(r, Switch([r EXCEPT !.reconf[i] = "done"]))
  <2> TAKE i \in Instances
  <2>1. /\ Advances(r, [r EXCEPT !.reconf[i] = "done"])
        /\ [r EXCEPT !.reconf[i] = "done"].leaderEpoch = r.leaderEpoch
    BY <1>1
  <2> QED BY <1>2, <2>1 DEF Advances
<1>7. Advances(r, Switch(r))
  BY <1>2
<1> QED BY <1>1, <1>3, <1>5, <1>6, <1>7

(* The votes a sentinel knows of: the answers it has, and its own. *)
Known(s, r, epoch) ==
  {t \in Sentinels : \/ r.view[t].leader = s /\ r.view[t].epoch = epoch
                     \/ t = s /\ r.leader = s /\ r.leaderEpoch = epoch}

(* sentinelGetLeader counts a majority, if the epoch is the current one. *)
LEMMA LeaderCount ==
  ASSUME Setting, NEW s \in Sentinels, NEW r \in Rec, r.view[s].leader = Nobody,
         NEW w \in Candidates, IsLeader(s, r, w), r.epoch = r.fepoch
  PROVE  2 * Cardinality(Known(s, r, r.fepoch)) > Cardinality(Sentinels)
<1> DEFINE Q == {t \in Sentinels : r.view[t].leader = s /\ r.view[t].epoch = r.epoch}
           K == Known(s, r, r.fepoch)
<1>1. /\ IsFiniteSet(Sentinels) /\ Cardinality(Sentinels) \in Nat
      /\ IsFiniteSet(Q) /\ Cardinality(Q) \in Nat /\ IsFiniteSet(K) /\ Cardinality(K) \in Nat
  <2>1. Q \in SUBSET Sentinels /\ K \in SUBSET Sentinels
    BY DEF Known
  <2> HIDE DEF Q, K
  <2> QED BY <2>1, FS_Subset, FS_CardinalityType DEF Setting
<1>2. VotesFor(r, s) = Cardinality(Q)
  BY DEF VotesFor
<1>3. s \notin Q /\ Q \subseteq K
  BY DEF Setting, Known
<1>4. Cardinality(Q) <= Cardinality(K)
  <2> HIDE DEF Q, K
  <2> QED BY <1>1, <1>3, FS_Subset
<1>5. CASE w = s /\ 2 * Cardinality(Q) > Cardinality(Sentinels)
  <2> HIDE DEF Q, K
  <2> QED BY SMTT(30), <1>1, <1>4, <1>5 DEF K
<1>6. CASE r.leader = s /\ r.leaderEpoch = r.fepoch /\ 2 * (Cardinality(Q) + 1) > Cardinality(Sentinels)
  <2>1. K = Q \cup {s}
    BY <1>6 DEF Known
  <2>2. Cardinality(Q \cup {s}) = Cardinality(Q) + 1
    <3> HIDE DEF Q
    <3> QED BY <1>1, <1>3, FS_AddElement
  <2> HIDE DEF Q, K
  <2> QED BY <1>1, <1>6, <2>1, <2>2 DEF K
<1>7. \/ w = s /\ Enough(VotesFor(r, s))
      \/ r.leader = s /\ r.leaderEpoch = r.fepoch /\ Enough(VotesFor(r, s) + 1)
  <2> DEFINE top == IF w = Nobody THEN 0 ELSE VotesFor(r, w)
             mine == r.leader # Nobody /\ r.leaderEpoch = r.fepoch
             votes == IF mine THEN VotesFor(r, r.leader) + 1 ELSE 0
  <2>1. IF votes > top THEN r.leader = s /\ Enough(votes) ELSE w = s /\ Enough(top)
    BY DEF IsLeader
  <2>2. s # Nobody
    BY DEF Setting
  <2>3. CASE votes > top
    <3>1. mine \/ votes = 0
      OBVIOUS
    <3>2. top \in Nat
      <4>1. CASE w = Nobody
        BY <4>1
      <4>2. CASE w # Nobody
        <5> DEFINE W == {t \in Sentinels : r.view[t].leader = w /\ r.view[t].epoch = r.epoch}
        <5>1. W \in SUBSET Sentinels
          OBVIOUS
        <5>2. Cardinality(W) \in Nat
          <6> HIDE DEF W
          <6> QED BY <1>1, <5>1, FS_Subset, FS_CardinalityType
        <5> QED BY <4>2, <5>2 DEF VotesFor
      <4> QED BY <4>1, <4>2
    <3>3. mine
      <4> HIDE DEF top, mine
      <4> QED BY SMTT(30), <2>3, <3>1, <3>2
    <3> QED BY <2>1, <2>3, <3>3
  <2>4. CASE ~(votes > top)
    BY <2>1, <2>2, <2>4
  <2> QED BY <2>3, <2>4
<1> QED BY <1>2, <1>5, <1>6, <1>7 DEF Enough

(* The steps of a candidate: a vote, for the others' favourite or itself;  *)
(* and the count.                                                          *)
LEMMA WaitStartAdvances ==
  ASSUME Setting, NEW s \in Sentinels, NEW r \in Rec, NEW n \in FailoverWaitStart(s, r)
  PROVE  /\ Advances(r, n.r)
         /\ /\ n.r.state = "SELECT_SLAVE" /\ r.state = "WAIT_START" /\ ~r.forced
            /\ n.r.epoch = r.fepoch /\ r.view[s].leader = Nobody
            => 2 * Cardinality(Known(s, n.r, r.fepoch)) > Cardinality(Sentinels)
<1> DEFINE v(w) == VoteLeader(r, r.fepoch, IF w = Nobody THEN s ELSE w)
           wins(w) == [v(w) EXCEPT !.state = "SELECT_SLAVE"]
<1>1. PICK w \in Candidates :
        n \in IF IsLeader(s, v(w), w) \/ v(w).forced THEN Only(wins(w))
              ELSE Only(v(w)) \cup Only(AbortFailover(v(w)))
  BY DEF FailoverWaitStart, Favourites, Candidates
<1>2. Advances(r, v(w)) /\ v(w) \in Rec /\ v(w).fepoch = r.fepoch /\ v(w).forced = r.forced
      /\ v(w).state = r.state
  <2>1. (IF w = Nobody THEN s ELSE w) \in Sentinels /\ r.fepoch \in Nat
    BY DEF Candidates, Rec
  <2> QED BY <2>1, VoteLeaderAdvances DEF Advances
<1>3. /\ Advances(r, wins(w)) /\ wins(w).epoch = v(w).epoch
      /\ Known(s, wins(w), r.fepoch) = Known(s, v(w), r.fepoch)
  <2> HIDE DEF v
  <2>1. wins(w).leader = v(w).leader /\ wins(w).leaderEpoch = v(w).leaderEpoch /\ wins(w).view = v(w).view
    BY <1>2 DEF Rec
  <2>2. wins(w) \in Rec /\ wins(w).epoch = v(w).epoch
    BY <1>2 DEF Rec, States
  <2> QED BY <1>2, <2>1, <2>2 DEF Advances, Known
<1>4. CASE IsLeader(s, v(w), w) \/ v(w).forced
  <2>1. n.r = wins(w)
    BY <1>1, <1>4, OnlyRec
  <2>2. ASSUME ~r.forced, n.r.epoch = r.fepoch, r.view[s].leader = Nobody
        PROVE  2 * Cardinality(Known(s, n.r, r.fepoch)) > Cardinality(Sentinels)
    <3>1. IsLeader(s, v(w), w) /\ v(w).view[s].leader = Nobody /\ v(w).epoch = v(w).fepoch
      <4> HIDE DEF v, wins
      <4> QED BY <1>2, <1>3, <1>4, <2>1, <2>2 DEF Advances
    <3>2. 2 * Cardinality(Known(s, v(w), v(w).fepoch)) > Cardinality(Sentinels)
      <4> HIDE DEF v
      <4> QED BY <1>2, <3>1, LeaderCount
    <3> HIDE DEF v, wins
    <3> QED BY <1>2, <1>3, <2>1, <3>2
  <2> HIDE DEF v, wins
  <2> QED BY <1>3, <2>1, <2>2
<1>5. CASE ~(IsLeader(s, v(w), w) \/ v(w).forced)
  <2>1. n.r = v(w) \/ n.r = AbortFailover(v(w))
    <3> HIDE DEF v
    <3> QED BY <1>1, <1>5, OnlyRec
  <2>2. Advances(r, AbortFailover(v(w))) /\ AbortFailover(v(w)).state # "SELECT_SLAVE"
    <3> HIDE DEF v
    <3> QED BY <1>2, AbortAdvances
  <2> HIDE DEF v
  <2> QED BY <1>2, <2>1, <2>2
<1> QED BY <1>4, <1>5

(* The failover state machine as a whole. *)
LEMMA StateMachineAdvances ==
  ASSUME Setting, NEW s \in Sentinels, NEW r \in Rec, NEW n \in FailoverStateMachine(s, r)
  PROVE  /\ Advances(r, n.r)
         /\ /\ n.r.state = "SELECT_SLAVE" /\ r.state = "WAIT_START" /\ ~r.forced
            /\ n.r.epoch = r.fepoch /\ r.view[s].leader = Nobody
            => 2 * Cardinality(Known(s, n.r, r.fepoch)) > Cardinality(Sentinels)
<1>1. CASE r.state = "WAIT_START"
  <2>1. n \in FailoverWaitStart(s, r)
    BY <1>1 DEF FailoverStateMachine
  <2> QED BY <2>1, WaitStartAdvances
<1>2. CASE r.state \in {"SELECT_SLAVE", "SEND_SLAVEOF_NOONE", "WAIT_PROMOTION"}
  <2>1. n \in FailoverSelectSlave(r) \cup FailoverSendSlaveOfNoOne(r) \cup FailoverWaitPromotion(r)
    BY <1>2 DEF FailoverStateMachine
  <2> QED BY <1>2, <2>1, SelectSlaveAdvances
<1>3. CASE r.state = "RECONF_SLAVES"
  <2>1. n \in FailoverReconfNextSlave(r)
    BY <1>3 DEF FailoverStateMachine
  <2> QED BY <1>3, <2>1, ReconfAdvances
<1>4. CASE r.state \in {"NONE", "UPDATE_CONFIG"}
  <2>1. n \in Only(r)
    BY <1>4 DEF FailoverStateMachine
  <2>2. Advances(r, r)
    BY DEF Advances
  <2> QED BY <1>4, <2>1, <2>2, OnlyRec
<1>5. r.state \in States
  BY DEF Rec
<1> QED BY <1>1, <1>2, <1>3, <1>4, <1>5 DEF States, Promoted

-----------------------------------------------------------------------------
LEMMA SavedFile ==
  ASSUME NEW r \in Rec
  PROVE  Saved(r) \in File /\ Saved(r).leaderEpoch = r.leaderEpoch /\ CurrentMasterAddress(r) \in Addresses
BY DEF Saved, CurrentMasterAddress, Rec, File

(* Leaders of earlier steps keep their majority. *)
LEMMA BackedStays ==
  ASSUME NEW epoch, NEW who, Backed(epoch, who), cast \subseteq cast'
  PROVE  Backed(epoch, who)'
BY DEF Backed

(* A step of one sentinel in which nobody votes. *)
LEMMA QuietIInv ==
  ASSUME IInv, NEW s \in Sentinels, NEW n \in Rec, Become(s, n),
         n.leaderEpoch = sentinel[s].leaderEpoch, n.leader \in {Nobody, sentinel[s].leader},
         \A u \in Sentinels :
           \/ n.view[u].leader = Nobody
           \/ n.view[u].leader = sentinel[s].view[u].leader /\ n.view[u].epoch = sentinel[s].view[u].epoch,
         UNCHANGED disk \/ \E m \in Rec : m.leaderEpoch = n.leaderEpoch /\ Flush(s, m),
         ask' \in [Sentinels -> [Sentinels -> Question]], \A t \in Sentinels : ask'[t][t] = Idle,
         hellos' \subseteq [epoch: Nat, addr: Addresses, config: Nat],
         UNCHANGED <<cast, elected>>
  PROVE  IInv'
<1>0. TypeOK /\ VotesOnDisk /\ AnswersAreVotes /\ OneVotePerEpoch /\ LeadersBacked /\ Ballots
  BY DEF IInv, Ballots
<1>1. /\ disk' \in [Sentinels -> File]
      /\ \A t \in Sentinels : disk'[t].leaderEpoch = disk[t].leaderEpoch
  <2>1. CASE UNCHANGED disk
    BY <1>0, <2>1 DEF TypeOK
  <2>2. ASSUME NEW m \in Rec, m.leaderEpoch = n.leaderEpoch, Flush(s, m)
        PROVE  /\ disk' \in [Sentinels -> File]
               /\ \A t \in Sentinels : disk'[t].leaderEpoch = disk[t].leaderEpoch
    <3>1. Saved(m) \in File /\ Saved(m).leaderEpoch = m.leaderEpoch
      BY SavedFile
    <3> QED BY <1>0, <2>2, <3>1 DEF Flush, TypeOK, VotesOnDisk
  <2> QED BY <2>1, <2>2
<1>2. TypeOK'
  <2>1. sentinel' \in [Sentinels -> Rec]
    BY <1>0 DEF TypeOK, Become
  <2> QED BY <1>0, <1>1, <2>1 DEF TypeOK
<1>3. VoteStep(s)
  <2>1. sentinel'[s] = n /\ \A t \in Sentinels \ {s} : sentinel'[t] = sentinel[t]
    BY <1>0 DEF TypeOK, Become
  <2>2. cast' = cast \cup Votes(s, sentinel'[s])
    BY <2>1 DEF Votes
  <2>3. \A t \in Sentinels : disk'[t].leaderEpoch = sentinel'[t].leaderEpoch
    BY <1>0, <1>1, <2>1 DEF VotesOnDisk
  <2>4. \A t \in Sentinels : sentinel[t].view[t].leader = Nobody
    BY <1>0 DEF AnswersAreVotes
  <2> QED BY SMTT(30), <2>1, <2>2, <2>3, <2>4 DEF VoteStep
<1>4. Ballots'
  BY <1>0, <1>2, <1>3, VoteStepBallots
<1>5. LeadersBacked'
  BY <1>0 DEF LeadersBacked, Regular, Backed
<1> QED BY <1>4, <1>5 DEF IInv

LEMMA HelloIInv ==
  ASSUME IInv, NEW s \in Sentinels, SendHello(s) \/ \E h \in hellos : ReceiveHello(s, h)
  PROVE  IInv'
<1>0. TypeOK /\ AnswersAreVotes /\ sentinel[s] \in Rec
  BY DEF IInv, Ballots, TypeOK
<1> DEFINE r == sentinel[s]
<1>1. CASE SendHello(s)
  <2>1. Become(s, r) /\ UNCHANGED <<disk, ask, cast, elected>>
    BY <1>0, <1>1 DEF SendHello, Become, TypeOK
  <2>2. hellos' \subseteq [epoch: Nat, addr: Addresses, config: Nat]
    <3>1. CurrentMasterAddress(r) \in Addresses /\ r.epoch \in Nat /\ r.config \in Nat
      BY <1>0, SavedFile DEF Rec
    <3> QED BY SMTT(30), <1>0, <1>1, <3>1 DEF SendHello, TypeOK
  <2>3. ask' \in [Sentinels -> [Sentinels -> Question]] /\ \A t \in Sentinels : ask'[t][t] = Idle
    BY <1>0, <2>1 DEF TypeOK, AnswersAreVotes
  <2> QED BY <1>0, <2>1, <2>2, <2>3, QuietIInv
<1>2. ASSUME NEW h \in hellos, ReceiveHello(s, h)
      PROVE  IInv'
  <2> DEFINE e == IF h.epoch > r.epoch THEN [r EXCEPT !.epoch = h.epoch] ELSE r
             c == IF h.config > r.config THEN [e EXCEPT !.config = h.config] ELSE e
             n == IF h.config > r.config /\ h.addr # r.addr THEN ResetMasterAndChangeAddress(c, h.addr)
                  ELSE c
  <2>1. h.epoch \in Nat /\ h.config \in Nat /\ h.addr \in Addresses
    BY <1>0 DEF TypeOK
  <2>2. /\ e \in Rec /\ c \in Rec /\ e.leaderEpoch = r.leaderEpoch
        /\ c.view = r.view /\ c.leader = r.leader /\ c.leaderEpoch = r.leaderEpoch
    BY <1>0, <2>1 DEF Rec
  <2>3. n \in Rec /\ n.view = r.view /\ n.leader \in {Nobody, r.leader} /\ n.leaderEpoch = r.leaderEpoch
    <3> HIDE DEF c
    <3>1. /\ Advances(c, ResetMasterAndChangeAddress(c, h.addr))
          /\ ResetMasterAndChangeAddress(c, h.addr).leaderEpoch = c.leaderEpoch
      BY <2>1, <2>2, ResetAdvances
    <3>2. CASE n = c
      BY <2>2, <3>2
    <3>3. CASE n = ResetMasterAndChangeAddress(c, h.addr)
      <4> HIDE DEF n
      <4>1. c.leaderEpoch \in Nat
        BY <2>2 DEF Rec
      <4> QED BY SMTT(30), <2>2, <3>1, <3>3, <4>1 DEF Advances
    <3> QED BY <3>2, <3>3
  <2>4. /\ Become(s, n) /\ (IF n.addr # r.addr THEN Flush(s, n) ELSE FlushIf(s, e, e # r))
        /\ UNCHANGED <<ask, hellos, cast, elected>>
    BY <1>2 DEF ReceiveHello, ProcessHello
  <2> HIDE DEF n, c, e
  <2>5. UNCHANGED disk \/ \E m \in Rec : m.leaderEpoch = n.leaderEpoch /\ Flush(s, m)
    BY <2>2, <2>3, <2>4 DEF FlushIf
  <2>6. /\ ask' \in [Sentinels -> [Sentinels -> Question]] /\ \A t \in Sentinels : ask'[t][t] = Idle
        /\ hellos' \subseteq [epoch: Nat, addr: Addresses, config: Nat]
    BY <1>0, <2>4 DEF TypeOK, AnswersAreVotes
  <2> QED BY <1>0, <2>3, <2>4, <2>5, <2>6, QuietIInv
<1> QED BY <1>1, <1>2

LEMMA StartRec ==
  ASSUME NEW r \in Rec
  PROVE  LET n == StartFailover(r)
         IN  /\ n \in Rec /\ n.view = r.view /\ n.leader = r.leader /\ n.leaderEpoch = r.leaderEpoch
             /\ n.fepoch = r.epoch + 1 /\ n.epoch = r.epoch + 1 /\ n.state = "WAIT_START"
<1> DEFINE e == r.epoch + 1
<1>1. e \in Nat
  BY SMTT(30) DEF Rec
<1>2. StartFailover(r) = [r EXCEPT !.state = "WAIT_START", !.epoch = e, !.fepoch = e]
  BY DEF StartFailover, Rec
<1>3. e = r.epoch + 1
  OBVIOUS
<1> HIDE DEF e
<1>4. StartFailover(r) \in Rec
  BY <1>1, <1>2 DEF Rec, States
<1> QED BY <1>2, <1>3, <1>4 DEF Rec

LEMMA RefreshIInv ==
  ASSUME IInv, NEW s \in Sentinels, NEW i \in Instances, RefreshSlaveInfo(s, i)
  PROVE  IInv'
<1>0. TypeOK /\ AnswersAreVotes /\ sentinel[s] \in Rec
  BY DEF IInv, Ballots, TypeOK
<1> DEFINE r == sentinel[s]
<1>1. /\ UNCHANGED <<cast, elected>>
      /\ ask' \in [Sentinels -> [Sentinels -> Question]] /\ \A t \in Sentinels : ask'[t][t] = Idle
      /\ hellos' \subseteq [epoch: Nat, addr: Addresses, config: Nat]
  BY <1>0 DEF TypeOK, AnswersAreVotes, RefreshSlaveInfo
<1>2. PICK n \in Rec : /\ Become(s, n) /\ (UNCHANGED disk \/ Flush(s, n))
                       /\ n.view = r.view /\ n.leader = r.leader /\ n.leaderEpoch = r.leaderEpoch
  <2>1. CASE Become(s, Promotion(r)) /\ Flush(s, Promotion(r))
    <3>1. /\ Promotion(r) \in Rec /\ Promotion(r).view = r.view /\ Promotion(r).leader = r.leader
          /\ Promotion(r).leaderEpoch = r.leaderEpoch
      BY <1>0 DEF Promotion, Rec, States, Promoted
    <3> QED BY <2>1, <3>1
  <2>2. CASE UNCHANGED <<sentinel, disk>>
    BY <1>0, <2>2 DEF Become, TypeOK
  <2>3. ASSUME NEW p \in {"inprog", "done", r.reconf[i]}, Become(s, [r EXCEPT !.reconf[i] = p]), UNCHANGED disk
        PROVE  \E n \in Rec : /\ Become(s, n) /\ UNCHANGED disk
                              /\ n.view = r.view /\ n.leader = r.leader /\ n.leaderEpoch = r.leaderEpoch
    <3>1. p \in {"none", "sent", "inprog", "done"}
      BY <1>0 DEF Rec
    <3> DEFINE n == [r EXCEPT !.reconf[i] = p]
    <3>2. n \in Rec /\ n.view = r.view /\ n.leader = r.leader /\ n.leaderEpoch = r.leaderEpoch
      BY <1>0, <3>1 DEF Rec
    <3> HIDE DEF n
    <3> QED BY <2>3, <3>2 DEF n
  <2>4. \/ Become(s, Promotion(r)) /\ Flush(s, Promotion(r))
        \/ UNCHANGED <<sentinel, disk>>
        \/ \E p \in {"inprog", "done", r.reconf[i]} :
             Become(s, [r EXCEPT !.reconf[i] = p]) /\ UNCHANGED disk
    BY DEF RefreshSlaveInfo
  <2>5. ASSUME \E p \in {"inprog", "done", r.reconf[i]} :
                 Become(s, [r EXCEPT !.reconf[i] = p]) /\ UNCHANGED disk
        PROVE  \E n \in Rec : /\ Become(s, n) /\ UNCHANGED disk
                              /\ n.view = r.view /\ n.leader = r.leader /\ n.leaderEpoch = r.leaderEpoch
    BY <2>3, <2>5
  <2> QED BY <2>1, <2>2, <2>4, <2>5
<1>3. UNCHANGED disk \/ \E m \in Rec : m.leaderEpoch = n.leaderEpoch /\ Flush(s, m)
  BY <1>2
<1> QED BY <1>0, <1>1, <1>2, <1>3, QuietIInv

LEMMA CommandIInv ==
  ASSUME IInv, NEW s \in Sentinels, FailoverCommand(s) \/ FailoverElsewhere(s) \/ Recovers(s)
  PROVE  IInv'
<1>0. TypeOK /\ AnswersAreVotes /\ sentinel[s] \in Rec
  BY DEF IInv, Ballots, TypeOK
<1> DEFINE r == sentinel[s]
<1>1. /\ UNCHANGED <<cast, elected>>
      /\ ask' \in [Sentinels -> [Sentinels -> Question]] /\ \A t \in Sentinels : ask'[t][t] = Idle
      /\ hellos' \subseteq [epoch: Nat, addr: Addresses, config: Nat]
  BY <1>0 DEF TypeOK, AnswersAreVotes, FailoverCommand, FailoverElsewhere, Recovers
<1>2. PICK n \in Rec : /\ Become(s, n) /\ (UNCHANGED disk \/ Flush(s, n))
                       /\ n.view = r.view /\ n.leader = r.leader /\ n.leaderEpoch = r.leaderEpoch
  <2>1. CASE FailoverCommand(s)
    <3> DEFINE n == [StartFailover(r) EXCEPT !.forced = TRUE]
    <3>1. n \in Rec /\ n.view = r.view /\ n.leader = r.leader /\ n.leaderEpoch = r.leaderEpoch
      BY ZenonT(30), <1>0, StartRec DEF Rec
    <3> QED BY <2>1, <3>1 DEF FailoverCommand
  <2>2. CASE FailoverElsewhere(s)
    <3> DEFINE n == [r EXCEPT !.epoch = @ + 1]
    <3>1. n \in Rec /\ n.view = r.view /\ n.leader = r.leader /\ n.leaderEpoch = r.leaderEpoch
      BY SMTT(30), <1>0 DEF Rec
    <3> QED BY <2>2, <3>1 DEF FailoverElsewhere
  <2>3. CASE Recovers(s)
    <3> DEFINE n == [r EXCEPT !.sdown = FALSE]
    <3>1. n \in Rec /\ n.view = r.view /\ n.leader = r.leader /\ n.leaderEpoch = r.leaderEpoch
      BY <1>0 DEF Rec
    <3> QED BY <2>3, <3>1 DEF Recovers
  <2> QED BY <2>1, <2>2, <2>3
<1>3. UNCHANGED disk \/ \E m \in Rec : m.leaderEpoch = n.leaderEpoch /\ Flush(s, m)
  BY <1>2
<1> QED BY <1>0, <1>1, <1>2, <1>3, QuietIInv

(* What is on disk is enough: a restart brings no vote back, but its epoch. *)
LEMMA RestartIInv ==
  ASSUME IInv, NEW s \in Sentinels, Restart(s)
  PROVE  IInv'
<1>0. TypeOK /\ VotesOnDisk /\ AnswersAreVotes
  BY DEF IInv, Ballots
<1> DEFINE n == Loaded(disk[s])
<1>1. /\ UNCHANGED <<disk, cast, elected>> /\ Become(s, n)
      /\ hellos' \subseteq [epoch: Nat, addr: Addresses, config: Nat]
  BY <1>0 DEF Restart, TypeOK
<1>2. ask' \in [Sentinels -> [Sentinels -> Question]] /\ \A t \in Sentinels : ask'[t][t] = Idle
  BY <1>0 DEF Restart, TypeOK, AnswersAreVotes, Idle, Question, Addresses, Candidates
<1>3. /\ n \in Rec /\ n.leader = Nobody /\ n.leaderEpoch = sentinel[s].leaderEpoch
      /\ \A u \in Sentinels : n.view[u].leader = Nobody
  <2>1. disk[s] \in File /\ disk[s].leaderEpoch = sentinel[s].leaderEpoch
    BY <1>0 DEF TypeOK, VotesOnDisk
  <2> HIDE DEF n
  <2> QED BY SMTT(30), <2>1, LoadedRec DEF n, NoView
<1> HIDE DEF n
<1> QED BY <1>1, <1>2, <1>3, QuietIInv

LEMMA SilenceIInv ==
  ASSUME IInv, NEW s \in Sentinels, NEW t \in Sentinels, Silence(s, t)
  PROVE  IInv'
<1>0. TypeOK /\ AnswersAreVotes /\ sentinel[s] \in Rec
  BY DEF IInv, Ballots, TypeOK
<1> DEFINE r == sentinel[s]
           n == [r EXCEPT !.view[t] = [@ EXCEPT !.down = FALSE, !.leader = Nobody]]
<1>1. /\ UNCHANGED <<disk, cast, elected>> /\ Become(s, n)
      /\ hellos' \subseteq [epoch: Nat, addr: Addresses, config: Nat]
  BY <1>0 DEF Silence, TypeOK
<1>2. ask' \in [Sentinels -> [Sentinels -> Question]] /\ \A u \in Sentinels : ask'[u][u] = Idle
  <2>1. Idle \in Question
    BY DEF Idle, Question, Addresses, Candidates
  <2> QED BY <1>0, <2>1 DEF Silence, TypeOK, AnswersAreVotes
<1>3. /\ n \in Rec /\ n.leader = r.leader /\ n.leaderEpoch = r.leaderEpoch
      /\ \A u \in Sentinels : n.view[u].leader = Nobody \/ n.view[u] = r.view[u]
  <2>1. r.view \in [Sentinels -> View]
    BY <1>0 DEF Rec
  <2> DEFINE v == [r.view EXCEPT ![t] = [@ EXCEPT !.down = FALSE, !.leader = Nobody]]
  <2>2. v \in [Sentinels -> View] /\ \A u \in Sentinels : v[u].leader = Nobody \/ v[u] = r.view[u]
    BY <2>1 DEF View, Candidates
  <2>3. n = [r EXCEPT !.view = v]
    BY <1>0 DEF Rec
  <2> HIDE DEF v, n
  <2> QED BY <1>0, <2>2, <2>3 DEF Rec
<1> HIDE DEF n
<1> QED BY <1>1, <1>2, <1>3, QuietIInv

-----------------------------------------------------------------------------
(* A vote, and the epoch of it on disk, in the same step. *)
LEMMA FlushedVote ==
  ASSUME TypeOK, VotesOnDisk, NEW s \in Sentinels, NEW n \in Rec, NEW changed,
         FlushIf(s, n, changed), n.leaderEpoch # sentinel[s].leaderEpoch => changed
  PROVE  /\ disk' \in [Sentinels -> File]
         /\ disk'[s].leaderEpoch = n.leaderEpoch
         /\ \A t \in Sentinels \ {s} : disk'[t].leaderEpoch = sentinel[t].leaderEpoch
<1>1. Saved(n) \in File /\ Saved(n).leaderEpoch = n.leaderEpoch
  BY SavedFile
<1> QED BY <1>1 DEF FlushIf, Flush, TypeOK, VotesOnDisk

(* The timer, once it is decided whether the master counts as down and     *)
(* whether a failover starts.                                              *)
TimerStep(s, b, o) ==
  \E n \in FailoverStateMachine(s, b) :
    /\ Become(s, n.r)
    /\ FlushIf(s, n.r, n.r.leaderEpoch # o.leaderEpoch \/ n.r.addr # o.addr)
    /\ slaveof' = slaveof \cup n.send
    /\ AskMasterState(s, n.r)
    /\ cast' = cast \cup Votes(s, n.r)
    /\ elected' = elected \cup
         IF b.state = "WAIT_START" /\ n.r.state = "SELECT_SLAVE"
         THEN {[who |-> s, fepoch |-> b.fepoch, epoch |-> n.r.epoch, forced |-> b.forced]}
         ELSE {}

TimerWith(s, down, ready) ==
  LET o == [sentinel[s] EXCEPT !.sdown = down]
      start == ready /\ StartFailoverIfNeeded(o)
      b == IF start THEN StartFailover(o) ELSE o
  IN  /\ ready => start /\ starts[s] > 0 /\ o.epoch < budget.epochs
      /\ starts' = [starts EXCEPT ![s] = IF start THEN @ - 1 ELSE @]
      /\ TimerStep(s, b, o)

LEMMA TimerCases ==
  ASSUME NEW s \in Sentinels, Timer(s)
  PROVE  \E down \in {TRUE, sentinel[s].sdown} :
           LET o == [sentinel[s] EXCEPT !.sdown = down]
           IN  TimerStep(s, o, o) \/ (o.state = "NONE" /\ TimerStep(s, StartFailover(o), o))
<1>1. \E down \in {TRUE, sentinel[s].sdown}, ready \in BOOLEAN : TimerWith(s, down, ready)
  BY DEF Timer, TimerWith, TimerStep
<1>2. PICK down \in {TRUE, sentinel[s].sdown}, ready \in BOOLEAN : TimerWith(s, down, ready)
  BY <1>1
<1> DEFINE o == [sentinel[s] EXCEPT !.sdown = down]
<1>3. TimerStep(s, o, o) \/ (o.state = "NONE" /\ TimerStep(s, StartFailover(o), o))
  BY <1>2 DEF TimerWith, StartFailoverIfNeeded
<1> QED BY <1>3

LEMMA TimerIInv ==
  ASSUME Setting, IInv, NEW s \in Sentinels, Timer(s)
  PROVE  IInv'
<1>0. TypeOK /\ VotesOnDisk /\ AnswersAreVotes /\ LeadersBacked /\ Ballots /\ sentinel[s] \in Rec
  BY DEF IInv, Ballots, TypeOK
<1> DEFINE r == sentinel[s]
<1>1. PICK down \in {TRUE, r.sdown} :
        \/ TimerStep(s, [r EXCEPT !.sdown = down], [r EXCEPT !.sdown = down])
        \/ TimerStep(s, StartFailover([r EXCEPT !.sdown = down]), [r EXCEPT !.sdown = down])
  BY TimerCases
<1> DEFINE o == [r EXCEPT !.sdown = down]
<1>2. o \in Rec /\ o.view = r.view /\ o.leader = r.leader /\ o.leaderEpoch = r.leaderEpoch
  BY <1>0 DEF Rec
<1>3. PICK f \in Rec : /\ TimerStep(s, f, o)
                       /\ f.view = r.view /\ f.leader = r.leader /\ f.leaderEpoch = r.leaderEpoch
  <2>1. TimerStep(s, o, o) \/ TimerStep(s, StartFailover(o), o)
    BY <1>1
  <2> HIDE DEF o
  <2> QED BY SMTT(30), <1>2, <2>1, StartRec
<1> HIDE DEF o
<1>4. PICK n \in FailoverStateMachine(s, f) :
        /\ Become(s, n.r)
        /\ FlushIf(s, n.r, n.r.leaderEpoch # r.leaderEpoch \/ n.r.addr # o.addr)
        /\ AskMasterState(s, n.r) /\ cast' = cast \cup Votes(s, n.r)
        /\ elected' = elected \cup
             IF f.state = "WAIT_START" /\ n.r.state = "SELECT_SLAVE"
             THEN {[who |-> s, fepoch |-> f.fepoch, epoch |-> n.r.epoch, forced |-> f.forced]} ELSE {}
  BY <1>2, <1>3 DEF TimerStep
<1>h. hellos' = hellos
  BY DEF Timer
<1>5. /\ Advances(f, n.r)
      /\ f.state = "WAIT_START" /\ n.r.state = "SELECT_SLAVE" /\ ~f.forced /\ n.r.epoch = f.fepoch =>
           2 * Cardinality(Known(s, n.r, f.fepoch)) > Cardinality(Sentinels)
  <2>1. f.view[s].leader = Nobody
    BY <1>0, <1>3 DEF AnswersAreVotes
  <2> QED BY <1>3, <1>4, <2>1, StateMachineAdvances
<1>6. n.r \in Rec /\ n.r.view = r.view
  BY <1>3, <1>5 DEF Advances
<1>7. /\ disk' \in [Sentinels -> File] /\ disk'[s].leaderEpoch = n.r.leaderEpoch
      /\ \A t \in Sentinels \ {s} : disk'[t].leaderEpoch = sentinel[t].leaderEpoch
  BY <1>0, <1>4, <1>6, FlushedVote
<1>8. sentinel'[s] = n.r /\ (\A t \in Sentinels \ {s} : sentinel'[t] = sentinel[t])
      /\ sentinel' \in [Sentinels -> Rec]
  BY <1>0, <1>4, <1>6 DEF Become, TypeOK
<1>9. ask' \in [Sentinels -> [Sentinels -> Question]] /\ \A t \in Sentinels : ask'[t][t] = Idle
  <2>1. n.r.addr \in Addresses /\ n.r.epoch \in Nat
    BY <1>6 DEF Rec
  <2>2. \A c \in Candidates : [addr |-> n.r.addr, epoch |-> n.r.epoch, runid |-> c] \in Question
    BY <2>1 DEF Question
  <2>3. (IF n.r.state = "NONE" THEN Nobody ELSE s) \in Candidates
    BY DEF Candidates
  <2> QED BY <1>0, <1>4, <2>2, <2>3 DEF AskMasterState, TypeOK, AnswersAreVotes
<1>10. TypeOK'
  <2>1. cast' \subseteq Sentinels \X Nat \X Sentinels
    <3>1. Votes(s, n.r) \subseteq Sentinels \X Nat \X Sentinels
      <4>1. n.r.leaderEpoch \in Nat /\ (n.r.leaderEpoch # r.leaderEpoch => n.r.leader \in Sentinels)
        BY <1>3, <1>5, <1>6 DEF Advances, Rec
      <4> QED BY SMTT(30), <4>1 DEF Votes
    <3> QED BY <1>0, <1>4, <3>1 DEF TypeOK
  <2>2. elected' \subseteq [who: Sentinels, fepoch: Nat, epoch: Nat, forced: BOOLEAN]
    <3>1. f.fepoch \in Nat /\ n.r.epoch \in Nat /\ f.forced \in BOOLEAN
      BY <1>3, <1>6 DEF Rec
    <3>2. [who |-> s, fepoch |-> f.fepoch, epoch |-> n.r.epoch, forced |-> f.forced]
            \in [who: Sentinels, fepoch: Nat, epoch: Nat, forced: BOOLEAN]
      BY <3>1
    <3> QED BY <1>0, <1>4, <3>2 DEF TypeOK
  <2> QED BY <1>0, <1>h, <1>7, <1>8, <1>9, <2>1, <2>2 DEF TypeOK
<1>11. VoteStep(s)
  <2>1. \A t \in Sentinels : sentinel[t].view[t].leader = Nobody
    BY <1>0 DEF AnswersAreVotes
  <2> QED BY SMTT(30), <1>3, <1>4, <1>5, <1>6, <1>7, <1>8, <2>1 DEF VoteStep, Advances
<1>12. Ballots'
  BY <1>0, <1>9, <1>10, <1>11, VoteStepBallots
<1>13. LeadersBacked'
  <2>1. ASSUME NEW e \in elected, Regular(e)
        PROVE  Backed(e.fepoch, e.who)'
    <3>1. Backed(e.fepoch, e.who)
      BY <1>0, <2>1 DEF LeadersBacked
    <3> QED BY <1>4, <3>1, BackedStays
  <2>2. ASSUME f.state = "WAIT_START", n.r.state = "SELECT_SLAVE", ~f.forced, n.r.epoch = f.fepoch
        PROVE  Backed(f.fepoch, s)'
    <3> DEFINE Q == Known(s, n.r, f.fepoch)
    <3>1. Q \in SUBSET Sentinels /\ 2 * Cardinality(Q) > Cardinality(Sentinels)
      BY <1>5, <2>2 DEF Known
    <3>2. \A t \in Q : <<t, f.fepoch, s>> \in cast'
      <4>1. s # Nobody
        BY DEF Setting
      <4>2. AnswersAreVotes'
        BY <1>12 DEF Ballots
      <4>3. ASSUME NEW t \in Sentinels, n.r.view[t].leader = s
            PROVE  <<t, n.r.view[t].epoch, n.r.view[t].leader>> \in cast'
        BY <1>8, <4>1, <4>2, <4>3 DEF AnswersAreVotes
      <4>4. n.r.leader = s => <<s, n.r.leaderEpoch, n.r.leader>> \in cast'
        BY <1>8, <4>1, <4>2 DEF AnswersAreVotes
      <4> QED BY <4>3, <4>4 DEF Known
    <3> HIDE DEF Q
    <3> QED BY <3>1, <3>2 DEF Backed
  <2>3. ASSUME NEW e \in elected', e \notin elected, Regular(e)
        PROVE  Backed(e.fepoch, e.who)'
    <3>1. /\ f.state = "WAIT_START" /\ n.r.state = "SELECT_SLAVE" /\ e.who = s /\ e.fepoch = f.fepoch
          /\ e.epoch = n.r.epoch /\ e.forced = f.forced
      BY SMTT(30), <1>4, <2>3
    <3>2. ~f.forced /\ n.r.epoch = f.fepoch
      BY <2>3, <3>1 DEF Regular
    <3>3. Backed(f.fepoch, s)'
      BY <2>2, <3>1, <3>2
    <3> QED BY <3>1, <3>3
  <2> QED BY <2>1, <2>3 DEF LeadersBacked, Regular
<1> QED BY <1>12, <1>13 DEF IInv

(* A question answered: t may vote, and s keeps what t says of its vote. *)
LEMMA AnswerIInv ==
  ASSUME Setting, IInv, NEW s \in Sentinels, NEW t \in Sentinels, IsMasterDownByAddr(s, t)
  PROVE  IInv'
<1>0. /\ TypeOK /\ VotesOnDisk /\ AnswersAreVotes /\ LeadersBacked /\ Ballots
      /\ sentinel[s] \in Rec /\ sentinel[t] \in Rec
  BY DEF IInv, Ballots, TypeOK
<1> DEFINE q == ask[s][t]
           r == sentinel[t]
           seeks == q.addr = r.addr /\ q.runid # Nobody
           v == IF seeks THEN VoteLeader(r, q.epoch, q.runid) ELSE r
           down == r.sdown /\ q.addr = r.addr
           seen == ReceiveIsMasterDownReply(sentinel[s].view[t], down,
                                            IF seeks THEN v.leader ELSE Nobody, v.leaderEpoch)
           w == [sentinel[s] EXCEPT !.view[t] = seen]
<1>1. /\ q # Idle /\ FlushIf(t, v, v # r)
      /\ sentinel' = [sentinel EXCEPT ![t] = v, ![s].view[t] = seen]
      /\ ask' = [ask EXCEPT ![s][t] = Idle]
      /\ cast' = cast \cup Votes(t, v)
      /\ UNCHANGED <<hellos, elected>>
  BY DEF IsMasterDownByAddr
<1>2. s # t
  BY <1>0, <1>1 DEF AnswersAreVotes
<1>3. Advances(r, v)
  <2>1. q.epoch \in Nat /\ q.runid \in Candidates
    BY <1>0 DEF TypeOK, Question
  <2>2. seeks => Advances(r, VoteLeader(r, q.epoch, q.runid))
    BY <1>0, <2>1, VoteLeaderAdvances DEF Candidates
  <2>3. Advances(r, r)
    BY <1>0 DEF Advances
  <2> QED BY <2>2, <2>3
<1> HIDE DEF v
<1>4. /\ seen \in View
      /\ \/ seen.leader = sentinel[s].view[t].leader /\ seen.epoch = sentinel[s].view[t].epoch
         \/ seen.leader = v.leader /\ seen.epoch = v.leaderEpoch
  <2>1. v.leader \in Candidates /\ v.leaderEpoch \in Nat /\ down \in BOOLEAN
    BY <1>0, <1>3 DEF Advances, Rec
  <2>2. sentinel[s].view[t] \in View
    BY <1>0 DEF Rec
  <2> HIDE DEF down, seeks
  <2> QED BY <2>1, <2>2 DEF ReceiveIsMasterDownReply, View
<1> HIDE DEF seen
<1>5. w \in Rec /\ w.leader = sentinel[s].leader /\ w.leaderEpoch = sentinel[s].leaderEpoch
      /\ w.view[t] = seen /\ \A u \in Sentinels \ {t} : w.view[u] = sentinel[s].view[u]
  BY <1>0, <1>4 DEF Rec
<1>6. /\ sentinel'[t] = v /\ sentinel'[s] = w /\ sentinel' \in [Sentinels -> Rec]
      /\ \A u \in Sentinels \ {s, t} : sentinel'[u] = sentinel[u]
  <2>1. v \in Rec
    BY <1>3 DEF Advances
  <2>2. sentinel' = [sentinel EXCEPT ![t] = v, ![s] = w]
    BY <1>0, <1>1, <1>2 DEF TypeOK
  <2> HIDE DEF w
  <2> QED BY <1>0, <1>2, <1>5, <2>1, <2>2 DEF TypeOK
<1> HIDE DEF w
<1>7. /\ disk' \in [Sentinels -> File] /\ disk'[t].leaderEpoch = v.leaderEpoch
      /\ \A u \in Sentinels \ {t} : disk'[u].leaderEpoch = sentinel[u].leaderEpoch
  <2>1. v \in Rec
    BY <1>3 DEF Advances
  <2> QED BY <1>0, <1>1, <2>1, FlushedVote
<1>8. ask' \in [Sentinels -> [Sentinels -> Question]] /\ \A u \in Sentinels : ask'[u][u] = Idle
  <2>1. Idle \in Question
    BY DEF Idle, Question, Addresses, Candidates
  <2> QED BY <1>0, <1>1, <2>1 DEF TypeOK, AnswersAreVotes
<1>9. TypeOK'
  <2>1. v.leaderEpoch \in Nat /\ (v.leaderEpoch # r.leaderEpoch => v.leader \in Sentinels)
    BY <1>0, <1>3 DEF Advances, Rec
  <2>2. Votes(t, v) \subseteq Sentinels \X Nat \X Sentinels
    BY SMTT(30), <2>1 DEF Votes
  <2> QED BY <1>0, <1>1, <1>6, <1>7, <1>8, <2>2 DEF TypeOK
<1>10. VoteStep(t)
  <2>1. \A u \in Sentinels : sentinel[u].view[u].leader = Nobody
    BY <1>0 DEF AnswersAreVotes
  <2>2. cast' = cast \cup Votes(t, sentinel'[t])
    BY <1>1, <1>6
  <2>3. ASSUME NEW u \in Sentinels, u # s, u # t
        PROVE  sentinel'[u] = sentinel[u] /\ disk'[u].leaderEpoch = sentinel'[u].leaderEpoch
    BY <1>6, <1>7, <2>3
  <2>4. disk'[s].leaderEpoch = w.leaderEpoch
    BY <1>2, <1>5, <1>7
  <2>5. v.view = r.view
    BY <1>3 DEF Advances
  <2> QED BY SMTT(30), <1>2, <1>3, <1>4, <1>5, <1>6, <1>7, <2>1, <2>2, <2>3, <2>4, <2>5 DEF VoteStep, Advances
<1>11. Ballots'
  BY <1>0, <1>8, <1>9, <1>10, VoteStepBallots
<1>12. LeadersBacked'
  <2>1. ASSUME NEW e \in elected, Regular(e)
        PROVE  Backed(e.fepoch, e.who)'
    <3>1. Backed(e.fepoch, e.who)
      BY <1>0, <2>1 DEF LeadersBacked
    <3> QED BY <1>1, <3>1, BackedStays
  <2> QED BY <1>1, <2>1 DEF LeadersBacked, Regular
<1> QED BY <1>11, <1>12 DEF IInv

-----------------------------------------------------------------------------
LEMMA NextIInv ==
  ASSUME Setting
  PROVE  IInv /\ [Next]_vars => IInv'
<1> SUFFICES ASSUME IInv, [Next]_vars PROVE IInv'
  OBVIOUS
<1>1. CASE \E s \in Sentinels : Timer(s)
  BY <1>1, TimerIInv
<1>2. CASE \E s \in Sentinels : SendHello(s) \/ \E h \in hellos : ReceiveHello(s, h)
  BY <1>2, HelloIInv
<1>3. CASE \E s \in Sentinels : FailoverCommand(s) \/ FailoverElsewhere(s) \/ Recovers(s)
  BY <1>3, CommandIInv
<1>4. CASE \E s \in Sentinels : Restart(s)
  BY <1>4, RestartIInv
<1>5. CASE \E s, t \in Sentinels : IsMasterDownByAddr(s, t) \/ Silence(s, t)
  BY <1>5, AnswerIInv, SilenceIInv
<1>6. CASE \E s \in Sentinels, i \in Instances : RefreshSlaveInfo(s, i)
  BY <1>6, RefreshIInv
<1>7. CASE UNCHANGED <<sentinel, disk, ask, hellos, cast, elected>>
  BY <1>7 DEF IInv, Ballots, TypeOK, VotesOnDisk, AnswersAreVotes, OneVotePerEpoch, LeadersBacked, Backed,
              Regular
<1>8. CASE (\E c \in slaveof : SlaveOf(c)) \/ UNCHANGED vars
  BY <1>7, <1>8 DEF SlaveOf, vars
<1> QED BY <1>1, <1>2, <1>3, <1>4, <1>5, <1>6, <1>8 DEF Next

(* Two majorities have a voter in common, which voted once. *)
LEMMA LeaderUnique ==
  ASSUME Setting, IInv
  PROVE  OneLeaderPerEpoch
<1>1. ASSUME NEW e \in elected, NEW f \in elected, Regular(e), Regular(f), e.fepoch = f.fepoch
      PROVE  e.who = f.who
  <2>1. PICK P \in SUBSET Sentinels :
          2 * Cardinality(P) > Cardinality(Sentinels) /\ \A t \in P : <<t, e.fepoch, e.who>> \in cast
    BY <1>1 DEF IInv, LeadersBacked, Backed
  <2>2. PICK Q \in SUBSET Sentinels :
          2 * Cardinality(Q) > Cardinality(Sentinels) /\ \A t \in Q : <<t, f.fepoch, f.who>> \in cast
    BY <1>1 DEF IInv, LeadersBacked, Backed
  <2>3. P \cap Q # {}
    <3>1. Cardinality(P) \in Nat /\ Cardinality(Q) \in Nat /\ Cardinality(Sentinels) \in Nat
      BY FS_Subset, FS_CardinalityType DEF Setting
    <3>2. Cardinality(P) + Cardinality(Q) > Cardinality(Sentinels)
      BY SMTT(30), <2>1, <2>2, <3>1
    <3> QED BY <3>2, FS_MajoritiesIntersect DEF Setting
  <2>4. PICK t \in P \cap Q : TRUE
    BY <2>3
  <2>5. <<t, e.fepoch, e.who>> \in cast /\ <<t, e.fepoch, f.who>> \in cast
    BY <1>1, <2>1, <2>2, <2>4
  <2> QED BY <2>5 DEF IInv, Ballots, OneVotePerEpoch
<1> QED BY <1>1 DEF OneLeaderPerEpoch

LEMMA Invariant ==
  ASSUME Setting
  PROVE  Spec => []IInv
<1>1. Init => IInv
  BY InitIInv
<1>2. IInv /\ [Next]_vars => IInv'
  BY NextIInv
<1> QED BY <1>1, <1>2, PTL DEF Spec

(* sentinelVoteLeader: a sentinel votes once in an epoch, also when it     *)
(* restarts after the vote.                                                *)
THEOREM VotesOnce ==
  ASSUME Setting
  PROVE  Spec => []OneVotePerEpoch
<1>1. IInv => OneVotePerEpoch
  BY DEF IInv, Ballots
<1> QED BY <1>1, Invariant, PTL

(* sentinelGetLeader: no two sentinels win the election of one epoch, if   *)
(* they count the votes while it is the current one, for any number of     *)
(* sentinels and whatever messages are lost or late.                       *)
THEOREM OneLeader ==
  ASSUME Setting
  PROVE  Spec => []OneLeaderPerEpoch
<1>1. IInv => OneLeaderPerEpoch
  BY LeaderUnique
<1> QED BY <1>1, Invariant, PTL

-----------------------------------------------------------------------------
(* The configurations. A leader chooses a slave once, after its election   *)
(* and before anyone holds a configuration of that epoch.                  *)
Choosing == {"SELECT_SLAVE", "SEND_SLAVEOF_NOONE", "WAIT_PROMOTION"}

(* Who chooses or has chosen a slave was elected for its epoch. *)
ChoosersElected ==
  \A s \in Sentinels : sentinel[s].state \in Choosing \cup Promoted =>
    \E e \in elected : e.who = s /\ e.fepoch = sentinel[s].fepoch

(* Whoever seeks votes does so for an epoch it has not led yet. *)
FailoversFresh ==
  \A s \in Sentinels :
    /\ sentinel[s].state # "NONE" => sentinel[s].fepoch > 0
    /\ sentinel[s].state = "WAIT_START" =>
         \A e \in elected : Regular(e) /\ e.who = s => e.fepoch < sentinel[s].fepoch

(* The epoch of an election is on the leader's disk. *)
EpochsOnDisk ==
  /\ \A e \in elected : e.fepoch > 0 /\ (Regular(e) => e.fepoch <= disk[e.who].epoch)
  /\ \A s \in Sentinels : /\ disk[s].epoch <= sentinel[s].epoch
                          /\ sentinel[s].leaderEpoch <= sentinel[s].epoch
                          /\ disk[s].leaderEpoch <= disk[s].epoch

(* A configuration is the first one, or a leader was elected for it. *)
ConfigurationsElected ==
  /\ \A s \in Sentinels : sentinel[s].state \in Promoted => sentinel[s].config # 0
  /\ \A c \in Configurations :
       (c.config = 0 /\ c.addr = First) \/ \E e \in elected : e.fepoch = c.config

(* Leaders were elected for one epoch only, while it was current. *)
Clean == \A e, f \in elected : Regular(e) /\ e.fepoch = f.fepoch

OneChoice ==
  Clean =>
    /\ (\E s \in Sentinels : sentinel[s].state \in Choosing) => \A c \in Configurations : c.config = 0
    /\ \A c, d \in Configurations : c.config # 0 /\ d.config # 0 => c.addr = d.addr

JInv == ChoosersElected /\ FailoversFresh /\ EpochsOnDisk /\ ConfigurationsElected /\ OneChoice

LEMMA InitJInv ==
  ASSUME Setting, Init
  PROVE  JInv
<1>1. /\ \A s \in Sentinels : /\ sentinel[s].state = "NONE" /\ sentinel[s].epoch = 0
                              /\ sentinel[s].leaderEpoch = 0 /\ sentinel[s].config = 0
                              /\ sentinel[s].addr = First
      /\ \A s \in Sentinels : disk[s].epoch = 0 /\ disk[s].leaderEpoch = 0 /\ disk[s].config = 0
                              /\ disk[s].addr = First
      /\ elected = {} /\ hellos = {}
  <2>1. PICK c \in Scenarios :
          sentinel = [s \in Sentinels |->
              [Loaded(disk[s]) EXCEPT !.sdown = c.down,
                                      !.view = [t \in Sentinels |-> [NoView EXCEPT !.down = c.down /\ s # t]]]]
    BY DEF Init
  <2>2. /\ \A s \in Sentinels : disk[s].epoch = 0 /\ disk[s].leaderEpoch = 0 /\ disk[s].config = 0
                                /\ disk[s].addr = First
        /\ elected = {} /\ hellos = {}
    BY DEF Init
  <2> QED BY <2>1, <2>2 DEF Loaded
<1>2. \A c \in Configurations : c.config = 0 /\ c.addr = First
  BY SMTT(30), <1>1 DEF Configurations, CurrentMasterAddress, Promoted
<1>3. ChoosersElected /\ FailoversFresh /\ EpochsOnDisk
  BY SMTT(30), <1>1 DEF ChoosersElected, FailoversFresh, EpochsOnDisk, Choosing, Promoted
<1>4. ConfigurationsElected /\ OneChoice
  BY <1>1, <1>2 DEF ConfigurationsElected, OneChoice, Promoted
<1> QED BY <1>3, <1>4 DEF JInv

(* A step without a promotion: X are the leaders it elects. *)
ConfigStep(X) ==
  /\ elected' = elected \cup X
  /\ \A x \in X :
       /\ x.who \in Sentinels /\ x.fepoch > 0
       /\ sentinel'[x.who].state # "WAIT_START"
       /\ Regular(x) => x.fepoch <= disk'[x.who].epoch
       /\ \A e \in elected : Regular(e) /\ e.who = x.who => e.fepoch # x.fepoch
  /\ \A t \in Sentinels :
       LET r == sentinel[t]
           n == sentinel'[t]
       IN  /\ n.state = "WAIT_START" => \/ r.state = "WAIT_START" /\ n.fepoch = r.fepoch
                                        \/ n.fepoch > r.epoch
           /\ n.state \in Choosing => \/ r.state \in Choosing /\ n.fepoch = r.fepoch
                                      \/ \E x \in X : x.who = t /\ x.fepoch = n.fepoch
           /\ n.state \in Promoted => r.state \in Promoted /\ n.fepoch = r.fepoch /\ n.config # 0
           /\ disk[t].epoch <= disk'[t].epoch /\ disk'[t].epoch <= n.epoch
           /\ disk'[t].leaderEpoch <= disk'[t].epoch /\ n.leaderEpoch <= n.epoch
  /\ \A c \in Configurations' : \E d \in Configurations :
       d.config = c.config /\ (c.config = 0 \/ Clean => d.addr = c.addr)

LEMMA ConfigStepJInv ==
  ASSUME TypeOK, TypeOK', OneLeaderPerEpoch', JInv, NEW X, ConfigStep(X)
  PROVE  JInv'
<1>0. ChoosersElected /\ FailoversFresh /\ EpochsOnDisk /\ ConfigurationsElected /\ OneChoice
  BY DEF JInv
<1>t. /\ \A s \in Sentinels :
           /\ sentinel[s].state \in States /\ sentinel'[s].state \in States
           /\ sentinel[s].fepoch \in Nat /\ sentinel'[s].fepoch \in Nat
           /\ sentinel[s].epoch \in Nat /\ sentinel'[s].epoch \in Nat
           /\ disk[s].epoch \in Nat /\ disk'[s].epoch \in Nat
      /\ \A e \in elected' : e.who \in Sentinels /\ e.fepoch \in Nat
  BY DEF TypeOK, Rec, File
<1>1. ChoosersElected'
  BY SMTT(30), <1>0 DEF ChoosersElected, ConfigStep
<1>2. FailoversFresh'
  <2>1. ASSUME NEW s \in Sentinels, sentinel'[s].state # "NONE"
        PROVE  sentinel'[s].fepoch > 0
    <3>1. CASE sentinel'[s].state = "WAIT_START"
      BY SMTT(30), <1>0, <1>t, <2>1, <3>1 DEF FailoversFresh, ConfigStep
    <3>2. CASE sentinel'[s].state \in Choosing
      BY <1>0, <1>t, <2>1, <3>2 DEF FailoversFresh, ConfigStep, Choosing
    <3>3. CASE sentinel'[s].state \in Promoted
      BY <1>0, <1>t, <2>1, <3>3 DEF FailoversFresh, ConfigStep, Promoted
    <3> QED BY <1>t, <2>1, <3>1, <3>2, <3>3 DEF States, Choosing
  <2>2. ASSUME NEW s \in Sentinels, sentinel'[s].state = "WAIT_START", NEW e \in elected',
               Regular(e), e.who = s
        PROVE  e.fepoch < sentinel'[s].fepoch
    <3>1. e \in elected
      BY <2>2 DEF ConfigStep
    <3>2. CASE sentinel[s].state = "WAIT_START" /\ sentinel'[s].fepoch = sentinel[s].fepoch
      BY <1>0, <2>2, <3>1, <3>2 DEF FailoversFresh
    <3>3. CASE sentinel'[s].fepoch > sentinel[s].epoch
      <4>1. e.fepoch <= disk[s].epoch /\ disk[s].epoch <= sentinel[s].epoch
        BY <1>0, <2>2, <3>1 DEF EpochsOnDisk
      <4> QED BY SMTT(30), <1>t, <3>3, <4>1
    <3> QED BY <2>2, <3>2, <3>3 DEF ConfigStep
  <2> QED BY <2>1, <2>2 DEF FailoversFresh, Regular
<1>3. EpochsOnDisk'
  <2>1. ASSUME NEW e \in elected'
        PROVE  e.fepoch > 0 /\ (Regular(e) => e.fepoch <= disk'[e.who].epoch)
    <3>1. CASE e \in X
      BY <3>1 DEF ConfigStep
    <3>2. CASE e \in elected
      <4>1. disk[e.who].epoch <= disk'[e.who].epoch
        BY <1>t, <2>1 DEF ConfigStep
      <4> QED BY SMTT(30), <1>0, <1>t, <2>1, <3>2, <4>1 DEF EpochsOnDisk
    <3> QED BY <2>1, <3>1, <3>2 DEF ConfigStep
  <2> QED BY <2>1 DEF EpochsOnDisk, ConfigStep, Regular
<1>4. ConfigurationsElected'
  <2>1. \A s \in Sentinels : sentinel'[s].state \in Promoted => sentinel'[s].config # 0
    BY DEF ConfigStep
  <2>2. ASSUME NEW c \in Configurations'
        PROVE  (c.config = 0 /\ c.addr = First) \/ \E e \in elected' : e.fepoch = c.config
    <3>1. PICK d \in Configurations : d.config = c.config /\ (c.config = 0 => d.addr = c.addr)
      BY DEF ConfigStep
    <3> QED BY SMTT(30), <1>0, <3>1 DEF ConfigurationsElected, ConfigStep
  <2> QED BY <2>1, <2>2 DEF ConfigurationsElected
<1>5. OneChoice'
  <2> SUFFICES ASSUME Clean'
               PROVE  /\ (\E s \in Sentinels : sentinel'[s].state \in Choosing) =>
                           \A c \in Configurations' : c.config = 0
                      /\ \A c, d \in Configurations' : c.config # 0 /\ d.config # 0 => c.addr = d.addr
    BY DEF OneChoice
  <2>0. Clean
    BY DEF Clean, ConfigStep, Regular
  <2>1. CASE X = {}
    <3>1. (\E s \in Sentinels : sentinel'[s].state \in Choosing) =>
             \E s \in Sentinels : sentinel[s].state \in Choosing
      BY <2>1 DEF ConfigStep
    <3>2. \A c \in Configurations' : \E d \in Configurations : d.config = c.config /\ d.addr = c.addr
      BY <2>0 DEF ConfigStep
    <3> QED BY SMTT(30), <1>0, <2>0, <3>1, <3>2 DEF OneChoice
  <2>2. CASE X # {}
    <3>1. PICK x \in X : TRUE
      BY <2>2
    <3>2. x \in elected' /\ Regular(x)
      BY <3>1 DEF ConfigStep, Clean, Regular
    <3>3. ASSUME NEW e \in elected
          PROVE  FALSE
      <4>1. e \in elected' /\ Regular(e) /\ e.fepoch = x.fepoch
        BY <3>2 DEF ConfigStep, Clean, Regular
      <4>2. e.who = x.who
        BY <3>2, <4>1 DEF OneLeaderPerEpoch, Regular
      <4> QED BY <4>1, <4>2, <3>1 DEF ConfigStep
    <3>4. \A c \in Configurations : c.config = 0
      BY <1>0, <3>3 DEF ConfigurationsElected
    <3>5. \A c \in Configurations' : c.config = 0
      BY SMTT(30), <3>4 DEF ConfigStep
    <3> QED BY <3>5
  <2> QED BY <2>1, <2>2
<1> QED BY <1>1, <1>2, <1>3, <1>4, <1>5 DEF JInv

(* Somebody holds the configuration. *)
Held(addr, config) == \E d \in Configurations : d.config = config /\ d.addr = addr

LEMMA HeldBySentinels ==
  ASSUME NEW t \in Sentinels
  PROVE  /\ Held(CurrentMasterAddress(sentinel[t]), sentinel[t].config)
         /\ Held(disk[t].addr, disk[t].config)
<1>1. /\ [epoch |-> 0, addr |-> CurrentMasterAddress(sentinel[t]), config |-> sentinel[t].config]
           \in Configurations
      /\ [epoch |-> 0, addr |-> disk[t].addr, config |-> disk[t].config] \in Configurations
  BY DEF Configurations
<1> QED BY <1>1 DEF Held

LEMMA HeldStays ==
  ASSUME \A c \in hellos' : Held(c.addr, c.config),
         \A t \in Sentinels : /\ Held(CurrentMasterAddress(sentinel'[t]), sentinel'[t].config)
                              /\ Held(disk'[t].addr, disk'[t].config)
  PROVE  \A c \in Configurations' : Held(c.addr, c.config)
<1> SUFFICES ASSUME NEW c \in Configurations'
             PROVE  Held(c.addr, c.config)
  OBVIOUS
<1>1. \/ c \in hellos'
      \/ \E t \in Sentinels : c = [epoch |-> 0, addr |-> disk'[t].addr, config |-> disk'[t].config]
      \/ \E t \in Sentinels : c = [epoch |-> 0, addr |-> CurrentMasterAddress(sentinel'[t]),
                                   config |-> sentinel'[t].config]
  BY DEF Configurations, CurrentMasterAddress
<1> QED BY SMTT(30), <1>1

(* A step of one sentinel that learns of no configuration. *)
QuietConfig(s, n) ==
  LET r == sentinel[s]
  IN  /\ n.state = "WAIT_START" => \/ r.state = "WAIT_START" /\ n.fepoch = r.fepoch
                                   \/ n.fepoch > r.epoch
      /\ n.state \in Choosing => r.state \in Choosing /\ n.fepoch = r.fepoch
      /\ n.state \in Promoted => r.state \in Promoted /\ n.fepoch = r.fepoch /\ n.config # 0
      /\ disk[s].epoch <= n.epoch /\ n.leaderEpoch <= n.epoch
      /\ Held(CurrentMasterAddress(n), n.config)

LEMMA QuietJInv ==
  ASSUME TypeOK, TypeOK', OneLeaderPerEpoch', JInv, NEW s \in Sentinels, NEW n \in Rec,
         Become(s, n), UNCHANGED elected, QuietConfig(s, n), UNCHANGED disk \/ Flush(s, n),
         \A c \in hellos' : Held(c.addr, c.config)
  PROVE  JInv'
<1>1. sentinel'[s] = n /\ \A t \in Sentinels \ {s} : sentinel'[t] = sentinel[t]
  BY DEF Become, TypeOK
<1>2. /\ \A t \in Sentinels \ {s} : disk'[t] = disk[t]
      /\ disk'[s] = disk[s] \/ disk'[s] = Saved(n)
  BY DEF Flush, TypeOK
<1>3. \A t \in Sentinels : /\ Held(CurrentMasterAddress(sentinel'[t]), sentinel'[t].config)
                           /\ Held(disk'[t].addr, disk'[t].config)
  BY SMTT(30), <1>1, <1>2, HeldBySentinels DEF QuietConfig, Saved
<1>4. \A c \in Configurations' : Held(c.addr, c.config)
  BY <1>3, HeldStays
<1>5. \A t \in Sentinels :
        /\ disk[t].epoch <= sentinel[t].epoch /\ sentinel[t].leaderEpoch <= sentinel[t].epoch
        /\ disk[t].leaderEpoch <= disk[t].epoch
        /\ disk[t].epoch \in Nat
        /\ sentinel[t].state \in Promoted => sentinel[t].config # 0
  BY DEF JInv, EpochsOnDisk, ConfigurationsElected, TypeOK, File
<1>6. ASSUME NEW t \in Sentinels
      PROVE  /\ disk[t].epoch <= disk'[t].epoch /\ disk'[t].epoch <= sentinel'[t].epoch
             /\ disk'[t].leaderEpoch <= disk'[t].epoch
             /\ sentinel'[t].leaderEpoch <= sentinel'[t].epoch
  <2>1. n.epoch \in Nat
    BY DEF Rec
  <2>2. CASE t = s
    BY SMTT(30), <1>1, <1>2, <1>5, <2>1, <2>2 DEF QuietConfig, Saved
  <2>3. CASE t # s
    BY SMTT(30), <1>1, <1>2, <1>5, <2>3
  <2> QED BY <2>2, <2>3
<1>7. ASSUME NEW t \in Sentinels
      PROVE  LET r == sentinel[t]
                 m == sentinel'[t]
             IN  /\ m.state = "WAIT_START" => \/ r.state = "WAIT_START" /\ m.fepoch = r.fepoch
                                              \/ m.fepoch > r.epoch
                 /\ m.state \in Choosing => r.state \in Choosing /\ m.fepoch = r.fepoch
                 /\ m.state \in Promoted => r.state \in Promoted /\ m.fepoch = r.fepoch /\ m.config # 0
  BY <1>1, <1>5 DEF QuietConfig
<1>8. \A c \in Configurations' : \E d \in Configurations : d.config = c.config /\ d.addr = c.addr
  BY <1>4 DEF Held
<1>9. ConfigStep({})
  BY <1>6, <1>7, <1>8 DEF ConfigStep
<1> QED BY <1>9, ConfigStepJInv

LEMMA HeldHellos ==
  ASSUME NEW c \in hellos
  PROVE  Held(c.addr, c.config)
<1>1. c \in Configurations
  BY DEF Configurations
<1> QED BY <1>1 DEF Held

(* A sentinel that only changes what no configuration depends on. *)
LEMMA SameConfig ==
  ASSUME TypeOK, JInv, NEW s \in Sentinels, NEW n \in Rec,
         n.addr = sentinel[s].addr, n.promoted = sentinel[s].promoted, n.config = sentinel[s].config,
         n.fepoch = sentinel[s].fepoch, n.state = sentinel[s].state, sentinel[s].epoch <= n.epoch,
         n.leaderEpoch <= n.epoch
  PROVE  QuietConfig(s, n)
<1>1. CurrentMasterAddress(n) = CurrentMasterAddress(sentinel[s])
  BY DEF CurrentMasterAddress
<1>2. /\ disk[s].epoch <= sentinel[s].epoch /\ disk[s].epoch \in Nat /\ sentinel[s].epoch \in Nat
      /\ n.epoch \in Nat
  BY DEF JInv, EpochsOnDisk, TypeOK, Rec, File
<1>3. Held(CurrentMasterAddress(n), n.config)
  BY <1>1, HeldBySentinels
<1> QED BY SMTT(30), <1>2, <1>3 DEF QuietConfig, JInv, ConfigurationsElected

LEMMA CommandJInv ==
  ASSUME TypeOK, TypeOK', OneLeaderPerEpoch', JInv, NEW s \in Sentinels,
         FailoverCommand(s) \/ FailoverElsewhere(s) \/ Recovers(s)
  PROVE  JInv'
<1> DEFINE r == sentinel[s]
<1>0. r \in Rec /\ r.epoch \in Nat /\ r.leaderEpoch \in Nat /\ r.leaderEpoch <= r.epoch
  BY DEF TypeOK, Rec, JInv, EpochsOnDisk
<1>h. UNCHANGED elected /\ \A c \in hellos' : Held(c.addr, c.config)
  BY HeldHellos DEF FailoverCommand, FailoverElsewhere, Recovers
<1>1. CASE FailoverCommand(s)
  <2> DEFINE n == [StartFailover(r) EXCEPT !.forced = TRUE]
  <2>1. n \in Rec /\ n.leaderEpoch = r.leaderEpoch /\ n.epoch = r.epoch + 1 /\ n.fepoch = r.epoch + 1
        /\ n.state = "WAIT_START"
    BY ZenonT(30), <1>0, StartRec DEF Rec
  <2>2. n.addr = r.addr /\ n.config = r.config /\ r.state = "NONE"
    BY <1>0, <1>1 DEF StartFailover, Rec, FailoverCommand
  <2>3. Become(s, n) /\ UNCHANGED disk
    BY <1>1 DEF FailoverCommand
  <2> HIDE DEF n
  <2>4. CurrentMasterAddress(n) = CurrentMasterAddress(r)
    BY <2>1, <2>2 DEF CurrentMasterAddress, Promoted
  <2>5. Held(CurrentMasterAddress(n), n.config)
    BY <2>2, <2>4, HeldBySentinels
  <2>6. disk[s].epoch <= n.epoch
    BY SMTT(30), <1>0, <2>1 DEF JInv, EpochsOnDisk, TypeOK, File
  <2>7. QuietConfig(s, n)
    BY SMTT(30), <1>0, <2>1, <2>5, <2>6 DEF QuietConfig, Choosing, Promoted
  <2> QED BY <1>h, <2>1, <2>3, <2>7, QuietJInv
<1>2. CASE FailoverElsewhere(s)
  <2> DEFINE n == [r EXCEPT !.epoch = @ + 1]
  <2>1. n \in Rec /\ n.leaderEpoch = r.leaderEpoch /\ n.epoch = r.epoch + 1 /\ n.fepoch = r.fepoch
        /\ n.state = r.state /\ n.addr = r.addr /\ n.promoted = r.promoted /\ n.config = r.config
    BY SMTT(30), <1>0 DEF Rec
  <2>2. Become(s, n) /\ Flush(s, n)
    BY <1>2 DEF FailoverElsewhere
  <2> HIDE DEF n
  <2>3. QuietConfig(s, n)
    BY SMTT(30), <1>0, <2>1, SameConfig
  <2> QED BY <1>h, <2>1, <2>2, <2>3, QuietJInv
<1>3. CASE Recovers(s)
  <2> DEFINE n == [r EXCEPT !.sdown = FALSE]
  <2>1. n \in Rec /\ n.leaderEpoch = r.leaderEpoch /\ n.epoch = r.epoch /\ n.fepoch = r.fepoch
        /\ n.state = r.state /\ n.addr = r.addr /\ n.promoted = r.promoted /\ n.config = r.config
    BY <1>0 DEF Rec
  <2>2. Become(s, n) /\ UNCHANGED disk
    BY <1>3 DEF Recovers
  <2> HIDE DEF n
  <2>3. QuietConfig(s, n)
    BY SMTT(30), <1>0, <2>1, SameConfig
  <2> QED BY <1>h, <2>1, <2>2, <2>3, QuietJInv
<1> QED BY <1>1, <1>2, <1>3

LEMMA SilenceJInv ==
  ASSUME TypeOK, TypeOK', OneLeaderPerEpoch', JInv, NEW s \in Sentinels, NEW t \in Sentinels,
         Silence(s, t)
  PROVE  JInv'
<1> DEFINE r == sentinel[s]
           n == [r EXCEPT !.view[t] = [@ EXCEPT !.down = FALSE, !.leader = Nobody]]
<1>0. r \in Rec /\ r.epoch \in Nat /\ r.leaderEpoch \in Nat /\ r.leaderEpoch <= r.epoch
  BY DEF TypeOK, Rec, JInv, EpochsOnDisk
<1>1. n \in Rec /\ n.leaderEpoch = r.leaderEpoch /\ n.epoch = r.epoch /\ n.fepoch = r.fepoch
      /\ n.state = r.state /\ n.addr = r.addr /\ n.promoted = r.promoted /\ n.config = r.config
  <2>1. sentinel'[s] = n /\ sentinel'[s] \in Rec
    BY DEF Silence, Become, TypeOK
  <2>2. n \in Rec
    <3> HIDE DEF n
    <3> QED BY <2>1
  <2> QED BY <1>0, <2>2 DEF Rec
<1>2. Become(s, n) /\ UNCHANGED <<disk, elected, hellos>>
  BY DEF Silence
<1>3. \A c \in hellos' : Held(c.addr, c.config)
  BY <1>2, HeldHellos
<1> HIDE DEF n
<1>4. QuietConfig(s, n)
  BY SMTT(30), <1>0, <1>1, SameConfig
<1> QED BY <1>1, <1>2, <1>3, <1>4, QuietJInv

LEMMA RestartJInv ==
  ASSUME TypeOK, TypeOK', OneLeaderPerEpoch', JInv, NEW s \in Sentinels, Restart(s)
  PROVE  JInv'
<1> DEFINE n == Loaded(disk[s])
<1>0. disk[s] \in File /\ disk[s].leaderEpoch <= disk[s].epoch /\ disk[s].epoch \in Nat
  BY DEF TypeOK, JInv, EpochsOnDisk, File
<1>1. n \in Rec
  BY <1>0, LoadedRec
<1>2. /\ n.state = "NONE" /\ n.addr = disk[s].addr /\ n.config = disk[s].config
      /\ n.epoch = disk[s].epoch /\ n.leaderEpoch = disk[s].leaderEpoch
  BY DEF Loaded
<1>3. Become(s, n) /\ UNCHANGED <<disk, elected, hellos>>
  BY DEF Restart
<1>4. \A c \in hellos' : Held(c.addr, c.config)
  BY <1>3, HeldHellos
<1> HIDE DEF n
<1>5. CurrentMasterAddress(n) = disk[s].addr
  BY <1>2 DEF CurrentMasterAddress, Promoted
<1>6. Held(CurrentMasterAddress(n), n.config)
  BY <1>2, <1>5, HeldBySentinels
<1>7. QuietConfig(s, n)
  BY SMTT(30), <1>0, <1>2, <1>6 DEF QuietConfig, Choosing, Promoted
<1> QED BY <1>1, <1>3, <1>4, <1>7, QuietJInv

(* A newer configuration with the address the sentinel has already: it is  *)
(* adopted, but not written.                                               *)
LEMMA NewerConfigJInv ==
  ASSUME TypeOK, TypeOK', OneLeaderPerEpoch', JInv, NEW s \in Sentinels, NEW h \in hellos,
         NEW e \in Rec, NEW n \in Rec,
         h.config > sentinel[s].config, h.addr = sentinel[s].addr,
         e.addr = sentinel[s].addr, e.promoted = sentinel[s].promoted, e.config = sentinel[s].config,
         e.state = sentinel[s].state, sentinel[s].epoch <= e.epoch,
         e.leaderEpoch = sentinel[s].leaderEpoch, e.fepoch = sentinel[s].fepoch,
         n.addr = e.addr, n.promoted = e.promoted, n.config = h.config, n.state = e.state,
         n.epoch = e.epoch, n.leaderEpoch = e.leaderEpoch, n.fepoch = e.fepoch,
         Become(s, n), UNCHANGED disk \/ Flush(s, e), UNCHANGED <<elected, hellos>>
  PROVE  JInv'
<1> DEFINE r == sentinel[s]
<1>1. sentinel'[s] = n /\ \A t \in Sentinels \ {s} : sentinel'[t] = sentinel[t]
  BY DEF Become, TypeOK
<1>2. /\ \A t \in Sentinels \ {s} : disk'[t] = disk[t]
      /\ disk'[s] = disk[s] \/ disk'[s] = Saved(e)
  BY DEF Flush, TypeOK
<1>3. /\ CurrentMasterAddress(e) = CurrentMasterAddress(r)
      /\ CurrentMasterAddress(n) = CurrentMasterAddress(r)
  BY DEF CurrentMasterAddress
<1>4. \A t \in Sentinels : Held(disk'[t].addr, disk'[t].config)
  BY SMTT(30), <1>2, <1>3, HeldBySentinels DEF Saved
<1>5. r.config \in Nat /\ h.config \in Nat /\ r.epoch \in Nat /\ e.epoch \in Nat /\ disk[s].epoch \in Nat
      /\ r.leaderEpoch \in Nat
  BY DEF TypeOK, Rec, File
<1>6. Clean => h.addr = CurrentMasterAddress(r)
  <2>1. CASE r.state \in Promoted
    <3>1. r.config # 0
      BY <2>1 DEF JInv, ConfigurationsElected
    <3>2. \E f \in elected : f.fepoch = r.config
      BY <3>1, HeldBySentinels DEF JInv, ConfigurationsElected, Held
    <3>3. \E f \in elected : f.fepoch = h.config
      BY SMTT(30), <1>5, HeldHellos DEF JInv, ConfigurationsElected, Held
    <3> QED BY SMTT(30), <1>5, <3>2, <3>3 DEF Clean
  <2>2. CASE r.state \notin Promoted
    BY <2>2 DEF CurrentMasterAddress
  <2> QED BY <2>1, <2>2
<1>7. ASSUME NEW c \in Configurations'
      PROVE  \E d \in Configurations : d.config = c.config /\ (c.config = 0 \/ Clean => d.addr = c.addr)
  <2>1. \/ c \in hellos
        \/ \E t \in Sentinels : c = [epoch |-> 0, addr |-> disk'[t].addr, config |-> disk'[t].config]
        \/ \E t \in Sentinels : c = [epoch |-> 0, addr |-> CurrentMasterAddress(sentinel'[t]),
                                     config |-> sentinel'[t].config]
    BY <1>7 DEF Configurations, CurrentMasterAddress
  <2>2. c \in hellos => Held(c.addr, c.config)
    BY HeldHellos
  <2>3. ASSUME NEW t \in Sentinels, c = [epoch |-> 0, addr |-> CurrentMasterAddress(sentinel'[t]),
                                         config |-> sentinel'[t].config]
        PROVE  Held(c.addr, c.config) \/ (c.addr = CurrentMasterAddress(r) /\ c.config = h.config)
    BY <1>1, <1>3, <2>3, HeldBySentinels
  <2>4. Held(c.addr, c.config) \/ (c.addr = CurrentMasterAddress(r) /\ c.config = h.config)
    BY SMTT(30), <1>4, <2>1, <2>2, <2>3
  <2>5. h \in Configurations /\ h.config # 0
    BY SMTT(30), <1>5 DEF Configurations
  <2> QED BY <1>6, <2>4, <2>5 DEF Held
<1>8. \A t \in Sentinels :
        /\ disk[t].epoch <= sentinel[t].epoch /\ sentinel[t].leaderEpoch <= sentinel[t].epoch
        /\ disk[t].leaderEpoch <= disk[t].epoch /\ disk[t].epoch \in Nat
        /\ sentinel[t].state \in Promoted => sentinel[t].config # 0
  BY DEF JInv, EpochsOnDisk, ConfigurationsElected, TypeOK, File
<1>9. ASSUME NEW t \in Sentinels
      PROVE  /\ disk[t].epoch <= disk'[t].epoch /\ disk'[t].epoch <= sentinel'[t].epoch
             /\ disk'[t].leaderEpoch <= disk'[t].epoch
             /\ sentinel'[t].leaderEpoch <= sentinel'[t].epoch
             /\ sentinel'[t].state = sentinel[t].state /\ sentinel'[t].fepoch = sentinel[t].fepoch
             /\ sentinel'[t].state \in Promoted => sentinel'[t].config # 0
  <2>1. CASE t = s
    BY SMTT(30), <1>1, <1>2, <1>5, <1>8, <2>1 DEF Saved
  <2>2. CASE t # s
    BY SMTT(30), <1>1, <1>2, <1>8, <2>2
  <2> QED BY <2>1, <2>2
<1>10. ConfigStep({})
  BY <1>7, <1>9 DEF ConfigStep
<1> QED BY <1>10, ConfigStepJInv

LEMMA HelloJInv ==
  ASSUME TypeOK, TypeOK', OneLeaderPerEpoch', JInv, NEW s \in Sentinels,
         SendHello(s) \/ \E h \in hellos : ReceiveHello(s, h)
  PROVE  JInv'
<1> DEFINE r == sentinel[s]
<1>0. /\ r \in Rec /\ r.epoch \in Nat /\ r.leaderEpoch \in Nat /\ r.leaderEpoch <= r.epoch
      /\ r.config \in Nat /\ disk[s].epoch <= r.epoch /\ disk[s].epoch \in Nat
  BY DEF TypeOK, Rec, File, JInv, EpochsOnDisk
<1>1. CASE SendHello(s)
  <2>1. Become(s, r) /\ UNCHANGED <<disk, elected>>
    BY <1>0, <1>1 DEF SendHello, Become, TypeOK
  <2>2. \A c \in hellos' : Held(c.addr, c.config)
    BY SMTT(30), <1>1, HeldHellos, HeldBySentinels DEF SendHello
  <2>3. QuietConfig(s, r)
    BY SMTT(30), <1>0, SameConfig
  <2> QED BY <1>0, <2>1, <2>2, <2>3, QuietJInv
<1>2. ASSUME NEW h \in hellos, ReceiveHello(s, h)
      PROVE  JInv'
  <2> DEFINE e == IF h.epoch > r.epoch THEN [r EXCEPT !.epoch = h.epoch] ELSE r
             c == IF h.config > r.config THEN [e EXCEPT !.config = h.config] ELSE e
             n == IF h.config > r.config /\ h.addr # r.addr THEN ResetMasterAndChangeAddress(c, h.addr)
                  ELSE c
  <2>1. h.epoch \in Nat /\ h.config \in Nat /\ h.addr \in Addresses
    BY DEF TypeOK
  <2>2. /\ e \in Rec /\ e.leaderEpoch = r.leaderEpoch /\ r.epoch <= e.epoch /\ e.epoch \in Nat
        /\ e.addr = r.addr /\ e.promoted = r.promoted /\ e.config = r.config /\ e.state = r.state
        /\ e.fepoch = r.fepoch
    BY SMTT(30), <1>0, <2>1 DEF Rec
  <2>3. /\ Become(s, n) /\ (IF n.addr # r.addr THEN Flush(s, n) ELSE FlushIf(s, e, e # r))
        /\ UNCHANGED <<hellos, elected>>
    BY <1>2 DEF ReceiveHello, ProcessHello
  <2>4. \A d \in hellos' : Held(d.addr, d.config)
    BY <2>3, HeldHellos
  <2>5. CASE ~(h.config > r.config)
    <3>1. n = e
      BY <2>5
    <3> HIDE DEF n, e
    <3>2. QuietConfig(s, e)
      BY SMTT(30), <1>0, <2>2, SameConfig
    <3>3. Become(s, e) /\ (UNCHANGED disk \/ Flush(s, e))
      BY <2>2, <2>3, <3>1 DEF FlushIf
    <3> QED BY <2>2, <2>3, <2>4, <3>2, <3>3, QuietJInv
  <2>6. CASE h.config > r.config /\ h.addr = r.addr
    <3>1. n = [e EXCEPT !.config = h.config]
      BY <2>6
    <3> HIDE DEF n, e
    <3>2. n \in Rec /\ n.addr = e.addr /\ n.promoted = e.promoted /\ n.config = h.config
          /\ n.state = e.state /\ n.epoch = e.epoch /\ n.leaderEpoch = e.leaderEpoch /\ n.fepoch = e.fepoch
      BY <2>1, <2>2, <3>1 DEF Rec
    <3>3. UNCHANGED disk \/ Flush(s, e)
      BY <2>2, <2>3, <3>2 DEF FlushIf
    <3> QED BY <2>2, <2>3, <2>6, <3>2, <3>3, NewerConfigJInv
  <2>7. CASE h.config > r.config /\ h.addr # r.addr
    <3> DEFINE b == [e EXCEPT !.config = h.config]
    <3>1. n = ResetMasterAndChangeAddress(b, h.addr)
      BY <2>7
    <3> HIDE DEF n, e
    <3>2. b \in Rec /\ b.epoch = e.epoch /\ b.leaderEpoch = e.leaderEpoch /\ b.config = h.config
      BY <2>1, <2>2 DEF Rec
    <3> HIDE DEF b
    <3>3. n \in Rec
      BY <2>1, <3>1, <3>2, ResetAdvances DEF Advances
    <3>4. n.addr = h.addr /\ n.state = "NONE" /\ n.epoch = e.epoch /\ n.leaderEpoch = e.leaderEpoch
          /\ n.config = h.config
      BY <3>1, <3>2 DEF ResetMasterAndChangeAddress, ResetMaster, Rec
    <3>5. CurrentMasterAddress(n) = h.addr
      BY <3>4 DEF CurrentMasterAddress, Promoted
    <3>6. Held(CurrentMasterAddress(n), n.config)
      BY <3>4, <3>5, HeldHellos
    <3>7. QuietConfig(s, n)
      BY SMTT(30), <1>0, <2>2, <3>4, <3>6 DEF QuietConfig, Choosing, Promoted
    <3>8. Flush(s, n)
      BY <2>3, <2>7, <3>4
    <3> QED BY <2>3, <2>4, <3>3, <3>7, <3>8, QuietJInv
  <2> QED BY <2>5, <2>6, <2>7
<1> QED BY <1>1, <1>2

(* The promotion: the leader's configuration takes the epoch of its        *)
(* failover, and is the first one of that epoch.                           *)
LEMMA PromotionJInv ==
  ASSUME TypeOK, OneLeaderPerEpoch, JInv, NEW s \in Sentinels, NEW n \in Rec,
         sentinel[s].state \in Choosing, n.state = "RECONF_SLAVES",
         n.fepoch = sentinel[s].fepoch, n.config = sentinel[s].fepoch,
         n.epoch = sentinel[s].epoch, n.leaderEpoch = sentinel[s].leaderEpoch,
         Become(s, n), Flush(s, n), UNCHANGED <<elected, hellos>>
  PROVE  JInv'
<1> DEFINE r == sentinel[s]
           a == CurrentMasterAddress(n)
<1>1. sentinel'[s] = n /\ \A t \in Sentinels \ {s} : sentinel'[t] = sentinel[t]
  BY DEF Become, TypeOK
<1>2. disk'[s] = Saved(n) /\ \A t \in Sentinels \ {s} : disk'[t] = disk[t]
  BY DEF Flush, TypeOK
<1>3. PICK e \in elected : e.who = s /\ e.fepoch = r.fepoch
  BY DEF JInv, ChoosersElected
<1>4. r.fepoch > 0 /\ r.fepoch \in Nat
  BY DEF JInv, FailoversFresh, Choosing, TypeOK, Rec
<1>5. ASSUME NEW c \in Configurations'
      PROVE  Held(c.addr, c.config) \/ (c.addr = a /\ c.config = r.fepoch)
  <2>1. \/ c \in hellos
        \/ \E t \in Sentinels : c = [epoch |-> 0, addr |-> disk'[t].addr, config |-> disk'[t].config]
        \/ \E t \in Sentinels : c = [epoch |-> 0, addr |-> CurrentMasterAddress(sentinel'[t]),
                                     config |-> sentinel'[t].config]
    BY DEF Configurations, CurrentMasterAddress
  <2>2. CASE c \in hellos
    BY <2>2, HeldHellos
  <2>3. ASSUME NEW t \in Sentinels, c = [epoch |-> 0, addr |-> disk'[t].addr, config |-> disk'[t].config]
        PROVE  Held(c.addr, c.config) \/ (c.addr = a /\ c.config = r.fepoch)
    BY SMTT(30), <1>2, <2>3, HeldBySentinels DEF Saved
  <2>4. ASSUME NEW t \in Sentinels, c = [epoch |-> 0, addr |-> CurrentMasterAddress(sentinel'[t]),
                                         config |-> sentinel'[t].config]
        PROVE  Held(c.addr, c.config) \/ (c.addr = a /\ c.config = r.fepoch)
    BY <1>1, <2>4, HeldBySentinels
  <2> QED BY <2>1, <2>2, <2>3, <2>4
<1>6. ChoosersElected' /\ FailoversFresh'
  BY SMTT(30), <1>1, <1>3, <1>4 DEF JInv, ChoosersElected, FailoversFresh, Promoted, Regular
<1>7. EpochsOnDisk'
  <2>1. \A t \in Sentinels : disk[t].epoch \in Nat /\ sentinel[t].epoch \in Nat
    BY DEF TypeOK, Rec, File
  <2>2. \A f \in elected : f.who \in Sentinels /\ f.fepoch \in Nat
    BY DEF TypeOK
  <2>3. \A t \in Sentinels : disk[t].epoch <= disk'[t].epoch
    BY SMTT(30), <1>2, <2>1 DEF Saved, JInv, EpochsOnDisk
  <2>4. \A t \in Sentinels : disk'[t].epoch \in Nat
    BY SMTT(30), <1>2, <2>1 DEF Saved
  <2>5. \A f \in elected : f.fepoch > 0 /\ (Regular(f) => f.fepoch <= disk'[f.who].epoch)
    BY SMTT(30), <2>1, <2>2, <2>3, <2>4 DEF JInv, EpochsOnDisk
  <2>6. ASSUME NEW t \in Sentinels
        PROVE  /\ disk'[t].epoch <= sentinel'[t].epoch
               /\ sentinel'[t].leaderEpoch <= sentinel'[t].epoch
               /\ disk'[t].leaderEpoch <= disk'[t].epoch
    BY SMTT(30), <1>1, <1>2, <2>1 DEF Saved, JInv, EpochsOnDisk
  <2> QED BY <2>5, <2>6 DEF EpochsOnDisk, Regular
<1>8. ConfigurationsElected'
  <2>1. \A t \in Sentinels : sentinel'[t].state \in Promoted => sentinel'[t].config # 0
    BY SMTT(30), <1>1, <1>4 DEF JInv, ConfigurationsElected
  <2>2. ASSUME NEW c \in Configurations'
        PROVE  (c.config = 0 /\ c.addr = First) \/ \E f \in elected' : f.fepoch = c.config
    BY <1>3, <1>5 DEF Held, JInv, ConfigurationsElected
  <2> QED BY <2>1, <2>2 DEF ConfigurationsElected
<1>9. OneChoice'
  <2> SUFFICES ASSUME Clean
               PROVE  /\ \A t \in Sentinels : sentinel'[t].state \notin Choosing
                      /\ \A c, d \in Configurations' : c.config # 0 /\ d.config # 0 => c.addr = d.addr
    BY DEF OneChoice, Clean, Regular
  <2>1. ASSUME NEW t \in Sentinels, sentinel'[t].state \in Choosing
        PROVE  FALSE
    <3>1. t # s /\ sentinel[t].state \in Choosing
      BY <1>1, <2>1 DEF Choosing
    <3>2. PICK f \in elected : f.who = t /\ f.fepoch = sentinel[t].fepoch
      BY <3>1 DEF JInv, ChoosersElected
    <3> QED BY <1>3, <3>1, <3>2 DEF Clean, OneLeaderPerEpoch
  <2>2. \A c \in Configurations : c.config = 0
    BY DEF JInv, OneChoice
  <2>3. \A c \in Configurations' : c.config # 0 => c.addr = a
    BY <1>5, <2>2 DEF Held
  <2> QED BY <2>1, <2>3
<1> QED BY <1>6, <1>7, <1>8, <1>9 DEF JInv

LEMMA RefreshJInv ==
  ASSUME TypeOK, TypeOK', OneLeaderPerEpoch, OneLeaderPerEpoch', JInv, NEW s \in Sentinels,
         NEW i \in Instances, RefreshSlaveInfo(s, i)
  PROVE  JInv'
<1> DEFINE r == sentinel[s]
<1>0. /\ r \in Rec /\ r.epoch \in Nat /\ r.leaderEpoch <= r.epoch
      /\ UNCHANGED <<elected, hellos>> /\ \A c \in hellos' : Held(c.addr, c.config)
  BY HeldHellos DEF TypeOK, Rec, JInv, EpochsOnDisk, RefreshSlaveInfo
<1>1. CASE r.state = "WAIT_PROMOTION" /\ Become(s, Promotion(r)) /\ Flush(s, Promotion(r))
  <2> DEFINE n == Promotion(r)
  <2>1. /\ n \in Rec /\ n.state = "RECONF_SLAVES" /\ n.fepoch = r.fepoch /\ n.config = r.fepoch
        /\ n.epoch = r.epoch /\ n.leaderEpoch = r.leaderEpoch
    BY <1>0 DEF Promotion, Rec, States, Promoted
  <2>2. Become(s, n) /\ Flush(s, n) /\ r.state \in Choosing
    BY <1>1 DEF Choosing
  <2> HIDE DEF n
  <2> QED BY <1>0, <2>1, <2>2, PromotionJInv
<1>2. CASE UNCHANGED <<sentinel, disk>>
  <2>1. Become(s, r)
    BY <1>2 DEF Become, TypeOK
  <2>2. QuietConfig(s, r)
    BY SMTT(30), <1>0, SameConfig
  <2> QED BY <1>0, <1>2, <2>1, <2>2, QuietJInv
<1>3. ASSUME NEW p \in {"inprog", "done", r.reconf[i]}, Become(s, [r EXCEPT !.reconf[i] = p]), UNCHANGED disk
      PROVE  JInv'
  <2>1. p \in {"none", "sent", "inprog", "done"}
    BY <1>0 DEF Rec
  <2> DEFINE n == [r EXCEPT !.reconf[i] = p]
  <2>2. /\ n \in Rec /\ n.addr = r.addr /\ n.promoted = r.promoted /\ n.config = r.config
        /\ n.fepoch = r.fepoch /\ n.state = r.state /\ n.epoch = r.epoch /\ n.leaderEpoch = r.leaderEpoch
    BY <1>0, <2>1 DEF Rec
  <2>3. Become(s, n)
    BY <1>3
  <2> HIDE DEF n
  <2>4. QuietConfig(s, n)
    BY SMTT(30), <1>0, <2>2, SameConfig
  <2> QED BY <1>0, <1>3, <2>2, <2>3, <2>4, QuietJInv
<1>4. \/ r.state = "WAIT_PROMOTION" /\ Become(s, Promotion(r)) /\ Flush(s, Promotion(r))
      \/ UNCHANGED <<sentinel, disk>>
      \/ \E p \in {"inprog", "done", r.reconf[i]} :
           Become(s, [r EXCEPT !.reconf[i] = p]) /\ UNCHANGED disk
  BY DEF RefreshSlaveInfo
<1> QED BY <1>1, <1>2, <1>3, <1>4

-----------------------------------------------------------------------------
(* What the failover state machine makes of a sentinel: it names the same  *)
(* master in the same configuration, whichever state it goes to, and who   *)
(* wins the vote of a current epoch has voted in it.                       *)
Shifts(r, n) ==
  /\ n.config = r.config /\ CurrentMasterAddress(n) = CurrentMasterAddress(r) /\ n.fepoch = r.fepoch
  /\ r.epoch <= n.epoch /\ n.leaderEpoch <= n.epoch
  /\ n.state = "WAIT_START" => r.state = "WAIT_START"
  /\ n.state \in Choosing => r.state \in Choosing \/ (r.state = "WAIT_START" /\ n.state = "SELECT_SLAVE")
  /\ n.state \in Promoted => r.state \in Promoted
  /\ r.state = "WAIT_START" /\ n.state = "SELECT_SLAVE" /\ n.epoch = r.fepoch => n.leaderEpoch = r.fepoch

LEMMA VoteLeaderShifts ==
  ASSUME NEW r \in Rec, NEW epoch \in Nat, NEW runid \in Sentinels, r.leaderEpoch <= r.epoch
  PROVE  LET v == VoteLeader(r, epoch, runid)
         IN  /\ v \in Rec /\ v.addr = r.addr /\ v.promoted = r.promoted /\ v.config = r.config
             /\ v.state = r.state /\ v.fepoch = r.fepoch
             /\ r.epoch <= v.epoch /\ v.leaderEpoch <= v.epoch
             /\ v.epoch = epoch => v.leaderEpoch = epoch
<1> DEFINE e == IF epoch > r.epoch THEN epoch ELSE r.epoch
           v == VoteLeader(r, epoch, runid)
<1>1. r.epoch \in Nat /\ r.leaderEpoch \in Nat /\ e \in Nat /\ r.epoch <= e
  BY SMTT(30) DEF Rec
<1>0. v \in Rec
  BY VoteLeaderAdvances DEF Advances
<1>2. CASE r.leaderEpoch < epoch /\ e <= epoch
  <2>1. v = [r EXCEPT !.epoch = e, !.leader = runid, !.leaderEpoch = e]
    BY <1>2 DEF VoteLeader
  <2>2. e = epoch
    BY SMTT(30), <1>1, <1>2
  <2> HIDE DEF e, v
  <2>3. /\ v.addr = r.addr /\ v.promoted = r.promoted /\ v.config = r.config
        /\ v.state = r.state /\ v.fepoch = r.fepoch /\ v.epoch = e /\ v.leaderEpoch = e
    BY <2>1 DEF Rec
  <2> QED BY SMTT(30), <1>0, <1>1, <2>2, <2>3 DEF v
<1>3. CASE ~(r.leaderEpoch < epoch /\ e <= epoch)
  <2>1. v = [r EXCEPT !.epoch = e]
    BY <1>3 DEF VoteLeader
  <2>2. r.leaderEpoch <= e /\ (e = epoch => r.leaderEpoch = epoch)
    BY SMTT(30), <1>1, <1>3
  <2> HIDE DEF e, v
  <2>3. /\ v.addr = r.addr /\ v.promoted = r.promoted /\ v.config = r.config
        /\ v.state = r.state /\ v.fepoch = r.fepoch /\ v.epoch = e /\ v.leaderEpoch = r.leaderEpoch
    BY <2>1 DEF Rec
  <2> QED BY <1>0, <1>1, <2>2, <2>3 DEF v
<1> QED BY <1>2, <1>3

(* A failover given up before the promotion. *)
LEMMA AbortShifts ==
  ASSUME NEW r \in Rec, NEW n \in Rec, r.state \notin Promoted, Shifts(r, n)
  PROVE  Shifts(r, AbortFailover(n))
<1> DEFINE a == AbortFailover(n)
<1>1. /\ a.state = "NONE" /\ a.config = n.config /\ a.fepoch = n.fepoch /\ a.epoch = n.epoch
      /\ a.leaderEpoch = n.leaderEpoch /\ a.addr = n.addr
  BY DEF AbortFailover, Rec
<1>2. n.state \notin Promoted
  BY DEF Shifts
<1> HIDE DEF a
<1>3. CurrentMasterAddress(a) = CurrentMasterAddress(n)
  BY <1>1, <1>2 DEF CurrentMasterAddress, Promoted
<1>4. Shifts(r, a)
  BY <1>1, <1>3 DEF Shifts, Choosing, Promoted
<1> QED BY <1>4 DEF a

LEMMA WaitStartShifts ==
  ASSUME NEW s \in Sentinels, NEW r \in Rec, r.leaderEpoch <= r.epoch, r.state = "WAIT_START",
         NEW n \in FailoverWaitStart(s, r)
  PROVE  Shifts(r, n.r)
<1> DEFINE v(w) == VoteLeader(r, r.fepoch, IF w = Nobody THEN s ELSE w)
           wins(w) == [v(w) EXCEPT !.state = "SELECT_SLAVE"]
<1>1. PICK w \in Candidates :
        n \in IF IsLeader(s, v(w), w) \/ v(w).forced THEN Only(wins(w))
              ELSE Only(v(w)) \cup Only(AbortFailover(v(w)))
  BY DEF FailoverWaitStart, Favourites, Candidates
<1>2. /\ v(w) \in Rec /\ v(w).addr = r.addr /\ v(w).promoted = r.promoted /\ v(w).config = r.config
      /\ v(w).state = r.state /\ v(w).fepoch = r.fepoch
      /\ r.epoch <= v(w).epoch /\ v(w).leaderEpoch <= v(w).epoch
      /\ v(w).epoch = r.fepoch => v(w).leaderEpoch = r.fepoch
  <2>1. (IF w = Nobody THEN s ELSE w) \in Sentinels /\ r.fepoch \in Nat
    BY DEF Candidates, Rec
  <2> QED BY <2>1, VoteLeaderShifts
<1> HIDE DEF v
<1>3. Shifts(r, v(w))
  BY <1>2 DEF Shifts, CurrentMasterAddress, Choosing, Promoted
<1>4. Shifts(r, wins(w))
  <2>1. /\ wins(w).state = "SELECT_SLAVE" /\ wins(w).addr = r.addr /\ wins(w).config = r.config
        /\ wins(w).fepoch = r.fepoch /\ wins(w).epoch = v(w).epoch /\ wins(w).leaderEpoch = v(w).leaderEpoch
    BY <1>2 DEF Rec
  <2> HIDE DEF wins
  <2> QED BY <1>2, <2>1 DEF Shifts, CurrentMasterAddress, Choosing, Promoted
<1>5. Shifts(r, AbortFailover(v(w)))
  BY <1>2, <1>3, AbortShifts DEF Promoted
<1> HIDE DEF wins
<1>6. n.r = wins(w) \/ n.r = v(w) \/ n.r = AbortFailover(v(w))
  BY <1>1, OnlyRec
<1> QED BY <1>3, <1>4, <1>5, <1>6

LEMMA SelectSlaveShifts ==
  ASSUME NEW r \in Rec, r.leaderEpoch <= r.epoch, r.state \in Choosing,
         NEW n \in FailoverSelectSlave(r) \cup FailoverSendSlaveOfNoOne(r) \cup FailoverWaitPromotion(r)
  PROVE  Shifts(r, n.r)
<1>0. Shifts(r, r) /\ Shifts(r, AbortFailover(r))
  <2>1. Shifts(r, r)
    BY SMTT(30) DEF Shifts, Choosing, Rec
  <2> QED BY <2>1, AbortShifts DEF Choosing, Promoted
<1>1. ASSUME NEW q \in Rec, q.addr = r.addr, q.config = r.config, q.fepoch = r.fepoch, q.epoch = r.epoch,
             q.leaderEpoch = r.leaderEpoch, q.state \in Choosing
      PROVE  Shifts(r, q)
  BY SMTT(30), <1>1 DEF Shifts, CurrentMasterAddress, Choosing, Promoted, Rec
<1>2. CASE n \in FailoverSelectSlave(r)
  <2>1. PICK i \in SelectSlave(r) :
          n \in Only(IF i = Nobody THEN AbortFailover(r)
                     ELSE [r EXCEPT !.state = "SEND_SLAVEOF_NOONE", !.promoted = i])
    BY <1>2 DEF FailoverSelectSlave
  <2>2. i \in Addresses
    BY DEF SelectSlave, Slaves, Addresses
  <2> DEFINE q == [r EXCEPT !.state = "SEND_SLAVEOF_NOONE", !.promoted = i]
  <2>3. /\ q \in Rec /\ q.addr = r.addr /\ q.config = r.config /\ q.fepoch = r.fepoch
        /\ q.epoch = r.epoch /\ q.leaderEpoch = r.leaderEpoch /\ q.state \in Choosing
    BY <2>2 DEF Rec, States, Choosing
  <2>4. n.r = q \/ n.r = AbortFailover(r)
    BY <2>1, OnlyRec
  <2> HIDE DEF q
  <2> QED BY <1>0, <1>1, <2>3, <2>4
<1>3. CASE n \in FailoverSendSlaveOfNoOne(r)
  <2> DEFINE q == [r EXCEPT !.state = "WAIT_PROMOTION"]
  <2>3. /\ q \in Rec /\ q.addr = r.addr /\ q.config = r.config /\ q.fepoch = r.fepoch
        /\ q.epoch = r.epoch /\ q.leaderEpoch = r.leaderEpoch /\ q.state \in Choosing
    BY DEF Rec, States, Choosing
  <2>4. n.r = q \/ n.r = r \/ n.r = AbortFailover(r)
    BY SMTT(30), <1>3 DEF FailoverSendSlaveOfNoOne, Only
  <2> HIDE DEF q
  <2> QED BY <1>0, <1>1, <2>3, <2>4
<1>4. CASE n \in FailoverWaitPromotion(r)
  BY SMTT(30), <1>0, <1>4 DEF FailoverWaitPromotion, Only
<1> QED BY <1>2, <1>3, <1>4

(* At the end of a failover the sentinel monitors the promoted slave,      *)
(* which it named as the master already.                                   *)
LEMMA ReconfShifts ==
  ASSUME NEW r \in Rec, r.leaderEpoch <= r.epoch, r.state = "RECONF_SLAVES",
         NEW n \in FailoverReconfNextSlave(r)
  PROVE  Shifts(r, n.r)
<1>1. ASSUME NEW i \in Instances, NEW p \in {"sent", "done"}
      PROVE  LET q == [r EXCEPT !.reconf[i] = p]
             IN  /\ q \in Rec /\ q.state = r.state /\ q.promoted = r.promoted /\ q.config = r.config
                 /\ q.fepoch = r.fepoch /\ q.epoch = r.epoch /\ q.leaderEpoch = r.leaderEpoch
  BY <1>1 DEF Rec
<1>2. ASSUME NEW q \in Rec, q.state = r.state, q.promoted = r.promoted, q.config = r.config,
             q.fepoch = r.fepoch, q.epoch = r.epoch, q.leaderEpoch = r.leaderEpoch
      PROVE  Shifts(r, q) /\ Shifts(r, Switch(q))
  <2>1. Shifts(r, q)
    BY SMTT(30), <1>2 DEF Shifts, CurrentMasterAddress, Choosing, Promoted, Rec
  <2> DEFINE w == Switch(q)
  <2>2. /\ w.state = "NONE" /\ w.addr = q.promoted /\ w.config = q.config /\ w.fepoch = q.fepoch
        /\ w.epoch = q.epoch /\ w.leaderEpoch = q.leaderEpoch
    BY DEF Switch, ResetMasterAndChangeAddress, ResetMaster, Rec
  <2> HIDE DEF w
  <2>3. Shifts(r, w)
    BY SMTT(30), <1>2, <2>2 DEF Shifts, CurrentMasterAddress, Choosing, Promoted, Rec
  <2> QED BY <2>1, <2>3 DEF w
<1>3. Shifts(r, r) /\ Shifts(r, Switch(r))
  BY <1>2
<1>4. ASSUME NEW i \in Instances, NEW p \in {"sent", "done"}
      PROVE  Shifts(r, [r EXCEPT !.reconf[i] = p]) /\ Shifts(r, Switch([r EXCEPT !.reconf[i] = p]))
  <2> DEFINE q == [r EXCEPT !.reconf[i] = p]
  <2>1. /\ q \in Rec /\ q.state = r.state /\ q.promoted = r.promoted /\ q.config = r.config
        /\ q.fepoch = r.fepoch /\ q.epoch = r.epoch /\ q.leaderEpoch = r.leaderEpoch
    BY <1>1
  <2> HIDE DEF q
  <2>2. Shifts(r, q) /\ Shifts(r, Switch(q))
    BY <1>2, <2>1
  <2> QED BY <2>2 DEF q
<1> QED BY ZenonT(30), <1>3, <1>4, ReconfCases

LEMMA StateMachineShifts ==
  ASSUME NEW s \in Sentinels, NEW r \in Rec, r.leaderEpoch <= r.epoch, NEW n \in FailoverStateMachine(s, r)
  PROVE  Shifts(r, n.r)
<1>1. CASE r.state = "WAIT_START"
  <2>1. n \in FailoverWaitStart(s, r)
    BY <1>1 DEF FailoverStateMachine
  <2> QED BY <1>1, <2>1, WaitStartShifts
<1>2. CASE r.state \in Choosing
  <2>1. n \in FailoverSelectSlave(r) \cup FailoverSendSlaveOfNoOne(r) \cup FailoverWaitPromotion(r)
    BY <1>2 DEF FailoverStateMachine, Choosing
  <2> QED BY <1>2, <2>1, SelectSlaveShifts
<1>3. CASE r.state = "RECONF_SLAVES"
  <2>1. n \in FailoverReconfNextSlave(r)
    BY <1>3 DEF FailoverStateMachine
  <2> QED BY <1>3, <2>1, ReconfShifts
<1>4. CASE r.state \in {"NONE", "UPDATE_CONFIG"}
  <2>1. n \in Only(r)
    BY <1>4 DEF FailoverStateMachine
  <2>2. Shifts(r, r)
    BY SMTT(30), <1>4 DEF Shifts, Choosing, Promoted, Rec
  <2> QED BY <2>1, <2>2, OnlyRec
<1>5. r.state \in States
  BY DEF Rec
<1> QED BY <1>1, <1>2, <1>3, <1>4, <1>5 DEF States, Promoted, Choosing

(* A step of the failover, by which s may find itself elected. *)
LEMMA ShiftJInv ==
  ASSUME TypeOK, TypeOK', VotesOnDisk', OneLeaderPerEpoch', JInv, NEW s \in Sentinels,
         NEW b \in Rec, NEW n \in Rec, Shifts(b, n), Become(s, n), UNCHANGED disk \/ Flush(s, n),
         b.config = sentinel[s].config,
         CurrentMasterAddress(b) = CurrentMasterAddress(sentinel[s]), sentinel[s].epoch <= b.epoch,
         \/ b.state = sentinel[s].state /\ b.fepoch = sentinel[s].fepoch
         \/ b.state = "WAIT_START" /\ b.fepoch = sentinel[s].epoch + 1,
         UNCHANGED hellos,
         elected' = elected \cup
           IF b.state = "WAIT_START" /\ n.state = "SELECT_SLAVE"
           THEN {[who |-> s, fepoch |-> b.fepoch, epoch |-> n.epoch, forced |-> b.forced]} ELSE {}
  PROVE  JInv'
<1> DEFINE r == sentinel[s]
           wins == b.state = "WAIT_START" /\ n.state = "SELECT_SLAVE"
           x == [who |-> s, fepoch |-> b.fepoch, epoch |-> n.epoch, forced |-> b.forced]
           X == IF wins THEN {x} ELSE {}
<1>1. sentinel'[s] = n /\ \A t \in Sentinels \ {s} : sentinel'[t] = sentinel[t]
  BY DEF Become, TypeOK
<1>2. /\ \A t \in Sentinels \ {s} : disk'[t] = disk[t]
      /\ disk'[s] = disk[s] \/ disk'[s] = Saved(n)
  BY DEF Flush, TypeOK
<1>3. \A t \in Sentinels : /\ Held(CurrentMasterAddress(sentinel'[t]), sentinel'[t].config)
                           /\ Held(disk'[t].addr, disk'[t].config)
  BY SMTT(30), <1>1, <1>2, HeldBySentinels DEF Shifts, Saved
<1>4. \A c \in Configurations' : Held(c.addr, c.config)
  BY <1>3, HeldStays, HeldHellos
<1>5. \A t \in Sentinels :
        /\ disk[t].epoch <= sentinel[t].epoch /\ sentinel[t].leaderEpoch <= sentinel[t].epoch
        /\ disk[t].leaderEpoch <= disk[t].epoch
        /\ disk[t].epoch \in Nat /\ sentinel[t].epoch \in Nat
        /\ sentinel[t].state \in Promoted => sentinel[t].config # 0
  BY DEF JInv, EpochsOnDisk, ConfigurationsElected, TypeOK, File, Rec
<1>6. b.epoch \in Nat /\ n.epoch \in Nat /\ b.fepoch \in Nat /\ n.leaderEpoch \in Nat
  BY DEF Rec
<1>7. ASSUME NEW t \in Sentinels
      PROVE  /\ disk[t].epoch <= disk'[t].epoch /\ disk'[t].epoch <= sentinel'[t].epoch
             /\ disk'[t].leaderEpoch <= disk'[t].epoch
             /\ sentinel'[t].leaderEpoch <= sentinel'[t].epoch
  <2>2. CASE t = s
    BY SMTT(30), <1>1, <1>2, <1>5, <1>6, <2>2 DEF Shifts, Saved
  <2>3. CASE t # s
    BY SMTT(30), <1>1, <1>2, <1>5, <2>3
  <2> QED BY <2>2, <2>3
<1>8. ASSUME NEW t \in Sentinels
      PROVE  LET q == sentinel[t]
                 m == sentinel'[t]
             IN  /\ m.state = "WAIT_START" => \/ q.state = "WAIT_START" /\ m.fepoch = q.fepoch
                                              \/ m.fepoch > q.epoch
                 /\ m.state \in Choosing => \/ q.state \in Choosing /\ m.fepoch = q.fepoch
                                            \/ \E y \in X : y.who = t /\ y.fepoch = m.fepoch
                 /\ m.state \in Promoted => q.state \in Promoted /\ m.fepoch = q.fepoch /\ m.config # 0
  <2>1. CASE t = s
    <3>1. n.state = "WAIT_START" => \/ r.state = "WAIT_START" /\ n.fepoch = r.fepoch
                                    \/ n.fepoch > r.epoch
      BY SMTT(30), <1>5, <1>6 DEF Shifts
    <3>2. n.state \in Choosing => \/ r.state \in Choosing /\ n.fepoch = r.fepoch
                                  \/ wins /\ n.fepoch = b.fepoch
      BY DEF Shifts, Choosing
    <3>3. n.state \in Promoted => r.state \in Promoted /\ n.fepoch = r.fepoch /\ n.config # 0
      BY <1>5 DEF Shifts, Promoted
    <3> QED BY <1>1, <2>1, <3>1, <3>2, <3>3
  <2>2. CASE t # s
    BY <1>1, <1>5, <2>2
  <2> QED BY <2>1, <2>2
<1>9. \A c \in Configurations' : \E d \in Configurations : d.config = c.config /\ d.addr = c.addr
  BY <1>4 DEF Held
<1>10. ASSUME wins
       PROVE  /\ b.fepoch > 0
              /\ Regular(x) => b.fepoch <= disk'[s].epoch
              /\ \A e \in elected : Regular(e) /\ e.who = s => e.fepoch # b.fepoch
  <2>1. b.fepoch > 0
    BY SMTT(30), <1>5, <1>6, <1>10 DEF JInv, FailoversFresh
  <2>2. Regular(x) => b.fepoch <= disk'[s].epoch
    <3>1. Regular(x) => n.leaderEpoch = b.fepoch
      BY <1>10 DEF Regular, Shifts
    <3>2. disk'[s].leaderEpoch = n.leaderEpoch
      BY <1>1 DEF VotesOnDisk
    <3> QED BY <1>7, <3>1, <3>2
  <2>3. ASSUME NEW e \in elected, Regular(e), e.who = s
        PROVE  e.fepoch # b.fepoch
    <3>1. e.fepoch \in Nat /\ e.fepoch <= disk[s].epoch
      BY <2>3 DEF TypeOK, JInv, EpochsOnDisk
    <3>2. CASE b.state = r.state /\ b.fepoch = r.fepoch
      BY SMTT(30), <1>6, <1>10, <2>3, <3>1, <3>2 DEF JInv, FailoversFresh
    <3>3. CASE b.fepoch = r.epoch + 1
      BY SMTT(30), <1>5, <3>1, <3>3
    <3> QED BY <3>2, <3>3
  <2> QED BY <2>1, <2>2, <2>3
<1>11. \A y \in X : wins /\ y = x
  OBVIOUS
<1>12. ConfigStep(X)
  <2>1. elected' = elected \cup X
    OBVIOUS
  <2>2. ASSUME NEW y \in X
        PROVE  /\ y.who \in Sentinels /\ y.fepoch > 0
               /\ sentinel'[y.who].state # "WAIT_START"
               /\ Regular(y) => y.fepoch <= disk'[y.who].epoch
               /\ \A e \in elected : Regular(e) /\ e.who = y.who => e.fepoch # y.fepoch
    <3>1. wins /\ y = x /\ y.who = s /\ y.fepoch = b.fepoch
      BY SMTT(30), <1>11
    <3> HIDE DEF x, X
    <3> QED BY <1>1, <1>10, <3>1
  <2> HIDE DEF X
  <2> QED BY <1>7, <1>8, <1>9, <2>1, <2>2 DEF ConfigStep
<1> HIDE DEF X
<1> QED BY <1>12, ConfigStepJInv

LEMMA TimerJInv ==
  ASSUME Setting, IInv, IInv', OneLeaderPerEpoch', JInv, NEW s \in Sentinels, Timer(s)
  PROVE  JInv'
<1>0. TypeOK /\ TypeOK' /\ VotesOnDisk' /\ sentinel[s] \in Rec /\ hellos' = hellos
  BY DEF IInv, Ballots, TypeOK, Timer
<1> DEFINE r == sentinel[s]
<1>1. PICK down \in {TRUE, r.sdown} :
        \/ TimerStep(s, [r EXCEPT !.sdown = down], [r EXCEPT !.sdown = down])
        \/ /\ [r EXCEPT !.sdown = down].state = "NONE"
           /\ TimerStep(s, StartFailover([r EXCEPT !.sdown = down]), [r EXCEPT !.sdown = down])
  BY TimerCases
<1> DEFINE o == [r EXCEPT !.sdown = down]
<1>2. /\ o \in Rec /\ o.config = r.config /\ o.addr = r.addr /\ o.promoted = r.promoted
      /\ o.state = r.state /\ o.epoch = r.epoch /\ o.fepoch = r.fepoch /\ o.leaderEpoch = r.leaderEpoch
  BY <1>0 DEF Rec
<1>3. TimerStep(s, o, o) \/ (o.state = "NONE" /\ TimerStep(s, StartFailover(o), o))
  BY <1>1
<1> HIDE DEF o
<1>4. r.epoch \in Nat /\ r.leaderEpoch \in Nat /\ r.leaderEpoch <= r.epoch
  BY <1>0 DEF Rec, JInv, EpochsOnDisk
<1>5. PICK b \in Rec :
        /\ TimerStep(s, b, o) /\ b.config = r.config
        /\ CurrentMasterAddress(b) = CurrentMasterAddress(r)
        /\ r.epoch <= b.epoch /\ b.leaderEpoch <= b.epoch
        /\ \/ b.state = r.state /\ b.fepoch = r.fepoch
           \/ b.state = "WAIT_START" /\ b.fepoch = r.epoch + 1
  <2>1. CASE TimerStep(s, o, o)
    <3>1. CurrentMasterAddress(o) = CurrentMasterAddress(r)
      BY <1>2 DEF CurrentMasterAddress
    <3> QED BY SMTT(30), <1>2, <1>4, <2>1, <3>1
  <2>2. CASE o.state = "NONE" /\ TimerStep(s, StartFailover(o), o)
    <3> DEFINE b == StartFailover(o)
    <3>1. /\ b \in Rec /\ b.state = "WAIT_START" /\ b.fepoch = r.epoch + 1 /\ b.epoch = r.epoch + 1
          /\ b.leaderEpoch = r.leaderEpoch
      BY <1>2, StartRec
    <3>2. b.config = o.config /\ b.addr = o.addr
      BY <1>2 DEF StartFailover, Rec
    <3> HIDE DEF b
    <3>3. CurrentMasterAddress(b) = CurrentMasterAddress(r)
      BY <1>2, <2>2, <3>1, <3>2 DEF CurrentMasterAddress, Promoted
    <3>4. r.epoch <= b.epoch /\ b.leaderEpoch <= b.epoch
      BY SMTT(30), <1>4, <3>1
    <3>5. TimerStep(s, b, o)
      BY <2>2 DEF b
    <3> QED BY <1>2, <3>1, <3>2, <3>3, <3>4, <3>5
  <2> QED BY <1>3, <2>1, <2>2
<1>6. PICK n \in FailoverStateMachine(s, b) :
        /\ Become(s, n.r)
        /\ FlushIf(s, n.r, n.r.leaderEpoch # o.leaderEpoch \/ n.r.addr # o.addr)
        /\ elected' = elected \cup
             IF b.state = "WAIT_START" /\ n.r.state = "SELECT_SLAVE"
             THEN {[who |-> s, fepoch |-> b.fepoch, epoch |-> n.r.epoch, forced |-> b.forced]} ELSE {}
  BY <1>5 DEF TimerStep
<1>7. Shifts(b, n.r)
  BY <1>5, StateMachineShifts
<1>8. n.r \in Rec
  BY StateMachineAdvances DEF Advances
<1>9. UNCHANGED disk \/ Flush(s, n.r)
  BY <1>6 DEF FlushIf
<1> QED BY <1>0, <1>5, <1>6, <1>7, <1>8, <1>9, ShiftJInv

(* A question answered: t may learn of an epoch and vote in it, which      *)
(* changes no configuration.                                               *)
LEMMA AnswerJInv ==
  ASSUME IInv, IInv', OneLeaderPerEpoch', JInv, NEW s \in Sentinels, NEW t \in Sentinels,
         IsMasterDownByAddr(s, t)
  PROVE  JInv'
<1>0. /\ TypeOK /\ TypeOK' /\ VotesOnDisk' /\ AnswersAreVotes
      /\ sentinel[s] \in Rec /\ sentinel[t] \in Rec /\ \A u \in Sentinels : sentinel'[u] \in Rec
  BY DEF IInv, Ballots, TypeOK
<1> DEFINE q == ask[s][t]
           r == sentinel[t]
           seeks == q.addr = r.addr /\ q.runid # Nobody
           v == IF seeks THEN VoteLeader(r, q.epoch, q.runid) ELSE r
<1>1. PICK seen : /\ q # Idle /\ FlushIf(t, v, v # r)
                  /\ sentinel' = [sentinel EXCEPT ![t] = v, ![s].view[t] = seen]
                  /\ UNCHANGED <<hellos, elected>>
  BY DEF IsMasterDownByAddr
<1>2. s # t
  BY <1>0, <1>1 DEF AnswersAreVotes
<1>3. /\ r.epoch \in Nat /\ r.leaderEpoch <= r.epoch /\ q.epoch \in Nat /\ q.runid \in Candidates
  BY SMTT(30), <1>0 DEF JInv, EpochsOnDisk, TypeOK, Question, Rec
<1>4. /\ v \in Rec /\ v.addr = r.addr /\ v.promoted = r.promoted /\ v.config = r.config
      /\ v.state = r.state /\ v.fepoch = r.fepoch /\ r.epoch <= v.epoch /\ v.leaderEpoch <= v.epoch
  <2>1. CASE seeks
    <3>1. q.runid \in Sentinels
      BY <1>3, <2>1 DEF Candidates
    <3> DEFINE z == VoteLeader(r, q.epoch, q.runid)
    <3>2. /\ z \in Rec /\ z.addr = r.addr /\ z.promoted = r.promoted /\ z.config = r.config
          /\ z.state = r.state /\ z.fepoch = r.fepoch /\ r.epoch <= z.epoch /\ z.leaderEpoch <= z.epoch
      <4>1. r \in Rec
        BY <1>0
      <4> HIDE DEF v, seeks, q, r
      <4> QED BY ZenonT(30), <1>3, <3>1, <4>1, VoteLeaderShifts
    <3>3. v = z
      BY <2>1
    <3> HIDE DEF z, v
    <3> QED BY <3>2, <3>3
  <2>2. CASE ~seeks
    BY SMTT(30), <1>0, <1>3, <2>2
  <2> QED BY <2>1, <2>2
<1> HIDE DEF v
<1> DEFINE w == [sentinel[s] EXCEPT !.view[t] = seen]
<1>5. /\ w.addr = sentinel[s].addr /\ w.promoted = sentinel[s].promoted /\ w.config = sentinel[s].config
      /\ w.state = sentinel[s].state /\ w.fepoch = sentinel[s].fepoch /\ w.epoch = sentinel[s].epoch
      /\ w.leaderEpoch = sentinel[s].leaderEpoch
  BY <1>0 DEF Rec
<1>6. sentinel' = [sentinel EXCEPT ![t] = v, ![s] = w]
  BY <1>0, <1>1, <1>2 DEF TypeOK
<1> HIDE DEF w
<1>7. /\ sentinel'[t] = v /\ sentinel'[s] = w
      /\ \A u \in Sentinels \ {s, t} : sentinel'[u] = sentinel[u]
  BY <1>0, <1>2, <1>6 DEF TypeOK
<1>8. /\ \A u \in Sentinels \ {t} : disk'[u] = disk[u]
      /\ disk'[t] = disk[t] \/ disk'[t] = Saved(v)
  BY <1>0, <1>1 DEF FlushIf, Flush, TypeOK
<1>9. \A u \in Sentinels :
        /\ disk[u].epoch <= sentinel[u].epoch /\ sentinel[u].leaderEpoch <= sentinel[u].epoch
        /\ disk[u].leaderEpoch <= disk[u].epoch
        /\ disk[u].epoch \in Nat /\ sentinel[u].epoch \in Nat /\ sentinel[u].leaderEpoch \in Nat
        /\ sentinel[u].state \in Promoted => sentinel[u].config # 0
  BY <1>0 DEF JInv, EpochsOnDisk, ConfigurationsElected, TypeOK, File, Rec
<1>10. ASSUME NEW u \in Sentinels
       PROVE  /\ sentinel'[u].addr = sentinel[u].addr /\ sentinel'[u].promoted = sentinel[u].promoted
              /\ sentinel'[u].config = sentinel[u].config /\ sentinel'[u].state = sentinel[u].state
              /\ sentinel'[u].fepoch = sentinel[u].fepoch /\ sentinel[u].epoch <= sentinel'[u].epoch
              /\ sentinel'[u].leaderEpoch <= sentinel'[u].epoch /\ sentinel'[u].epoch \in Nat
  <2>1. CASE u = t
    BY <1>0, <1>4, <1>7, <2>1 DEF Rec
  <2>2. CASE u = s
    BY SMTT(30), <1>2, <1>5, <1>7, <1>9, <2>2
  <2>3. CASE u \notin {s, t}
    BY SMTT(30), <1>7, <1>9, <2>3
  <2> QED BY <2>1, <2>2, <2>3
<1>11. ASSUME NEW u \in Sentinels
       PROVE  /\ disk[u].epoch <= disk'[u].epoch /\ disk'[u].epoch <= sentinel'[u].epoch
              /\ disk'[u].leaderEpoch <= disk'[u].epoch
  <2>1. CASE u = t
    BY SMTT(30), <1>4, <1>7, <1>8, <1>9, <1>10, <2>1 DEF Saved
  <2>2. CASE u # t
    BY SMTT(30), <1>8, <1>9, <1>10, <2>2
  <2> QED BY <2>1, <2>2
<1>12. \A u \in Sentinels : CurrentMasterAddress(sentinel'[u]) = CurrentMasterAddress(sentinel[u])
  BY <1>10 DEF CurrentMasterAddress
<1>13. \A u \in Sentinels : /\ Held(CurrentMasterAddress(sentinel'[u]), sentinel'[u].config)
                            /\ Held(disk'[u].addr, disk'[u].config)
  <2>1. \A u \in Sentinels : Held(CurrentMasterAddress(sentinel'[u]), sentinel'[u].config)
    BY <1>10, <1>12, HeldBySentinels
  <2>2. ASSUME NEW u \in Sentinels
        PROVE  Held(disk'[u].addr, disk'[u].config)
    BY SMTT(30), <1>7, <1>8, <2>1, HeldBySentinels DEF Saved
  <2> QED BY <2>1, <2>2
<1>14. \A c \in Configurations' : \E d \in Configurations : d.config = c.config /\ d.addr = c.addr
  <2>1. \A c \in hellos' : Held(c.addr, c.config)
    BY <1>1, HeldHellos
  <2> QED BY <1>13, <2>1, HeldStays DEF Held
<1>15. ConfigStep({})
  BY <1>1, <1>9, <1>10, <1>11, <1>14 DEF ConfigStep
<1> QED BY <1>0, <1>15, ConfigStepJInv

-----------------------------------------------------------------------------
LEMMA NextJInv ==
  ASSUME Setting
  PROVE  /\ IInv /\ IInv' /\ OneLeaderPerEpoch /\ OneLeaderPerEpoch' /\ JInv /\ [Next]_vars
         => JInv'
<1> SUFFICES ASSUME IInv, IInv', OneLeaderPerEpoch, OneLeaderPerEpoch', JInv, [Next]_vars PROVE JInv'
  OBVIOUS
<1>0. TypeOK /\ TypeOK'
  BY DEF IInv, Ballots
<1>1. CASE \E s \in Sentinels : Timer(s)
  BY <1>1, TimerJInv
<1>2. CASE \E s \in Sentinels : SendHello(s) \/ \E h \in hellos : ReceiveHello(s, h)
  BY <1>0, <1>2, HelloJInv
<1>3. CASE \E s \in Sentinels : FailoverCommand(s) \/ FailoverElsewhere(s) \/ Recovers(s)
  BY <1>0, <1>3, CommandJInv
<1>4. CASE \E s \in Sentinels : Restart(s)
  BY <1>0, <1>4, RestartJInv
<1>5. CASE \E s, t \in Sentinels : IsMasterDownByAddr(s, t) \/ Silence(s, t)
  BY <1>0, <1>5, AnswerJInv, SilenceJInv
<1>6. CASE \E s \in Sentinels, i \in Instances : RefreshSlaveInfo(s, i)
  BY <1>0, <1>6, RefreshJInv
<1>7. CASE UNCHANGED <<sentinel, disk, hellos, elected>>
  <2>1. Configurations' = Configurations
    BY <1>7 DEF Configurations, CurrentMasterAddress
  <2> QED BY <1>7, <2>1 DEF JInv, ChoosersElected, FailoversFresh, EpochsOnDisk, ConfigurationsElected,
                            OneChoice, Clean, Regular
<1>8. CASE (\E c \in slaveof : SlaveOf(c)) \/ UNCHANGED vars
  BY <1>7, <1>8 DEF SlaveOf, vars
<1> QED BY <1>1, <1>2, <1>3, <1>4, <1>5, <1>6, <1>8 DEF Next

(* A configuration epoch that is the only one a leader was elected for     *)
(* names one master: whatever sentinels crash, hear of it late or twice,   *)
(* or learn in the middle of a failover, the addresses they hold, have on  *)
(* disk and announce under that configuration epoch are the same           *)
(* (sentinelProcessHelloMessage, sentinelRefreshInstanceInfo,              *)
(* sentinelFailoverSwitchToPromotedSlave, sentinelFlushConfig).            *)
THEOREM OneMaster ==
  ASSUME Setting
  PROVE  Spec => []OneMasterPerConfigEpoch
<1>1. Init => JInv
  BY InitJInv
<1>2. /\ IInv /\ IInv' /\ OneLeaderPerEpoch /\ OneLeaderPerEpoch' /\ JInv /\ [Next]_vars
      => JInv'
  BY NextJInv
<1>3. TypeOK /\ JInv => OneMasterPerConfigEpoch
  <2> SUFFICES ASSUME TypeOK, JInv, NEW c \in Configurations, NEW d \in Configurations,
                      c.config = d.config, \A e \in elected : Regular(e) /\ e.fepoch = c.config
               PROVE  c.addr = d.addr
    BY DEF OneMasterPerConfigEpoch
  <2>1. CASE c.config = 0
    <3>1. \A e \in elected : e.fepoch # 0
      BY SMTT(30) DEF JInv, EpochsOnDisk, TypeOK
    <3> QED BY <2>1, <3>1 DEF JInv, ConfigurationsElected
  <2>2. CASE c.config # 0
    BY <2>2 DEF JInv, OneChoice, Clean
  <2> QED BY <2>1, <2>2
<1>4. IInv => TypeOK
  BY DEF IInv, Ballots
<1> QED BY <1>1, <1>2, <1>3, <1>4, Invariant, OneLeader, PTL DEF Spec

=============================================================================
