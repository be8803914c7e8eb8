------------------------------- MODULE Sentinel -------------------------------
(***************************************************************************)
(* Redis Sentinel (src/redis-stable/src/sentinel.c): the sentinels that    *)
(* watch one master, the votes by which they elect the one that may fail   *)
(* it over, the failover itself, and the hello messages that spread its    *)
(* result. Periods and timeouts are choices: a link may be slow for any    *)
(* time, and a timeout may fire whenever the state it guards lasts.        *)
(***************************************************************************)
EXTENDS Integers, FiniteSets

CONSTANTS
  Sentinels,     \* the sentinels, which all know each other
  Instances,     \* the addresses of the Redis instances
  First,         \* the address of the master they are told to monitor
  Nobody,        \* no leader, no slave, no master
  Quorum,        \* the quorum configured for the master
  Scenarios      \* bounds: how often each event may happen and how many epochs are
                 \* drawn, how many failovers each sentinel starts, and whether
                 \* all of them see the master down at first

VARIABLES
  sentinel,  \* the state of each sentinel
  disk,      \* what each has written to its configuration file
  ask,       \* SENTINEL IS-MASTER-DOWN-BY-ADDR on its way
  hellos,    \* hello messages published so far
  slaveof,   \* SLAVEOF transactions on their way: <<instance, target>>
  role,      \* the master each instance follows, Nobody if it is a master
  budget,    \* what is left of the bounds
  starts,    \* how many failovers each sentinel still starts
  cast,      \* history: the votes, <<voter, epoch, candidate>>
  elected    \* history: the sentinels that found themselves leader

vars == <<sentinel, disk, ask, hellos, slaveof, role, budget, starts, cast, elected>>

Idle == [addr |-> Nobody, epoch |-> 0, runid |-> Nobody]

NoView == [down |-> FALSE, leader |-> Nobody, epoch |-> 0]

Promoted == {"RECONF_SLAVES", "UPDATE_CONFIG"}

-----------------------------------------------------------------------------
(* One sentinel. *)

Slaves(r) == Instances \ {r.addr}

(* sentinelGetCurrentMasterAddress *)
CurrentMasterAddress(r) == IF r.state \in Promoted THEN r.promoted ELSE r.addr

(* Mutant: the file keeps the address that is being left. *)
Saved_OldAddress(r) == [epoch |-> r.epoch, addr |-> r.addr, config |-> r.config,
                        leaderEpoch |-> r.leaderEpoch]

(* The lines of the configuration file the elections depend on. *)
Saved(r) == [epoch |-> r.epoch, addr |-> CurrentMasterAddress(r), config |-> r.config,
             leaderEpoch |-> r.leaderEpoch]

(* sentinelResetMaster: the other sentinels, and what they last said, are  *)
(* kept; the epoch of the last vote is too.                                *)
ResetMaster(r) ==
  [r EXCEPT !.leader = Nobody, !.state = "NONE", !.forced = FALSE, !.promoted = Nobody,
            !.sdown = FALSE,
            !.reconf = [i \in Instances |-> "none"]]

ResetMasterAndChangeAddress(r, addr) == [ResetMaster(r) EXCEPT !.addr = addr]

(* Mutant: a vote is given again to whoever asks in the same epoch. *)
VoteLeader_Again(r, epoch, runid) ==
  LET e == IF epoch > r.epoch THEN epoch ELSE r.epoch
  IN  IF r.leaderEpoch <= epoch /\ e <= epoch
      THEN [r EXCEPT !.epoch = e, !.leader = runid, !.leaderEpoch = e]
      ELSE [r EXCEPT !.epoch = e]

(* sentinelVoteLeader: a vote in an epoch nobody was voted for yet. *)
VoteLeader(r, epoch, runid) ==
  LET e == IF epoch > r.epoch THEN epoch ELSE r.epoch
  IN  IF r.leaderEpoch < epoch /\ e <= epoch
      THEN [r EXCEPT !.epoch = e, !.leader = runid, !.leaderEpoch = e]
      ELSE [r EXCEPT !.epoch = e]

(* The votes for c among the other sentinels' last replies. *)
VotesFor(r, c) == Cardinality({t \in Sentinels : r.view[t].leader = c /\ r.view[t].epoch = r.epoch})

(* The most voted candidates; dict order decides between equals. *)
Favourites(r) ==
  {c \in Sentinels : VotesFor(r, c) > 0 /\ \A d \in Sentinels : VotesFor(r, d) <= VotesFor(r, c)}

Enough(votes) == 2 * votes > Cardinality(Sentinels) /\ votes >= Quorum

(* sentinelGetLeader, after the vote that made r of it: is s the winner,   *)
(* given the favourite w of the others?                                    *)
IsLeader(s, r, w) ==
  LET top == IF w = Nobody THEN 0 ELSE VotesFor(r, w)
      mine == r.leader # Nobody /\ r.leaderEpoch = r.fepoch
      votes == IF mine THEN VotesFor(r, r.leader) + 1 ELSE 0
  IN  IF votes > top THEN r.leader = s /\ Enough(votes) ELSE w = s /\ Enough(top)

-----------------------------------------------------------------------------
(* The failover state machine: each step yields the sentinels it may leave *)
(* behind, and the SLAVEOF transactions it sends.                          *)

Only(r) == {[r |-> r, send |-> {}]}

(* sentinelStartFailover *)
StartFailover(r) ==
  [r EXCEPT !.state = "WAIT_START", !.epoch = @ + 1, !.fepoch = r.epoch + 1]

(* sentinelAbortFailover *)
AbortFailover(r) == [r EXCEPT !.state = "NONE", !.forced = FALSE, !.promoted = Nobody]

FailoverWaitStart(s, r) ==
  UNION {LET v == VoteLeader(r, r.fepoch, IF w = Nobody THEN s ELSE w)
         IN  IF IsLeader(s, v, w) \/ v.forced THEN Only([v EXCEPT !.state = "SELECT_SLAVE"])
             ELSE Only(v) \cup Only(AbortFailover(v))
         : w \in IF Favourites(r) = {} THEN {Nobody} ELSE Favourites(r)}

(* sentinelSelectSlave: which slaves qualify, and which is best, is a      *)
(* matter of times, priorities and offsets.                                *)
SelectSlave(r) == Slaves(r) \cup {Nobody}

FailoverSelectSlave(r) ==
  UNION {Only(IF i = Nobody THEN AbortFailover(r)
              ELSE [r EXCEPT !.state = "SEND_SLAVEOF_NOONE", !.promoted = i]) : i \in SelectSlave(r)}

(* The promoted slave may be disconnected. *)
FailoverSendSlaveOfNoOne(r) ==
  {[r |-> [r EXCEPT !.state = "WAIT_PROMOTION"], send |-> {<<r.promoted, Nobody>>}]}
  \cup Only(r) \cup Only(AbortFailover(r))

FailoverWaitPromotion(r) == Only(r) \cup Only(AbortFailover(r))

(* sentinelFailoverReconfNextSlave sends SLAVEOF to one slave at a time    *)
(* (parallel_syncs), or takes one that does not answer for done;           *)
(* sentinelFailoverDetectEnd ends the failover when the reachable slaves   *)
(* are done or time is up, and the switch follows in the same timer.       *)
Unconfigured(r) == {i \in Slaves(r) \ {r.promoted} : r.reconf[i] # "done"}

Switch(r) == ResetMasterAndChangeAddress(r, r.promoted)

FailoverReconfNextSlave(r) ==
  LET busy == {i \in Slaves(r) : r.reconf[i] \in {"sent", "inprog"}}
      next == {i \in Unconfigured(r) : r.reconf[i] = "none"}
      sent(i) == [r EXCEPT !.reconf[i] = "sent"]
      timedout(i) == [r EXCEPT !.reconf[i] = "done"]
      end(q) == IF Unconfigured(q) = {} THEN Switch(q) ELSE q
  IN  Only(end(r))
      \cup {[r |-> sent(i), send |-> {<<i, r.promoted>>}] : i \in IF busy = {} THEN next ELSE {}}
      \cup (UNION {Only(end(timedout(i))) : i \in {j \in busy : r.reconf[j] = "sent"}})
      \cup {[r |-> Switch(r), send |-> {<<i, r.promoted>> : i \in reached}] : reached \in SUBSET next}

FailoverStateMachine(s, r) ==
  CASE r.state = "WAIT_START" -> FailoverWaitStart(s, r)
    [] r.state = "SELECT_SLAVE" -> FailoverSelectSlave(r)
    [] r.state = "SEND_SLAVEOF_NOONE" -> FailoverSendSlaveOfNoOne(r)
    [] r.state = "WAIT_PROMOTION" -> FailoverWaitPromotion(r)
    [] r.state = "RECONF_SLAVES" -> FailoverReconfNextSlave(r)
    [] OTHER -> Only(r)

-----------------------------------------------------------------------------
(* The timer. *)

(* Every change of what a sentinel must not forget is written at once. *)
Flush(s, r) == disk' = [disk EXCEPT ![s] = Saved(r)]

FlushIf(s, r, changed) == IF changed THEN Flush(s, r) ELSE UNCHANGED disk

Become(s, r) == sentinel' = [sentinel EXCEPT ![s] = r]

Votes(s, r) ==
  IF r.leaderEpoch # sentinel[s].leaderEpoch THEN {<<s, r.leaderEpoch, r.leader>>} ELSE {}

(* sentinelCheckObjectivelyDown *)
ObjectivelyDown(r) ==
  r.sdown /\ 1 + Cardinality({t \in Sentinels : r.view[t].down}) >= Quorum

(* sentinelStartFailoverIfNeeded; a sentinel that tried or voted for       *)
(* another waits before it starts, for a time left open.                   *)
StartFailoverIfNeeded(r) == ObjectivelyDown(r) /\ r.state = "NONE"

(* sentinelAskMasterStateToOtherSentinels. The questions of a sentinel     *)
(* that starts no failover any more, and those t has answered already, are *)
(* left out.                                                               *)
Answered(r, t) ==
  r.view[t].down /\ (r.state # "NONE" => r.view[t].leader # Nobody /\ r.view[t].epoch = r.epoch)

CanLead(s, r) == (starts[s] > 0 /\ r.epoch < budget.epochs) \/ r.state # "NONE"

AskMasterState(s, r) ==
  ask' = [ask EXCEPT ![s] = [t \in Sentinels |->
    IF t # s /\ CanLead(s, r) /\ r.sdown /\ @[t] = Idle /\ ~Answered(r, t)
    THEN [addr |-> r.addr, epoch |-> r.epoch,
          runid |-> IF r.state = "NONE" THEN Nobody ELSE s]
    ELSE @[t]]]

(* sentinelHandleRedisInstance for the master, after the periodic          *)
(* commands: the down flags, the start of a failover, a step of the one in *)
(* progress, and the question to the others.                               *)
Timer(s) ==
  \E down \in {TRUE, sentinel[s].sdown}, ready \in BOOLEAN :
    LET o == [sentinel[s] EXCEPT !.sdown = down]
        start == ready /\ StartFailoverIfNeeded(o)
        b == IF start THEN StartFailover(o) ELSE o
    IN  /\ ready => start /\ starts[s] > 0 /\ o.epoch < budget.epochs
        /\ starts' = [starts EXCEPT ![s] = IF start THEN @ - 1 ELSE @]
        /\ \E n \in FailoverStateMachine(s, b) :
             /\ Become(s, n.r)
             /\ FlushIf(s, n.r, n.r.leaderEpoch # o.leaderEpoch \/ n.r.addr # o.addr)
             /\ slaveof' = slaveof \cup n.send
             /\ AskMasterState(s, n.r)
             /\ cast' = cast \cup Votes(s, n.r)
             /\ elected' = elected \cup
                  IF b.state = "WAIT_START" /\ n.r.state = "SELECT_SLAVE"
                  THEN {[who |-> s, fepoch |-> b.fepoch, epoch |-> n.r.epoch, forced |-> b.forced]}
                  ELSE {}
  /\ UNCHANGED <<hellos, role, budget>>

(* sentinelReceiveIsMasterDownReply: what s keeps of the answer of t. *)
ReceiveIsMasterDownReply(view, down, leader, epoch) ==
  IF leader # Nobody THEN [down |-> down, leader |-> leader, epoch |-> epoch]
  ELSE [view EXCEPT !.down = down]

(* SENTINEL IS-MASTER-DOWN-BY-ADDR at t: a vote is given only for the      *)
(* master t itself monitors, and only if the sender seeks one. The reply   *)
(* reaches s in the same step: one that is late does what a question that  *)
(* is late does.                                                           *)
IsMasterDownByAddr(s, t) ==
  LET q == ask[s][t]
      r == sentinel[t]
      seeks == q.addr = r.addr /\ q.runid # Nobody
      v == IF seeks THEN VoteLeader(r, q.epoch, q.runid) ELSE r
      down == r.sdown /\ q.addr = r.addr
      seen == ReceiveIsMasterDownReply(sentinel[s].view[t], down,
                                       IF seeks THEN v.leader ELSE Nobody, v.leaderEpoch)
  IN  /\ q # Idle
      /\ sentinel' = [sentinel EXCEPT ![t] = v, ![s].view[t] = seen]
      /\ FlushIf(t, v, v # r)
      /\ ask' = [ask EXCEPT ![s][t] = Idle]
      /\ cast' = cast \cup Votes(t, v)
      /\ UNCHANGED <<hellos, slaveof, role, budget, starts, elected>>

-----------------------------------------------------------------------------
(* Hello messages. *)

(* sentinelSendHello: to every instance and sentinel, here only what is    *)
(* news to one of them.                                                    *)
SendHello(s) ==
  LET r == sentinel[s]
  IN  /\ \E t \in Sentinels : sentinel[t].epoch < r.epoch \/ sentinel[t].config < r.config
      /\ hellos' = hellos \cup {[epoch |-> r.epoch, addr |-> CurrentMasterAddress(r), config |-> r.config]}
      /\ UNCHANGED <<sentinel, disk, ask, slaveof, role, budget, cast, starts, elected>>

(* sentinelProcessHelloMessage. A newer configuration of the same address  *)
(* is not written.                                                         *)
ProcessHello(s, h) ==
  LET r == sentinel[s]
      e == IF h.epoch > r.epoch THEN [r EXCEPT !.epoch = h.epoch] ELSE r
      c == IF h.config > r.config THEN [e EXCEPT !.config = h.config] ELSE e
      n == IF h.config > r.config /\ h.addr # r.addr THEN ResetMasterAndChangeAddress(c, h.addr) ELSE c
  IN  /\ Become(s, n)
      /\ IF n.addr # r.addr THEN Flush(s, n) ELSE FlushIf(s, e, e # r)

ReceiveHello(s, h) ==
  /\ ProcessHello(s, h)
  /\ sentinel' # sentinel
  /\ UNCHANGED <<ask, hellos, slaveof, role, budget, cast, starts, elected>>

-----------------------------------------------------------------------------
(* The instances. *)

(* An instance runs the SLAVEOF transaction a sentinel sent it. *)
SlaveOf(c) ==
  /\ role' = [role EXCEPT ![c[1]] = c[2]]
  /\ slaveof' = slaveof \ {c}
  /\ UNCHANGED <<sentinel, disk, ask, hellos, budget, cast, starts, elected>>

Spend(what) == budget[what] > 0 /\ budget' = [budget EXCEPT ![what] = @ - 1]

(* sentinelMasterLooksSane; which role the master last reported is left    *)
(* open.                                                                   *)
LooksSane(r) == ~r.sdown

(* The promoted slave has become a master. *)
Promotion(r) == [r EXCEPT !.state = "RECONF_SLAVES", !.config = r.fepoch]

(* sentinelRefreshInstanceInfo for slave i. *)
RefreshSlaveInfo(s, i) ==
  LET r == sentinel[s]
      awaited == r.state = "WAIT_PROMOTION" /\ r.promoted = i
      fix == /\ LooksSane(r)
             /\ IF role[i] = Nobody THEN r.promoted # i ELSE role[i] # r.addr
      progress == IF r.reconf[i] \in {"sent", "inprog"} /\ role[i] = r.promoted
                  THEN {"inprog", "done"} ELSE {r.reconf[i]}
  IN  /\ i \in Slaves(r)
      /\ \/ /\ role[i] = Nobody /\ awaited
            /\ Become(s, Promotion(r)) /\ Flush(s, Promotion(r))
            /\ UNCHANGED <<slaveof, budget>>
         \/ /\ fix /\ ~(role[i] = Nobody /\ awaited)
            /\ Spend("fix")
            /\ slaveof' = slaveof \cup {<<i, r.addr>>}
            /\ UNCHANGED <<sentinel, disk>>
         \/ /\ role[i] # Nobody
            /\ \E p \in progress : Become(s, [r EXCEPT !.reconf[i] = p])
            /\ UNCHANGED <<disk, slaveof, budget>>
      /\ UNCHANGED <<ask, hellos, role, cast, starts, elected>>

-----------------------------------------------------------------------------
(* What else happens. *)

(* SENTINEL FAILOVER: nobody is asked, and the epoch is not yet written. *)
FailoverCommand(s) ==
  /\ Spend("forced")
  /\ sentinel[s].state = "NONE"
  /\ Become(s, [StartFailover(sentinel[s]) EXCEPT !.forced = TRUE])
  /\ UNCHANGED <<disk, ask, hellos, slaveof, role, cast, starts, elected>>

(* The failover of another master the sentinels monitor: current_epoch is  *)
(* one for all of them.                                                    *)
FailoverElsewhere(s) ==
  /\ Spend("elsewhere")
  /\ LET r == [sentinel[s] EXCEPT !.epoch = @ + 1] IN Become(s, r) /\ Flush(s, r)
  /\ UNCHANGED <<ask, hellos, slaveof, role, cast, starts, elected>>

(* A sentinel comes back with what is in its file: the epoch of its last   *)
(* vote, not whom it was for.                                              *)
Loaded(d) ==
  [epoch |-> d.epoch, addr |-> d.addr, config |-> d.config, leader |-> Nobody,
   leaderEpoch |-> d.leaderEpoch, sdown |-> FALSE,
   state |-> "NONE", fepoch |-> 0, forced |-> FALSE, promoted |-> Nobody,
   reconf |-> [i \in Instances |-> "none"], view |-> [t \in Sentinels |-> NoView]]

Restart(s) ==
  /\ Spend("restart")
  /\ Become(s, Loaded(disk[s]))
  /\ ask' = [ask EXCEPT ![s] = [t \in Sentinels |-> Idle]]
  /\ UNCHANGED <<disk, hellos, slaveof, role, cast, starts, elected>>

(* The master answers s again. *)
Recovers(s) ==
  /\ Spend("recover")
  /\ sentinel[s].sdown
  /\ Become(s, [sentinel[s] EXCEPT !.sdown = FALSE])
  /\ UNCHANGED <<disk, ask, hellos, slaveof, role, cast, starts, elected>>

(* The link from s to t breaks, or t is silent for so long that what it    *)
(* said is forgotten.                                                      *)
Silence(s, t) ==
  /\ Spend("drop")
  /\ ask[s][t] # Idle
  /\ ask' = [ask EXCEPT ![s][t] = Idle]
  /\ Become(s, [sentinel[s] EXCEPT !.view[t] = [@ EXCEPT !.down = FALSE, !.leader = Nobody]])
  /\ UNCHANGED <<disk, hellos, slaveof, role, cast, starts, elected>>

-----------------------------------------------------------------------------
Init ==
  /\ disk = [s \in Sentinels |-> [epoch |-> 0, addr |-> First, config |-> 0, leaderEpoch |-> 0]]
  /\ \E c \in Scenarios :
       /\ budget = c.budget /\ starts = c.starts
       /\ sentinel = [s \in Sentinels |->
            [Loaded(disk[s]) EXCEPT !.sdown = c.down,
                                    !.view = [t \in Sentinels |-> [NoView EXCEPT !.down = c.down /\ s # t]]]]
  /\ ask = [s \in Sentinels |-> [t \in Sentinels |-> Idle]]
  /\ hellos = {} /\ slaveof = {} /\ cast = {} /\ elected = {}
  /\ role = [i \in Instances |-> IF i = First THEN Nobody ELSE First]

Next ==
  \/ \E s \in Sentinels :
       \/ Timer(s) \/ SendHello(s)
       \/ FailoverCommand(s) \/ FailoverElsewhere(s) \/ Restart(s) \/ Recovers(s)
       \/ \E t \in Sentinels : IsMasterDownByAddr(s, t) \/ Silence(s, t)
       \/ \E h \in hellos : ReceiveHello(s, h)
       \/ \E i \in Instances : RefreshSlaveInfo(s, i)
  \/ \E c \in slaveof : SlaveOf(c)

Spec == Init /\ [][Next]_vars

-----------------------------------------------------------------------------
(* Properties. *)

(* A sentinel votes once in an epoch, whatever it learns in between and    *)
(* although it may restart after the vote.                                 *)
OneVotePerEpoch == \A v, w \in cast : v[1] = w[1] /\ v[2] = w[2] => v[3] = w[3]

(* The leaders the vote decided on while their epoch was the current one.  *)
Regular(e) == ~e.forced /\ e.epoch = e.fepoch

(* No two sentinels lead the failovers of one epoch, if the votes were     *)
(* counted while that epoch was current.                                   *)
OneLeaderPerEpoch == \A e, f \in elected : Regular(e) /\ Regular(f) /\ e.fepoch = f.fepoch => e.who = f.who

(* The configurations in force: what a sentinel believes, or would after a *)
(* restart, and what is still on its way in hello messages.                *)
Configurations ==
  hellos \cup {[epoch |-> 0, addr |-> disk[s].addr, config |-> disk[s].config] : s \in Sentinels}
         \cup {[epoch |-> 0, addr |-> CurrentMasterAddress(sentinel[s]), config |-> sentinel[s].config]
                 : s \in Sentinels}

(* A configuration epoch names one master: as long as leaders were elected *)
(* for one epoch only, while it was current, all who hold the              *)
(* configuration of that epoch agree on the address.                       *)
OneMasterPerConfigEpoch ==
  \A c, d \in Configurations :
    c.config = d.config /\ (\A e \in elected : Regular(e) /\ e.fepoch = c.config) => c.addr = d.addr

(* The comment on sentinelGetLeader: a leader for an epoch has the         *)
(* majority of the sentinels, which reported it for the same epoch.        *)
LeaderHasMajority ==
  \A e \in elected : ~e.forced =>
    2 * Cardinality({s \in Sentinels : <<s, e.fepoch, e.who>> \in cast}) > Cardinality(Sentinels)

=============================================================================
