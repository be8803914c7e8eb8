---------------------------------- MODULE AOF ----------------------------------
(***************************************************************************)
(* The append only file of Redis (src/redis-stable/src/aof.c) and the part *)
(* of its background thread that syncs it (bio.c): the base and incremental*)
(* files listed by a manifest, flushing and syncing under both policies,   *)
(* the background rewrite, switching AOF on and off, and a restart after   *)
(* the process or the power failed, between any two steps on disk. The     *)
(* n-th write of the data set is written as the two halves 2n-1 and 2n, so *)
(* that a write can be torn.                                               *)
(***************************************************************************)
EXTENDS Integers, Sequences, FiniteSets, FiniteSetsExt, SequencesExt

CONSTANTS
  Scenarios,   \* appendfsync, and bounds on faults and on what the operator does: one chosen at the start
  MaxWrites,   \* bound on the writes in the data set
  Nobody

VARIABLES
  s,        \* the server
  disk,     \* the append only directory: its files and its manifest
  bio,      \* jobs of the background thread, in order
  child,    \* the rewriting child: how many writes its snapshot holds
  budget    \* what the chosen scenario still allows

vars == <<s, disk, bio, child, budget>>

Policy == budget.policy

(* The halves of the writes after the m-th, up to the n-th. *)
Halves(m, n) == [i \in 1 .. 2 * (n - m) |-> 2 * m + i]

Base(n) == <<"base", n>>
Incr(n) == <<"incr", n>>
Temp == <<"temp", 0>>

NoManifest == [base |-> 0, incr |-> <<>>, hist |-> {}, incrSeq |-> 0]

Down ==
  [up |-> FALSE, state |-> "off", fd |-> Nobody, buf |-> <<>>, size |-> 0, fsyncAt |-> 0,
   writeOK |-> TRUE, syncOK |-> TRUE, postponed |-> FALSE, am |-> NoManifest, scheduled |-> FALSE,
   db |-> 0, pending |-> 0, fsynced |-> 0, lapse |-> FALSE]

-----------------------------------------------------------------------------
(* Files *)

Exists(d, f) == f \in DOMAIN d.files

Put(d, f, data, synced) ==
  [d EXCEPT !.files = [g \in DOMAIN d.files \cup {f} |->
                         IF g = f THEN [data |-> data, synced |-> synced] ELSE d.files[g]]]

Unlink(d, fs) == [d EXCEPT !.files = [g \in DOMAIN d.files \ fs |-> d.files[g]]]

Rename(d, f, g) ==
  IF Exists(d, f) THEN Put(Unlink(d, {f}), g, d.files[f].data, d.files[f].synced) ELSE d

(* A write through a descriptor whose file was unlinked is lost. *)
Extend(d, f, data) ==
  IF Exists(d, f) THEN [d EXCEPT !.files[f].data = @ \o data] ELSE d

Sync(d, f) ==
  IF Exists(d, f) THEN [d EXCEPT !.files[f].synced = Len(d.files[f].data)] ELSE d

-----------------------------------------------------------------------------
(* Loading *)

Listed(m) == (IF m.base = 0 THEN <<>> ELSE <<Base(m.base)>>) \o [i \in DOMAIN m.incr |-> Incr(m.incr[i])]

(* The writes of a file that are there in full; loadSingleAppendOnlyFile   *)
(* fails on anything but a short last one.                                 *)
Whole(data) == {i \in 1 .. Len(data) \div 2 : data[2 * i] = data[2 * i - 1] + 1 /\ data[2 * i] % 2 = 0}

WellFormed(data) ==
  /\ Cardinality(Whole(data)) = Len(data) \div 2
  /\ Len(data) % 2 = 1 => Last(data) % 2 = 1

(* Every listed file is there, and only the last one may be short. *)
Loadable(d) ==
  LET fs == Listed(d.manifest)
  IN  \A i \in DOMAIN fs :
        /\ Exists(d, fs[i])
        /\ WellFormed(d.files[fs[i]].data)
        /\ i < Len(fs) => Len(d.files[fs[i]].data) % 2 = 0

Content(d) == FlattenSeq([i \in DOMAIN Listed(d.manifest) |-> d.files[Listed(d.manifest)[i]].data])

LoadAppendOnlyFiles(d) ==
  [i \in 1 .. Len(Content(d)) \div 2 |-> Content(d)[2 * i] \div 2]

(* Mutant: the offset of the last whole write is not kept. *)
Truncated_Start(d) ==
  IF Listed(d.manifest) = <<>> \/ Len(d.files[Last(Listed(d.manifest))].data) % 2 = 0 THEN d
  ELSE Put(d, Last(Listed(d.manifest)), <<>>, 0)

(* A last write that is short is cut off the last file. *)
Truncated(d) ==
  IF Listed(d.manifest) = <<>> THEN d
  ELSE LET f == Last(Listed(d.manifest))
           n == Len(d.files[f].data)
       IN  IF n % 2 = 0 THEN d ELSE Put(d, f, SubSeq(d.files[f].data, 1, n - 1), Min({n - 1, d.files[f].synced}))

-----------------------------------------------------------------------------
(* A handler is the set of its outcomes: the server, the directory, the    *)
(* jobs and the child it leaves behind, whether it succeeded, the fault    *)
(* that struck, and the directories it went through.                       *)

Now(r, sv, d, q) == [r EXCEPT !.s = sv, !.d = d, !.q = q, !.trail = @ \cup {d}]

Failing(r, what) == [r EXCEPT !.fault = what, !.ok = FALSE]

Start0 == [s |-> s, d |-> disk, q |-> bio, child |-> child, ok |-> TRUE, fault |-> "none", trail |-> {disk}]

(* At most one fault strikes one handler; nothing runs after an exit. *)
Then(rs, Rest(_)) == UNION {IF r.s.up THEN Rest(r) ELSE {r} : r \in rs}

Ignoring(rs) == {[r EXCEPT !.ok = TRUE] : r \in rs}

Exit(r, what) == [Failing(r, what) EXCEPT !.s = Down]

(* writeAofManifestFile fails before or after it renamed the new manifest. *)
PersistAofManifest(r, m) ==
  LET done == [r.d EXCEPT !.manifest = [base |-> m.base, incr |-> m.incr, hist |-> m.hist, incrSeq |-> 0]]
  IN  {Now(r, r.s, done, r.q)} \cup
      (IF r.fault = "none" THEN {Failing(r, "persist"), Failing(Now(r, r.s, done, r.q), "dirsync")} ELSE {})

-----------------------------------------------------------------------------
(* flushAppendOnlyFile *)

InProgress(q) == \E i \in DOMAIN q : q[i].kind = "fsync"

TryFsync(r) ==
  IF Policy = "always"
  THEN {Now(r, [r.s EXCEPT !.fsyncAt = r.s.size, !.pending = r.s.db], Sync(r.d, r.s.fd), r.q)} \cup
       (IF r.fault = "none" THEN {Exit(r, "fsync")} ELSE {})
  ELSE {r} \cup
       (IF InProgress(r.q) THEN {}
        ELSE {Now(r, [r.s EXCEPT !.fsyncAt = r.s.size], r.d,
                  Append(r.q, [kind |-> "fsync", file |-> r.s.fd, offset |-> r.s.db]))})

(* The write, cut short by a full disk; what was written is taken back     *)
(* unless ftruncate fails too.                                             *)
ShortWrites(r) ==
  LET v == [r.s EXCEPT !.writeOK = FALSE, !.postponed = FALSE]
      Torn(k) == [v EXCEPT !.size = @ + k, !.buf = SubSeq(@, k + 1, Len(@))]
  IN  IF r.fault # "none" THEN {}
      ELSE IF Policy = "always"
      THEN {Exit(r, "write")}
           \cup {Exit(Now(r, r.s, Extend(r.d, r.s.fd, SubSeq(r.s.buf, 1, k)), r.q), "torn") : k \in 1 .. Len(r.s.buf) - 1}
      ELSE {Failing(Now(r, v, r.d, r.q), "write")}
           \cup {Failing(Now(r, Torn(k), Extend(r.d, r.s.fd, SubSeq(r.s.buf, 1, k)), r.q), "torn")
                   : k \in 1 .. Len(r.s.buf) - 1}

WriteBuffer(r) ==
  LET v == [r.s EXCEPT !.buf = <<>>, !.size = @ + Len(r.s.buf), !.writeOK = TRUE, !.postponed = FALSE]
  IN  TryFsync(Now(r, v, Extend(r.d, r.s.fd, r.s.buf), r.q)) \cup ShortWrites(r)

(* Mutant: what the page cache holds counts as synced. *)
FlushAppendOnlyFile_Early(r, force) ==
  IF r.s.buf = <<>> THEN {[r EXCEPT !.s.pending = r.s.db]} ELSE WriteBuffer(r)

FlushAppendOnlyFile(r, force) ==
  IF r.s.buf = <<>>
  THEN IF r.s.fsyncAt = r.s.size
       THEN {IF InProgress(r.q) THEN r ELSE [r EXCEPT !.s.pending = r.s.db]}
       ELSE IF Policy = "always" \/ ~InProgress(r.q) THEN TryFsync(r) ELSE {r}
  ELSE IF Policy = "everysec" /\ ~force /\ InProgress(r.q)
  THEN {[r EXCEPT !.s.postponed = TRUE]} \cup (IF r.s.postponed THEN WriteBuffer(r) ELSE {})
  ELSE WriteBuffer(r)

(* Jobs in the order they were given; a descriptor the main thread closed  *)
(* counts as synced.                                                       *)
Drained(r) ==
  [r EXCEPT !.d = FoldSeq(LAMBDA j, d : Sync(d, j.file), r.d, r.q), !.q = <<>>]

-----------------------------------------------------------------------------
(* The rewrite *)

NewIncrName(v) == IF v.state = "wait" THEN Temp ELSE Incr(v.am.incrSeq + 1)

OpenNewIncrAofForAppend(r) ==
  LET n == r.s.am.incrSeq + 1
      f == NewIncrName(r.s)
      am == [r.s.am EXCEPT !.incr = Append(@, n), !.incrSeq = n]
      q == IF r.s.fd = Nobody THEN r.q
           ELSE Append(r.q, [kind |-> "close", file |-> r.s.fd, offset |-> r.s.db])
      opened == Now(r, r.s, Put(r.d, f, <<>>, 0), r.q)
      v == [r.s EXCEPT !.fd = f, !.size = 0, !.fsyncAt = 0]
  IN  IF r.s.state = "off" THEN {r}
      ELSE IF r.s.state = "wait" THEN {Now(opened, v, opened.d, q)}
      ELSE {IF p.ok THEN Now(p, [v EXCEPT !.am = am], p.d, q) ELSE p : p \in PersistAofManifest(opened, am)}

Fork(r) ==
  IF ~r.ok THEN {r}
  ELSE LET w == IF r.s.state = "wait"
                THEN [Drained(r) EXCEPT !.s.pending = r.s.db, !.s.fsynced = 0] ELSE r
       IN  {[w EXCEPT !.child = r.s.db, !.s.scheduled = FALSE]} \cup
           (IF r.fault = "none" THEN {Failing(w, "fork")} ELSE {})

RewriteAppendOnlyFileBackground(r) ==
  Then(Then(Ignoring(FlushAppendOnlyFile(r, TRUE)), OpenNewIncrAofForAppend), Fork)

(* Mutant: every incremental file is kept. *)
MarkRewrittenIncrAofAsHistory_Kept(am, fd) == am

(* With a descriptor open the last file is the one being written. *)
MarkRewrittenIncrAofAsHistory(am, fd) ==
  LET n == Len(am.incr)
      kept == IF fd = Nobody \/ n = 0 THEN <<>> ELSE <<am.incr[n]>>
  IN  [am EXCEPT !.incr = kept,
                 !.hist = @ \cup {Incr(am.incr[i]) : i \in 1 .. n - Len(kept)}]

(* The names are removed first, then the manifest that listed them. *)
AofDelHistoryFiles(r) ==
  IF r.s.am.hist = {} THEN {r}
  ELSE LET am == [r.s.am EXCEPT !.hist = {}]
       IN  Ignoring(PersistAofManifest(Now(r, [r.s EXCEPT !.am = am], Unlink(r.d, r.s.am.hist), r.q), am))

(* Of backgroundRewriteDoneHandler: a rewrite for switching AOF on starts  *)
(* over.                                                                   *)
Cleanup(r) ==
  LET v == [r.s EXCEPT !.buf = <<>>, !.scheduled = TRUE]
  IN  IF r.s.state = "wait" THEN Now(r, v, Unlink(r.d, {Temp}), r.q) ELSE r

RewriteSucceeded(r) ==
  LET base == r.s.am.base + 1
      wait == r.s.state = "wait"
      n == r.s.am.incrSeq + 1
      am1 == [r.s.am EXCEPT !.base = base, !.hist = @ \cup (IF base = 1 THEN {} ELSE {Base(base - 1)})]
      am2 == IF wait THEN [am1 EXCEPT !.incr = Append(@, n), !.incrSeq = n] ELSE am1
      am == MarkRewrittenIncrAofAsHistory(am2, r.s.fd)
      named == Now(r, r.s, Put(r.d, Base(base), Halves(0, r.child), 2 * r.child), r.q)
      Follow(f) == IF wait /\ f = Temp THEN Incr(n) ELSE f
      moved == IF wait
               THEN Now(named, [r.s EXCEPT !.fd = Follow(@)], Rename(named.d, Temp, Incr(n)),
                        [i \in DOMAIN r.q |-> [r.q[i] EXCEPT !.file = Follow(@)]])
               ELSE named
      new == {Base(base)} \cup (IF wait THEN {Incr(n)} ELSE {})
      On(v) == IF wait THEN [v EXCEPT !.state = "on", !.fsynced = v.pending] ELSE v
  IN  UNION {IF p.ok
             THEN {[x EXCEPT !.s = On(@)] : x \in AofDelHistoryFiles([p EXCEPT !.s.am = am])}
             ELSE {Cleanup(Now(p, p.s, Unlink(p.d, new), p.q))}
               : p \in PersistAofManifest(moved, am)}

-----------------------------------------------------------------------------
(* Actions *)

Spend(what) == budget[what] > 0 /\ budget' = [budget EXCEPT ![what] = @ - 1]

Struck(r) == IF r.fault = "none" THEN UNCHANGED budget ELSE Spend(r.fault)

Become(r) ==
  /\ s' = r.s /\ disk' = r.d
  /\ bio' = IF r.s.up THEN r.q ELSE <<>>
  /\ child' = IF r.s.up THEN r.child ELSE Nobody

(* The process is killed after any of the steps of a handler on disk. *)
KilledWithin(rs) ==
  /\ Spend("kill")
  /\ \E r \in rs : r.fault = "none" /\ \E d \in r.trail : Become([r EXCEPT !.s = Down, !.d = d])

Run(rs) == KilledWithin(rs) \/ \E r \in rs : Become(r) /\ Struck(r)

Command(what, rs) ==
  LET b == [budget EXCEPT ![what] = @ - 1]
  IN  /\ budget[what] > 0
      /\ \/ KilledWithin(rs)
         \/ \E r \in rs : /\ Become(r)
                          /\ r.fault # "none" => b[r.fault] > 0
                          /\ budget' = IF r.fault = "none" THEN b ELSE [b EXCEPT ![r.fault] = @ - 1]

Up == s.up

(* A write is refused after an error of a write or of a sync. *)
Write ==
  /\ Up /\ s.db < MaxWrites
  /\ s.state = "off" \/ (s.writeOK /\ s.syncOK)
  /\ s' = [s EXCEPT !.db = @ + 1,
                    !.buf = IF s.state = "on" \/ (s.state = "wait" /\ child # Nobody)
                            THEN @ \o Halves(s.db, s.db + 1) ELSE @]
  /\ UNCHANGED <<disk, bio, child, budget>>

(* Also the flushes of serverCron, which the loop follows with this one. *)
BeforeSleep ==
  /\ Up /\ s.state # "off"
  /\ Run({IF r.s.state = "on" THEN [r EXCEPT !.s.fsynced = r.s.pending] ELSE r
            : r \in FlushAppendOnlyFile(Start0, FALSE)})

(* One job of the background thread. *)
BioProcessBackgroundJob ==
  /\ bio # <<>>
  /\ bio' = Tail(bio)
  /\ LET j == Head(bio)
     IN  \/ /\ disk' = Sync(disk, j.file)
            /\ s' = [s EXCEPT !.pending = j.offset, !.syncOK = TRUE]
            /\ UNCHANGED budget
         \/ /\ Spend("fsync")
            /\ s' = [s EXCEPT !.syncOK = FALSE, !.lapse = TRUE]
            /\ UNCHANGED disk
  /\ UNCHANGED child

BgrewriteaofCommand == Up /\ child = Nobody /\ Command("rewrite", RewriteAppendOnlyFileBackground(Start0))

StartScheduledRewrite ==
  /\ Up /\ child = Nobody /\ s.scheduled
  /\ Run(RewriteAppendOnlyFileBackground(Start0))

BackgroundRewriteDoneHandler ==
  /\ Up /\ child # Nobody
  /\ \/ Run({[r EXCEPT !.child = Nobody] : r \in RewriteSucceeded(Start0)})
     \/ Spend("child") /\ Become([Cleanup(Start0) EXCEPT !.child = Nobody])

(* A rewrite of a server without AOF is killed and another one started.    *)
StartAppendOnly ==
  /\ Up /\ s.state = "off"
  /\ Command("start",
       {IF r.ok THEN [r EXCEPT !.s.writeOK = TRUE, !.s.syncOK = TRUE] ELSE [r EXCEPT !.s.state = "off"]
          : r \in RewriteAppendOnlyFileBackground([Start0 EXCEPT !.s.state = "wait", !.child = Nobody])})

StopAppendOnly ==
  /\ Up /\ s.state # "off"
  /\ Command("stop",
       Then(Ignoring(FlushAppendOnlyFile(Start0, TRUE)), LAMBDA r :
         LET closed == Now(r, r.s, Sync(r.d, r.s.fd), r.q)
             told == IF r.s.state = "on" THEN Ignoring(PersistAofManifest(closed, r.s.am)) ELSE {closed}
         IN  {[x EXCEPT !.child = Nobody,
                        !.s.fd = Nobody, !.s.state = "off", !.s.scheduled = FALSE, !.s.size = 0,
                        !.s.fsyncAt = 0, !.s.fsynced = -1, !.s.pending = 0, !.s.buf = <<>>] : x \in told}))

(* prepareForShutdown refuses while the first AOF is written. *)
Shutdown ==
  /\ Up /\ ~(s.state = "wait" /\ child # Nobody)
  /\ Command("stop",
       IF s.state = "off" THEN {[Start0 EXCEPT !.s = Down]}
       ELSE {[r EXCEPT !.s = Down, !.d = Sync(r.d, r.s.fd)] : r \in FlushAppendOnlyFile(Start0, TRUE)})

Kill == Up /\ Spend("kill") /\ Become([Start0 EXCEPT !.s = Down])

(* Of each file, any part that was not synced is lost. *)
PowerLoss ==
  /\ Spend("power")
  /\ \E cut \in [DOMAIN disk.files -> 0 .. 2 * MaxWrites] :
       /\ \A f \in DOMAIN cut : cut[f] \in disk.files[f].synced .. Len(disk.files[f].data)
       /\ disk' = [disk EXCEPT !.files =
                     [f \in DOMAIN cut |-> [data |-> SubSeq(disk.files[f].data, 1, cut[f]), synced |-> cut[f]]]]
  /\ s' = Down /\ bio' = <<>> /\ child' = Nobody

(* The manifest and the data are loaded, the last incremental file, or a   *)
(* new one, is opened for appending, and the history files are removed.    *)
AofOpenIfNeededOnServerStart(r) ==
  LET m == r.d.manifest
      seq == IF m.incr = <<>> THEN 0 ELSE Last(m.incr)
      fresh == m.base = 0 /\ m.incr = <<>>
      am == [m EXCEPT !.base = IF fresh THEN 1 ELSE @, !.incr = IF @ = <<>> THEN <<seq + 1>> ELSE @,
                      !.incrSeq = IF m.incr = <<>> THEN seq + 1 ELSE seq]
      based == IF fresh THEN Now(r, r.s, Put(r.d, Base(1), <<>>, 0), r.q) ELSE r
      f == Incr(Last(am.incr))
      opened == IF Exists(based.d, f) THEN based ELSE Now(based, based.s, Put(based.d, f, <<>>, 0), based.q)
      told == Now(opened, opened.s, [opened.d EXCEPT !.manifest = [am EXCEPT !.incrSeq = 0]], opened.q)
      n == Len(told.d.files[f].data)
      db == Len(LoadAppendOnlyFiles(r.d))
  IN  [told EXCEPT !.s = [Down EXCEPT !.up = TRUE, !.state = "on", !.fd = f, !.am = am, !.size = n,
                                      !.fsyncAt = n, !.db = db,
                                      !.lapse = \E g \in DOMAIN r.d.files :
                                                     r.d.files[g].synced < Len(r.d.files[g].data)]]

Start ==
  /\ ~Up /\ Loadable(disk)
  /\ Run(AofDelHistoryFiles(AofOpenIfNeededOnServerStart([Start0 EXCEPT !.d = Truncated(disk)])))

-----------------------------------------------------------------------------
Init ==
  /\ s = Down
  /\ disk = [files |-> <<>>, manifest |-> NoManifest]
  /\ bio = <<>> /\ child = Nobody
  /\ budget \in Scenarios

Next ==
  \/ Write \/ BeforeSleep \/ BioProcessBackgroundJob
  \/ BgrewriteaofCommand \/ StartScheduledRewrite \/ BackgroundRewriteDoneHandler
  \/ StartAppendOnly \/ StopAppendOnly \/ Shutdown \/ Kill \/ PowerLoss \/ Start

Spec == Init /\ [][Next]_vars

-----------------------------------------------------------------------------
(* Properties. *)

(* A restart never refuses the files, and loads the first writes of the    *)
(* data set, each once, and nothing else, wherever the process stopped:    *)
(* within a rewrite's last steps, while AOF is off, or while it is being   *)
(* set up. While AOF is on, the files in the manifest's order and the      *)
(* buffer after them are all the writes, whatever rewrites succeeded,      *)
(* failed or are under way.                                                *)
RecoversPrefix ==
  /\ Loadable(disk)
  /\ \A i \in DOMAIN LoadAppendOnlyFiles(disk) : LoadAppendOnlyFiles(disk)[i] = i
  /\ s.up => Len(LoadAppendOnlyFiles(disk)) <= s.db
  /\ s.up /\ s.state = "on" => Content(disk) \o s.buf = Halves(0, s.db)

(* What a restart would load is never forgotten later, short of a loss of  *)
(* power: no rewrite and no switch of AOF removes files too early.         *)
NothingForgotten ==
  [][~PowerLoss => Len(LoadAppendOnlyFiles(disk')) >= Len(LoadAppendOnlyFiles(disk))]_vars

OnlySynced(d) ==
  [d EXCEPT !.files = [f \in DOMAIN @ |-> [@[f] EXCEPT !.data = SubSeq(@, 1, d.files[f].synced)]]]

Claimed == s.up /\ s.state = "on" => s.fsynced <= Len(LoadAppendOnlyFiles(OnlySynced(disk)))

(* The writes that fsynced_reploff counts, which WAITAOF and a replica's   *)
(* acknowledgement report as synced, survive a loss of power: once the     *)
(* file a rewrite closed has been synced, unless a sync failed, or the     *)
(* server started on files that were not synced.                           *)
ClaimsDurable ==
  (\A i \in DOMAIN bio : bio[i].kind # "close") /\ ~s.lapse => Claimed

================================================================================
