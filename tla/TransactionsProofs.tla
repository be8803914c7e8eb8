--------------------------- MODULE TransactionsProofs ---------------------------
(***************************************************************************)
(* EXEC is exact, for every set of clients, databases and keys.            *)
(*                                                                         *)
(* The invariant (IInv) relates three accounts of a change: the flag       *)
(* CLIENT_DIRTY_CAS, the entries in the lists of watchers, with what each  *)
(* saw of an expiry, and the ghost txChanged. A command is taken apart     *)
(* into the operations it calls; each has a lemma that says which clients  *)
(* it flags and which entries it leaves. The queue that EXEC calls has any *)
(* length, and so has a list of watchers: those loops are done by          *)
(* induction.                                                              *)
(***************************************************************************)
EXTENDS RedisCommands, Integers, Sequences, WellFoundedInduction, TLAPS

(* A leaf that needs arithmetic, or much of set theory, names its prover. *)
USE ZenonT(20)

(* Types. *)
Value == [version: Nat, expired: BOOLEAN]

Entry == [client: Clients, expired: BOOLEAN]

ClientState == [multi: BOOLEAN, dirtyCas: BOOLEAN, dirtyExec: BOOLEAN, queue: Seq(Tx!Places)]

Servers == [data: [Tx!Places -> Value], watched: [Tx!Places -> Seq(Entry)],
            client: [Clients -> ClientState], writes: Nat]

TxTypeOK ==
  /\ Tx!Server \in Servers
  /\ txSwapped \in BOOLEAN
  /\ txSent \in [Clients -> Seq(Tx!Places)]
  /\ txChanged \in [Clients -> BOOLEAN]

(* The entries of the list of a key, and an entry. *)
Entries(s, p) == {s.watched[p][i] : i \in DOMAIN s.watched[p]}

Mark(c, expired) == [client |-> c, expired |-> expired]

(* Every write has a number of its own. *)
Numbered(s) ==
  \A p \in Tx!Places :
    /\ s.data[p].version <= s.writes
    /\ s.data[p].expired => s.data[p].version # 0
    /\ \A q \in Tx!Places : s.data[p].version = s.data[q].version => p = q \/ s.data[p].version = 0

(* On a master an entry is flagged only as long as the key is expired. *)
FlagsCurrent(s) ==
  \A p \in Tx!Places : \A w \in Entries(s, p) : w.expired => s.data[p].expired

(* On a replica, and after SWAPDB, a change may go unnoticed. *)
Orderly == txRole = "master" /\ ~txSwapped

Sound(s) == s \in Servers /\ Numbered(s) /\ (Orderly => FlagsCurrent(s))

(* A queue is complete unless its transaction is flagged. *)
QueuedFor(x, commands) ==
  /\ x.dirtyCas \/ x.dirtyExec \/ x.queue = commands
  /\ ~x.multi => x.queue = <<>> /\ ~x.dirtyExec /\ commands = <<>>

Queued == \A c \in Clients : QueuedFor(txClient[c], txSent[c])

(* A client is flagged only after a change, and on a master (orderly) a    *)
(* change has flagged the client, or is an expiry that EXEC will still     *)
(* find. The second clause is what makes the first inductive: the deletion *)
(* of an expired key flags whoever had not seen it expired.                *)
NoticedBy(s, orderly, c, change) ==
  /\ s.client[c].dirtyCas => change
  /\ \A p \in Tx!Places : s.data[p].expired /\ Mark(c, FALSE) \in Entries(s, p) => change
  /\ orderly /\ change => s.client[c].dirtyCas \/ Tx!IsWatchedKeyExpired(s, c)

Noticed == \A c \in Clients : NoticedBy(Tx!Server, Orderly, c, txChanged[c])

(* The inductive invariant. *)
IInv == TxTypeOK /\ Sound(Tx!Server) /\ Queued /\ Noticed

-----------------------------------------------------------------------------
(* Induction *)

(* A nonempty set of natural numbers has a least element. *)
LEMMA Least ==
  ASSUME NEW T, T \subseteq Nat, T # {}
  PROVE  \E n \in T : \A m \in T : n <= m
<1> DEFINE R == OpToRel(<, Nat)
<1>0. R = {ss \in Nat \X Nat : ss[1] < ss[2]}
  BY DEF OpToRel
<1>1. IsWellFoundedOn(R, Nat)
  BY NatLessThanWellFounded
<1> HIDE DEF R
<1>2. PICK n \in T : \A m \in T : ~(<<m, n>> \in R)
  BY <1>1, WFMin
<1>3. ASSUME NEW m \in Nat, NEW k \in Nat, m < k PROVE <<m, k>> \in R
  BY <1>0, <1>3
<1>4. ASSUME NEW m \in T PROVE n <= m
  <2>1. n \in Nat /\ m \in Nat
    OBVIOUS
  <2>2. ~(<<m, n>> \in R)
    BY <1>2
  <2>3. ~(m < n)
    BY <2>1, <2>2, <1>3
  <2> QED BY SMTT(30), <2>1, <2>3
<1> QED BY <1>4

(* A set with 0, and with the successor of each of its numbers, has all. *)
LEMMA Induction ==
  ASSUME NEW S, 0 \in S, \A n \in Nat : n \in S => n + 1 \in S
  PROVE  \A n \in Nat : n \in S
<1> SUFFICES ASSUME NEW k \in Nat, k \notin S PROVE FALSE
  OBVIOUS
<1> DEFINE T == Nat \ S
<1>1. T \subseteq Nat /\ T # {}
  OBVIOUS
<1> HIDE DEF T
<1>2. PICK n \in T : \A m \in T : n <= m
  BY <1>1, Least
<1>3. n \in Nat /\ n \notin S /\ n # 0
  BY <1>2 DEF T
<1>4. n - 1 \in Nat /\ n - 1 \in S
  <2>1. n - 1 \in Nat /\ ~(n <= n - 1)
    BY SMTT(30), <1>3
  <2>2. n - 1 \notin T
    BY <1>2, <2>1
  <2> QED BY <2>1, <2>2 DEF T
<1>5. (n - 1) + 1 = n
  BY SMTT(30), <1>3
<1> QED BY <1>3, <1>4, <1>5

(* A loop of n steps over D: the i-th one takes d to g[<<i, d>>]. *)
Loops(n, D) == [(1 .. n) \X D -> D]

IsRun(f, n, D, b, g) ==
  f \in [0 .. n -> D] /\ f[0] = b /\ \A i \in 1 .. n : f[i] = g[<<i, f[i - 1]>>]

(* A loop that stays in D runs to its end. *)
LEMMA Iterates ==
  ASSUME NEW D, NEW b \in D, NEW n \in Nat, NEW g \in Loops(n, D)
  PROVE  \E f : IsRun(f, n, D, b, g)
<1> USE DEF Loops
<1> DEFINE Run(k, f) == f \in [0 .. k -> D] /\ f[0] = b /\ \A i \in 1 .. k : f[i] = g[<<i, f[i - 1]>>]
           S == {k \in Nat : k <= n => \E f : Run(k, f)}
<1>1. 0 \in S
  <2>1. Run(0, [i \in 0 .. 0 |-> b])
    BY SMTT(30)
  <2> QED BY <2>1
<1>2. ASSUME NEW k \in Nat, k \in S, k + 1 <= n PROVE \E f : Run(k + 1, f)
  <2>1. PICK f : Run(k, f)
    BY SMTT(30), <1>2
  <2> DEFINE h == [i \in 0 .. k + 1 |-> IF i = k + 1 THEN g[<<k + 1, f[k]>>] ELSE f[i]]
  <2>2. k + 1 \in 1 .. n /\ f[k] \in D
    BY SMTT(30), <1>2, <2>1
  <2>3. g[<<k + 1, f[k]>>] \in D
    BY <2>2
  <2>4. h \in [0 .. k + 1 -> D]
    BY SMTT(30), <2>1, <2>3
  <2>5. h[0] = b
    BY SMTT(30), <2>1
  <2>6. ASSUME NEW i \in 1 .. k + 1 PROVE h[i] = g[<<i, h[i - 1]>>]
    <3>1. CASE i = k + 1
      <4>1. h[i] = g[<<k + 1, f[k]>>] /\ h[i - 1] = f[k]
        BY SMTT(30), <3>1
      <4> QED BY <4>1, <3>1
    <3>2. CASE i # k + 1
      <4>1. i \in 1 .. k /\ i - 1 \in 0 .. k
        BY SMTT(30), <3>2
      <4>2. h[i] = f[i] /\ h[i - 1] = f[i - 1]
        BY SMTT(30), <4>1
      <4> QED BY <4>1, <4>2, <2>1
    <3> QED BY <3>1, <3>2
  <2> HIDE DEF h
  <2>7. Run(k + 1, h)
    BY <2>4, <2>5, <2>6
  <2> QED BY <2>7
<1> HIDE DEF Run
<1>3. \A k \in Nat : k \in S => k + 1 \in S
  BY SMTT(30), <1>2
<1> HIDE DEF S
<1>4. n \in S
  BY <1>1, <1>3, Induction
<1>5. PICK f : Run(n, f)
  BY SMTT(30), <1>4 DEF S
<1> QED BY <1>5 DEF Run, IsRun

-----------------------------------------------------------------------------
(* The lists of watchers *)

(* What unwatchAllKeys leaves in a list: the entries of other clients, all *)
(* of them.                                                                *)
LEMMA OthersKeep ==
  ASSUME NEW list \in Seq(Entry), NEW cs
  PROVE  /\ Tx!Others(list, cs) \in Seq(Entry)
         /\ \A w : (\E i \in DOMAIN Tx!Others(list, cs) : Tx!Others(list, cs)[i] = w)
                     <=> (w.client \notin cs /\ \E i \in DOMAIN list : list[i] = w)
<1> DEFINE n == Len(list)
           F(f) == f = [i \in 0 .. n |->
                         IF i = 0 THEN <<>>
                         ELSE IF list[i].client \in cs THEN f[i - 1] ELSE Append(f[i - 1], list[i])]
           g == [x \in (1 .. n) \X Seq(Entry) |->
                   IF list[x[1]].client \in cs THEN x[2] ELSE Append(x[2], list[x[1]])]
           k == CHOOSE f : F(f)
<1>1. n \in Nat /\ DOMAIN list = 1 .. n /\ \A i \in 1 .. n : list[i] \in Entry
  BY SMTT(30)
<1> HIDE DEF n
<1>2. g \in [(1 .. n) \X Seq(Entry) -> Seq(Entry)]
  BY SMTT(30), <1>1
<1>3. ASSUME NEW i \in 1 .. n, NEW s \in Seq(Entry)
      PROVE  g[<<i, s>>] = IF list[i].client \in cs THEN s ELSE Append(s, list[i])
  OBVIOUS
<1> HIDE DEF g
<1>4. PICK f \in [0 .. n -> Seq(Entry)] : f[0] = <<>> /\ \A i \in 1 .. n : f[i] = g[<<i, f[i - 1]>>]
  <2> DEFINE D == Seq(Entry)
             b == <<>>
  <2>1. b \in D /\ n \in Nat
    BY SMTT(30), <1>1
  <2>2. g \in Loops(n, D)
    BY <1>2 DEF Loops
  <2> HIDE DEF D, b
  <2>3. \E f : IsRun(f, n, D, b, g)
    BY <2>1, <2>2, Iterates
  <2> QED BY <2>3 DEF D, b, IsRun
<1>5. ASSUME NEW i \in 1 .. n
      PROVE  /\ i - 1 \in 0 .. n
             /\ f[i - 1] \in Seq(Entry)
             /\ f[i] = IF list[i].client \in cs THEN f[i - 1] ELSE Append(f[i - 1], list[i])
  <2>1. i - 1 \in 0 .. n
    BY SMTT(30), <1>1
  <2>2. f[i - 1] \in Seq(Entry)
    BY <2>1
  <2> QED BY <1>3, <1>4, <2>1, <2>2
<1>6. F(f)
  <2> DEFINE G == [i \in 0 .. n |->
                     IF i = 0 THEN <<>>
                     ELSE IF list[i].client \in cs THEN f[i - 1] ELSE Append(f[i - 1], list[i])]
  <2>1. ASSUME NEW i \in 0 .. n PROVE f[i] = G[i]
    <3>1. CASE i = 0
      BY <1>4, <3>1
    <3>2. CASE i # 0
      <4>1. i \in 1 .. n
        BY SMTT(30), <1>1, <3>2
      <4> QED BY <3>2, <4>1, <1>5
    <3> QED BY <3>1, <3>2
  <2> QED BY <2>1
<1>7. F(k)
  <2> HIDE DEF F
  <2> QED BY <1>6
<1>8. Tx!Others(list, cs) = k[n]
  BY DEF Tx!Others, n
<1> HIDE DEF k
<1>9. /\ k[0] = <<>>
      /\ \A i \in 1 .. n : k[i] = IF list[i].client \in cs THEN k[i - 1] ELSE Append(k[i - 1], list[i])
  <2>1. 0 \in 0 .. n /\ \A i \in 1 .. n : i \in 0 .. n /\ i # 0
    BY SMTT(30), <1>1
  <2> QED BY <1>7, <2>1, Zenon
<1> HIDE DEF F
<1> DEFINE Kept(i, w) == w.client \notin cs /\ \E j \in 1 .. i : list[j] = w
           In(s, w) == \E j \in 1 .. Len(s) : s[j] = w
           S == {i \in Nat : i <= n => k[i] \in Seq(Entry) /\ \A w : In(k[i], w) <=> Kept(i, w)}
<1>10. 0 \in S
  <2>1. k[0] \in Seq(Entry) /\ Len(k[0]) = 0
    BY SMTT(30), <1>9
  <2>2. ASSUME NEW w PROVE ~In(k[0], w) /\ ~Kept(0, w)
    BY SMTT(30), <2>1
  <2> QED BY <2>1, <2>2
<1>11. ASSUME NEW i \in Nat, i \in S, i + 1 <= n
       PROVE  k[i + 1] \in Seq(Entry) /\ \A w : In(k[i + 1], w) <=> Kept(i + 1, w)
  <2>1. i + 1 \in 1 .. n /\ (i + 1) - 1 = i
    BY SMTT(30), <1>1, <1>11
  <2>2. k[i] \in Seq(Entry) /\ \A w : In(k[i], w) <=> Kept(i, w)
    BY SMTT(30), <1>11, <1>1
  <2>3. ASSUME NEW w PROVE Kept(i + 1, w) <=> Kept(i, w) \/ (w.client \notin cs /\ w = list[i + 1])
    BY SMTT(30), <2>1
  <2>4. CASE list[i + 1].client \in cs
    <3>1. k[i + 1] = k[i]
      BY <1>9, <2>1, <2>4
    <3> HIDE DEF In, Kept
    <3> QED BY <3>1, <2>2, <2>3, <2>4
  <2>5. CASE list[i + 1].client \notin cs
    <3>1. k[i + 1] = Append(k[i], list[i + 1]) /\ list[i + 1] \in Entry
      BY <1>1, <1>9, <2>1, <2>5
    <3> DEFINE m == Len(k[i])
    <3>2. /\ k[i + 1] \in Seq(Entry) /\ m \in Nat /\ Len(k[i + 1]) = m + 1
          /\ k[i + 1][m + 1] = list[i + 1]
          /\ \A j \in 1 .. m : k[i + 1][j] = k[i][j]
      BY SMTT(30), <3>1, <2>2
    <3> HIDE DEF m
    <3>3. ASSUME NEW w PROVE In(k[i + 1], w) <=> In(k[i], w) \/ w = list[i + 1]
      <4>1. In(k[i + 1], w) <=> (\E j \in 1 .. m : k[i + 1][j] = w) \/ k[i + 1][m + 1] = w
        BY SMTT(30), <3>2
      <4>2. In(k[i], w) <=> \E j \in 1 .. m : k[i + 1][j] = w
        BY <3>2 DEF m
      <4> QED BY <4>1, <4>2, <3>2
    <3> HIDE DEF In, Kept
    <3> QED BY <2>2, <2>3, <2>5, <3>2, <3>3
  <2> QED BY <2>4, <2>5
<1>12. \A i \in Nat : i \in S => i + 1 \in S
  <2> HIDE DEF In, Kept
  <2> QED BY SMTT(30), <1>11
<1>13. n \in S
  <2> HIDE DEF S
  <2> QED BY <1>1, <1>10, <1>12, Induction
<1>14. k[n] \in Seq(Entry) /\ \A w : In(k[n], w) <=> Kept(n, w)
  <2> HIDE DEF In, Kept
  <2> QED BY SMTT(30), <1>13, <1>1
<1>15. DOMAIN k[n] = 1 .. Len(k[n])
  BY SMTT(30), <1>14
<1> QED BY <1>14, <1>15, <1>8, <1>1, Zenon

(* The watchers of a key are the clients of its entries. *)
LEMMA EntriesType ==
  ASSUME NEW s \in Servers, NEW p \in Tx!Places
  PROVE  /\ Entries(s, p) \subseteq Entry
         /\ \A c : c \in Tx!Watchers(s, p) <=> \E w \in Entries(s, p) : w.client = c
         /\ \A w \in Entries(s, p) : w.client \in Clients /\ w = Mark(w.client, w.expired)
                                     /\ w.expired \in BOOLEAN
<1>1. s.watched[p] \in Seq(Entry)
  BY DEF Servers
<1>2. \A i \in DOMAIN s.watched[p] : s.watched[p][i] \in Entry
  BY SMTT(30), <1>1
<1>3. \A w \in Entry : w.client \in Clients /\ w = Mark(w.client, w.expired) /\ w.expired \in BOOLEAN
  BY SMTT(30) DEF Entry, Mark
<1>4. Entries(s, p) \subseteq Entry
  BY <1>2 DEF Entries
<1>5. \A c : c \in Tx!Watchers(s, p) <=> \E w \in Entries(s, p) : w.client = c
  BY DEF Tx!Watchers, Entries
<1> QED BY <1>3, <1>4, <1>5

(* unwatchAllKeys takes the entries of the clients away everywhere, and    *)
(* changes nothing else.                                                   *)
LEMMA UnwatchKeeps ==
  ASSUME NEW s \in Servers, NEW cs
  PROVE  LET u == Tx!UnwatchAllKeys(s, cs)
         IN  /\ u \in Servers /\ u.data = s.data /\ u.client = s.client /\ u.writes = s.writes
             /\ \A p \in Tx!Places : Entries(u, p) = {w \in Entries(s, p) : w.client \notin cs}
<1> DEFINE u == Tx!UnwatchAllKeys(s, cs)
<1>1. /\ u.data = s.data /\ u.client = s.client /\ u.writes = s.writes
      /\ u.watched = [p \in Tx!Places |-> Tx!Others(s.watched[p], cs)]
      /\ u = [data |-> u.data, watched |-> u.watched, client |-> u.client, writes |-> u.writes]
  BY SMTT(30) DEF Tx!UnwatchAllKeys, Servers
<1>2. ASSUME NEW p \in Tx!Places
      PROVE  /\ u.watched[p] = Tx!Others(s.watched[p], cs)
             /\ s.watched[p] \in Seq(Entry)
  BY <1>1 DEF Servers
<1> HIDE DEF u
<1>3. \A p \in Tx!Places : u.watched[p] \in Seq(Entry)
  BY SMTT(30), <1>2, OthersKeep
<1>4. u.watched \in [Tx!Places -> Seq(Entry)]
  BY <1>1, <1>3
<1>5. u \in Servers
  BY <1>1, <1>4 DEF Servers
<1>6. ASSUME NEW p \in Tx!Places
      PROVE  Entries(u, p) = {w \in Entries(s, p) : w.client \notin cs}
  <2> DEFINE l == s.watched[p]
             o == Tx!Others(l, cs)
  <2>1. \A w : (\E i \in DOMAIN o : o[i] = w) <=> (w.client \notin cs /\ \E i \in DOMAIN l : l[i] = w)
    BY SMTT(30), <1>2, OthersKeep
  <2>2. o = u.watched[p]
    BY <1>2
  <2> HIDE DEF o
  <2> QED BY <2>1, <2>2 DEF Entries
<1> QED BY <1>1, <1>5, <1>6 DEF u

(* Flagging clients CLIENT_DIRTY_CAS changes no key and no list. *)
LEMMA MarkDirtyType ==
  ASSUME NEW s \in Servers, NEW cs
  PROVE  LET m == Tx!MarkDirty(s, cs)
         IN  /\ m \in Servers /\ m.data = s.data /\ m.watched = s.watched /\ m.writes = s.writes
             /\ \A c \in Clients : m.client[c] = IF c \in cs THEN [s.client[c] EXCEPT !.dirtyCas = TRUE]
                                                 ELSE s.client[c]
<1> DEFINE m == Tx!MarkDirty(s, cs)
<1>1. /\ m.data = s.data /\ m.watched = s.watched /\ m.writes = s.writes
      /\ m.client = [c \in Clients |-> IF c \in cs THEN [s.client[c] EXCEPT !.dirtyCas = TRUE]
                                       ELSE s.client[c]]
      /\ m = [data |-> m.data, watched |-> m.watched, client |-> m.client, writes |-> m.writes]
  <2> DEFINE new == [c \in Clients |-> IF c \in cs THEN [s.client[c] EXCEPT !.dirtyCas = TRUE]
                                       ELSE s.client[c]]
  <2>1. m = [s EXCEPT !.client = new]
    BY DEF Tx!MarkDirty
  <2> HIDE DEF m, new
  <2>2. /\ m.data = s.data /\ m.watched = s.watched /\ m.writes = s.writes /\ m.client = new
        /\ m = [data |-> m.data, watched |-> m.watched, client |-> m.client, writes |-> m.writes]
    BY <2>1 DEF Servers
  <2> QED BY <2>2 DEF new
<1> HIDE DEF m
<1>2. \A x \in ClientState : [x EXCEPT !.dirtyCas = TRUE] \in ClientState
  BY DEF ClientState
<1>3. s.client \in [Clients -> ClientState]
  BY DEF Servers
<1>4. m.client \in [Clients -> ClientState]
  BY <1>1, <1>2, <1>3
<1>5. m \in Servers
  BY <1>1, <1>4 DEF Servers
<1> QED BY <1>1, <1>5 DEF m

(* touchWatchedKey flags some clients, of entries that are not flagged as  *)
(* expired, and drops all entries of these clients, at every place; the    *)
(* other entries stay, those at p perhaps unflagged. It flags the clients  *)
(* of all unflagged entries if the key is gone or no entry is flagged.     *)
TouchedAt(s, p, t, cs) ==
  /\ t \in Servers /\ t.data = s.data /\ t.writes = s.writes
  /\ \A c \in Clients : t.client[c] = IF c \in cs THEN [s.client[c] EXCEPT !.dirtyCas = TRUE]
                                      ELSE s.client[c]
  /\ \A c \in cs : Mark(c, FALSE) \in Entries(s, p)
  /\ \A q \in Tx!Places : q # p => Entries(t, q) = {w \in Entries(s, q) : w.client \notin cs}
  /\ \A c : c \in Tx!Watchers(t, p) <=> c \in Tx!Watchers(s, p) /\ c \notin cs
  /\ ~Tx!Exists(s, p) \/ (\A w \in Entries(s, p) : ~w.expired) =>
       /\ \A c : Mark(c, FALSE) \in Entries(s, p) => c \in cs
       /\ \A w \in Entries(t, p) : ~w.expired

(* touchWatchedKey flags the watchers that had not seen the key expired,   *)
(* and leaves no flagged entry behind on a key that is gone.               *)
LEMMA TouchFlags ==
  ASSUME NEW s \in Servers, NEW p \in Tx!Places
  PROVE  \E cs \in SUBSET Clients : TouchedAt(s, p, Tx!TouchWatchedKey(s, p), cs)
<1> DEFINE list == s.watched[p]
           reached == {i \in DOMAIN list : Tx!Exists(s, p) => \A j \in 1 .. i : ~list[j].expired}
           touched == {list[i].client : i \in {j \in reached : ~list[j].expired}}
           new == [i \in DOMAIN list |-> IF i \in reached THEN [list[i] EXCEPT !.expired = FALSE]
                                         ELSE list[i]]
           cleared == [s EXCEPT !.watched[p] = new]
           m == Tx!MarkDirty(cleared, touched)
           t == Tx!TouchWatchedKey(s, p)
<1>1. t = Tx!UnwatchAllKeys(m, touched)
  BY DEF Tx!TouchWatchedKey
<1>2. list \in Seq(Entry) /\ DOMAIN list = 1 .. Len(list) /\ Len(list) \in Nat
      /\ \A i \in DOMAIN list : list[i] \in Entry
  BY SMTT(30) DEF Servers
<1>3. reached \subseteq DOMAIN list
  OBVIOUS
<1>r. ASSUME NEW i \in DOMAIN list
      PROVE  i \in reached <=> (Tx!Exists(s, p) => \A j \in 1 .. i : ~list[j].expired)
  OBVIOUS
<1>t. /\ \A i \in reached : ~list[i].expired => list[i].client \in touched
      /\ \A c \in touched : \E i \in reached : ~list[i].expired /\ list[i].client = c
  OBVIOUS
<1> HIDE DEF reached, touched
<1>5. ASSUME NEW w \in Entry
      PROVE  /\ [w EXCEPT !.expired = FALSE] \in Entry
             /\ [w EXCEPT !.expired = FALSE].client = w.client
             /\ ~[w EXCEPT !.expired = FALSE].expired
             /\ w.expired \in BOOLEAN
  BY DEF Entry
<1>6. new \in Seq(Entry) /\ DOMAIN new = DOMAIN list
      /\ \A i \in DOMAIN list : /\ new[i].client = list[i].client
                                /\ i \in reached => ~new[i].expired
                                /\ i \notin reached => new[i] = list[i]
  <2>1. \A i \in DOMAIN list : new[i] \in Entry
    BY <1>2, <1>5
  <2>2. new \in [1 .. Len(list) -> Entry]
    BY <1>2, <2>1
  <2> QED BY SMTT(30), <1>2, <1>5, <2>2
<1> HIDE DEF new
<1>4. /\ cleared.data = s.data /\ cleared.client = s.client /\ cleared.writes = s.writes
      /\ cleared.watched = [s.watched EXCEPT ![p] = new]
      /\ cleared = [data |-> cleared.data, watched |-> cleared.watched, client |-> cleared.client,
                    writes |-> cleared.writes]
  <2> DEFINE nw == [s.watched EXCEPT ![p] = new]
  <2>1. cleared = [s EXCEPT !.watched = nw]
    OBVIOUS
  <2> HIDE DEF nw, cleared
  <2>2. /\ cleared.data = s.data /\ cleared.client = s.client /\ cleared.writes = s.writes
        /\ cleared.watched = nw
        /\ cleared = [data |-> cleared.data, watched |-> cleared.watched, client |-> cleared.client,
                      writes |-> cleared.writes]
    BY <2>1 DEF Servers
  <2> QED BY <2>2 DEF nw
<1> HIDE DEF cleared
<1>7. /\ s.watched \in [Tx!Places -> Seq(Entry)]
      /\ cleared.watched \in [Tx!Places -> Seq(Entry)]
      /\ cleared.watched[p] = new
      /\ \A q \in Tx!Places : q # p => cleared.watched[q] = s.watched[q]
  BY <1>4, <1>6 DEF Servers
<1>8. cleared \in Servers
  BY <1>4, <1>7 DEF Servers
<1>9. /\ m \in Servers /\ m.data = s.data /\ m.writes = s.writes /\ m.watched = cleared.watched
      /\ \A c \in Clients : m.client[c] = IF c \in touched THEN [s.client[c] EXCEPT !.dirtyCas = TRUE]
                                          ELSE s.client[c]
  BY SMTT(30), <1>4, <1>8, MarkDirtyType
<1> HIDE DEF m, t
<1>10. /\ t \in Servers /\ t.data = s.data /\ t.writes = s.writes /\ t.client = m.client
       /\ \A q \in Tx!Places : Entries(t, q) = {w \in Entries(m, q) : w.client \notin touched}
  BY SMTT(30), <1>1, <1>9, UnwatchKeeps
<1>11. \A q \in Tx!Places : q # p => Entries(m, q) = Entries(s, q)
  BY SMTT(30), <1>7, <1>9 DEF Entries
<1>12. /\ \A w : w \in Entries(m, p) <=> \E i \in DOMAIN list : w = new[i]
       /\ \A w : w \in Entries(s, p) <=> \E i \in DOMAIN list : w = list[i]
  BY SMTT(30), <1>6, <1>7, <1>9 DEF Entries
<1>13. touched \subseteq Clients /\ \A c \in touched : Mark(c, FALSE) \in Entries(s, p)
  <2> SUFFICES ASSUME NEW c \in touched PROVE c \in Clients /\ Mark(c, FALSE) \in Entries(s, p)
    OBVIOUS
  <2>1. PICK i \in DOMAIN list : ~list[i].expired /\ list[i].client = c
    BY <1>3, <1>t
  <2>2. list[i] = Mark(c, FALSE) /\ c \in Clients
    BY <1>2, <2>1 DEF Entry, Mark
  <2> QED BY <2>2, <1>12
<1>14. ASSUME NEW c PROVE c \in Tx!Watchers(t, p) <=> c \in Tx!Watchers(s, p) /\ c \notin touched
  <2>1. c \in Tx!Watchers(t, p) <=> \E w \in Entries(t, p) : w.client = c
    BY <1>10, EntriesType
  <2>2. c \in Tx!Watchers(s, p) <=> \E w \in Entries(s, p) : w.client = c
    BY EntriesType
  <2>3. (\E w \in Entries(s, p) : w.client = c) <=> (\E w \in Entries(m, p) : w.client = c)
    BY SMTT(30), <1>6, <1>12
  <2> QED BY <1>10, <2>1, <2>2, <2>3
<1>15. ASSUME ~Tx!Exists(s, p) \/ \A w \in Entries(s, p) : ~w.expired
       PROVE  /\ \A c : Mark(c, FALSE) \in Entries(s, p) => c \in touched
              /\ \A w \in Entries(t, p) : ~w.expired
  <2>1. \A i \in DOMAIN list : i \in reached
    <3>1. \A i \in DOMAIN list : \A j \in 1 .. i : j \in DOMAIN list
      BY SMTT(30), <1>2
    <3> QED BY <1>15, <1>12, <1>r, <3>1
  <2>2. ASSUME NEW c, Mark(c, FALSE) \in Entries(s, p) PROVE c \in touched
    <3>1. PICK i \in DOMAIN list : Mark(c, FALSE) = list[i]
      BY <1>12, <2>2
    <3>2. ~list[i].expired /\ list[i].client = c
      BY SMTT(30), <3>1 DEF Mark
    <3> QED BY <1>t, <2>1, <3>2
  <2>3. \A w \in Entries(t, p) : ~w.expired
    BY SMTT(30), <1>6, <1>10, <1>12, <2>1
  <2> QED BY <2>2, <2>3
<1>16. TouchedAt(s, p, t, touched)
  BY <1>9, <1>10, <1>11, <1>13, <1>14, <1>15 DEF TouchedAt
<1> QED BY <1>13, <1>16 DEF t

(* A change of a value alone, and of the number of writes. *)
WithValue(s, p, v, n) == [s EXCEPT !.data[p] = v, !.writes = n]

(* A write of one value leaves the other keys, the lists and the clients   *)
(* alone.                                                                  *)
LEMMA ValueChanges ==
  ASSUME NEW s \in Servers, NEW p \in Tx!Places, NEW v \in Value, NEW n \in Nat,
         NEW t, t = WithValue(s, p, v, n)
  PROVE  /\ t \in Servers /\ t.client = s.client /\ t.writes = n
         /\ t.data = [s.data EXCEPT ![p] = v]
         /\ t.data[p] = v /\ \A q \in Tx!Places : q # p => t.data[q] = s.data[q]
         /\ \A q \in Tx!Places : Entries(t, q) = Entries(s, q) /\ Tx!Watchers(t, q) = Tx!Watchers(s, q)
<1> DEFINE nd == [s.data EXCEPT ![p] = v]
<1>1. t = [s EXCEPT !.data = nd, !.writes = n]
  BY DEF WithValue
<1>2. s.data \in [Tx!Places -> Value]
  BY DEF Servers
<1>3. nd \in [Tx!Places -> Value] /\ nd[p] = v /\ \A q \in Tx!Places : q # p => nd[q] = s.data[q]
  BY <1>2
<1> HIDE DEF nd
<1>4. /\ t.client = s.client /\ t.writes = n /\ t.data = nd /\ t.watched = s.watched
      /\ t = [data |-> t.data, watched |-> t.watched, client |-> t.client, writes |-> t.writes]
  BY <1>1 DEF Servers
<1>5. t \in Servers
  BY <1>3, <1>4 DEF Servers
<1>6. \A q \in Tx!Places : Entries(t, q) = Entries(s, q) /\ Tx!Watchers(t, q) = Tx!Watchers(s, q)
  BY <1>4 DEF Entries, Tx!Watchers
<1>7. t.data[p] = v /\ \A q \in Tx!Places : q # p => t.data[q] = s.data[q]
  BY <1>3, <1>4
<1>8. t.data = [s.data EXCEPT ![p] = v]
  BY <1>4 DEF nd
<1> QED BY <1>4, <1>5, <1>6, <1>7, <1>8

(* The fields of a server. *)
LEMMA ServerFields ==
  ASSUME NEW s \in Servers
  PROVE  /\ s.data \in [Tx!Places -> Value] /\ s.writes \in Nat /\ s.client \in [Clients -> ClientState]
         /\ \A p \in Tx!Places : s.data[p].version \in Nat /\ s.data[p].expired \in BOOLEAN
         /\ \A c \in Clients : /\ s.client[c] \in ClientState
                               /\ s.client[c].dirtyCas \in BOOLEAN
                               /\ [s.client[c] EXCEPT !.dirtyCas = TRUE].dirtyCas
BY DEF Servers, Value, ClientState

(* dbGenericDelete of an existing key: whoever watches it and had not seen *)
(* it expired is flagged, and no entry stays flagged as expired.           *)
DeletedAt(s, p, t, cs) ==
  /\ t \in Servers /\ t.data = [s.data EXCEPT ![p] = Tx!NoKey] /\ t.writes = s.writes
  /\ t.data[p] = Tx!NoKey /\ \A q \in Tx!Places : q # p => t.data[q] = s.data[q]
  /\ \A c \in Clients : t.client[c] = IF c \in cs THEN [s.client[c] EXCEPT !.dirtyCas = TRUE]
                                      ELSE s.client[c]
  /\ \A c : c \in cs <=> Mark(c, FALSE) \in Entries(s, p)
  /\ \A q \in Tx!Places : q # p => Entries(t, q) = {w \in Entries(s, q) : w.client \notin cs}
  /\ \A c : c \in Tx!Watchers(t, p) <=> c \in Tx!Watchers(s, p) /\ c \notin cs
  /\ \A w \in Entries(t, p) : ~w.expired

(* dbDelete touches the key if it is there, then it is gone. *)
LEMMA DeleteFlags ==
  ASSUME NEW s \in Servers, NEW p \in Tx!Places, Tx!Exists(s, p)
  PROVE  \E cs \in SUBSET Clients : DeletedAt(s, p, Tx!DbDelete(s, p), cs)
<1> DEFINE u == [s EXCEPT !.data[p] = Tx!NoKey]
           t == Tx!DbDelete(s, p)
<1>1. u = WithValue(s, p, Tx!NoKey, s.writes)
  <2> DEFINE nd == [s.data EXCEPT ![p] = Tx!NoKey]
  <2>1. u = [s EXCEPT !.data = nd]
    OBVIOUS
  <2>2. WithValue(s, p, Tx!NoKey, s.writes) = [s EXCEPT !.data = nd, !.writes = s.writes]
    BY DEF WithValue
  <2> HIDE DEF nd, u
  <2>3. [s EXCEPT !.data = nd] = [s EXCEPT !.data = nd, !.writes = s.writes]
    BY DEF Servers
  <2> QED BY <2>1, <2>2, <2>3
<1>2. Tx!NoKey \in Value /\ Tx!NoKey.version = 0 /\ s.writes \in Nat
  BY ServerFields DEF Tx!NoKey, Value
<1>3. t = Tx!TouchWatchedKey(u, p)
  BY DEF Tx!DbDelete
<1> HIDE DEF u, t
<1>4. /\ u \in Servers /\ u.client = s.client /\ u.writes = s.writes
      /\ u.data = [s.data EXCEPT ![p] = Tx!NoKey]
      /\ u.data[p] = Tx!NoKey /\ \A q \in Tx!Places : q # p => u.data[q] = s.data[q]
      /\ \A q \in Tx!Places : Entries(u, q) = Entries(s, q) /\ Tx!Watchers(u, q) = Tx!Watchers(s, q)
  BY SMTT(30), <1>1, <1>2, ValueChanges
<1>5. ~Tx!Exists(u, p)
  BY <1>2, <1>4 DEF Tx!Exists
<1>6. PICK cs \in SUBSET Clients : TouchedAt(u, p, t, cs)
  BY <1>3, <1>4, TouchFlags
<1>7. DeletedAt(s, p, t, cs)
  BY <1>4, <1>5, <1>6, Zenon DEF DeletedAt, TouchedAt
<1> QED BY <1>7 DEF t

(* setKey: on a master, as long as databases are not swapped, it flags     *)
(* every client that watches the key.                                      *)
SetAt(s, p, t, cs) ==
  /\ t \in Servers /\ t.writes = s.writes + 1
  /\ t.data[p] = [version |-> s.writes + 1, expired |-> FALSE]
  /\ \A q \in Tx!Places : q # p => t.data[q] = s.data[q]
  /\ \A c \in Clients : t.client[c] = IF c \in cs THEN [s.client[c] EXCEPT !.dirtyCas = TRUE]
                                      ELSE s.client[c]
  /\ \A c \in cs : c \in Tx!Watchers(s, p)
  /\ Orderly => \A c \in Tx!Watchers(s, p) : c \in cs
  /\ \A q \in Tx!Places : q # p => Entries(t, q) = {w \in Entries(s, q) : w.client \notin cs}
  /\ \A c : c \in Tx!Watchers(t, p) <=> c \in Tx!Watchers(s, p) /\ c \notin cs

(* What the lookup for writing leaves: as after a deletion if the key was  *)
(* expired.                                                                *)
ExpiredAt(s, p, t, cs) ==
  /\ t \in Servers /\ t.writes = s.writes
  /\ \A q \in Tx!Places : q # p => t.data[q] = s.data[q]
  /\ \A c \in Clients : t.client[c] = IF c \in cs THEN [s.client[c] EXCEPT !.dirtyCas = TRUE]
                                      ELSE s.client[c]
  /\ \A c \in cs : c \in Tx!Watchers(s, p)
  /\ \A q \in Tx!Places : q # p => Entries(t, q) = {w \in Entries(s, q) : w.client \notin cs}
  /\ \A c : c \in Tx!Watchers(t, p) <=> c \in Tx!Watchers(s, p) /\ c \notin cs
  /\ Orderly => \A w \in Entries(t, p) : ~w.expired

(* expireIfNeeded deletes an expired key, on a master; elsewhere it        *)
(* changes nothing.                                                        *)
LEMMA ExpireFlags ==
  ASSUME NEW s, Sound(s), NEW p \in Tx!Places
  PROVE  \E cs \in SUBSET Clients : ExpiredAt(s, p, Tx!ExpireIfNeeded(s, p), cs)
<1>1. s \in Servers
  BY DEF Sound
<1>2. CASE s.data[p].expired /\ txRole = "master"
  <2>1. Tx!Exists(s, p)
    BY <1>2 DEF Sound, Numbered, Tx!Exists
  <2>2. PICK cs \in SUBSET Clients : DeletedAt(s, p, Tx!DbDelete(s, p), cs)
    BY <1>1, <2>1, DeleteFlags
  <2>3. Tx!ExpireIfNeeded(s, p) = Tx!DbDelete(s, p)
    BY <1>2 DEF Tx!ExpireIfNeeded
  <2>4. \A c \in cs : c \in Tx!Watchers(s, p)
    <3>1. \A c : Mark(c, FALSE).client = c
      BY DEF Mark
    <3>2. \A c : c \in Tx!Watchers(s, p) <=> \E w \in Entries(s, p) : w.client = c
      BY <1>1, EntriesType
    <3> QED BY <2>2, <3>1, <3>2 DEF DeletedAt
  <2>5. ExpiredAt(s, p, Tx!DbDelete(s, p), cs)
    BY <2>2, <2>4, Zenon DEF DeletedAt, ExpiredAt
  <2> QED BY <2>3, <2>5
<1>3. CASE ~(s.data[p].expired /\ txRole = "master")
  <2>1. Tx!ExpireIfNeeded(s, p) = s
    BY <1>3 DEF Tx!ExpireIfNeeded
  <2>2. Orderly => \A w \in Entries(s, p) : ~w.expired
    BY <1>3 DEF Orderly, Sound, FlagsCurrent
  <2>3. ExpiredAt(s, p, s, {})
    BY <1>1, <2>2, Zenon DEF ExpiredAt
  <2> QED BY <2>1, <2>3
<1> QED BY <1>2, <1>3

(* setKey gives the key a version of its own and flags all its watchers    *)
(* that are left.                                                          *)
LEMMA SetKeyFlags ==
  ASSUME NEW s, Sound(s), NEW p \in Tx!Places
  PROVE  \E cs \in SUBSET Clients : SetAt(s, p, Tx!SetKey(s, p), cs)
<1> DEFINE t == Tx!ExpireIfNeeded(s, p)
           v == [version |-> t.writes + 1, expired |-> FALSE]
           u == [t EXCEPT !.data[p] = v, !.writes = t.writes + 1]
           r == Tx!SetKey(s, p)
<1>0. r = Tx!TouchWatchedKey(u, p)
  BY DEF Tx!SetKey
<1>1. s \in Servers
  BY DEF Sound
<1>2. PICK cs1 \in SUBSET Clients : ExpiredAt(s, p, t, cs1)
  BY ExpireFlags
<1>3. t \in Servers /\ t.writes \in Nat /\ t.writes + 1 \in Nat /\ t.writes = s.writes
  BY SMTT(30), <1>2, ServerFields DEF ExpiredAt
<1>4. v \in Value
  BY <1>3 DEF Value
<1> HIDE DEF t, v, u, r
<1>5. /\ u \in Servers /\ u.client = t.client /\ u.writes = t.writes + 1
      /\ u.data[p] = v /\ \A q \in Tx!Places : q # p => u.data[q] = t.data[q]
      /\ \A q \in Tx!Places : Entries(u, q) = Entries(t, q) /\ Tx!Watchers(u, q) = Tx!Watchers(t, q)
  <2> DEFINE n == t.writes + 1
  <2>1. u = WithValue(t, p, v, n) /\ n \in Nat
    BY <1>3 DEF u, WithValue
  <2> HIDE DEF n
  <2>2. /\ u \in Servers /\ u.client = t.client /\ u.writes = n
        /\ u.data = [t.data EXCEPT ![p] = v]
        /\ u.data[p] = v /\ \A q \in Tx!Places : q # p => u.data[q] = t.data[q]
        /\ \A q \in Tx!Places : Entries(u, q) = Entries(t, q) /\ Tx!Watchers(u, q) = Tx!Watchers(t, q)
    <3>1. t \in Servers
      BY <1>3
    <3> QED BY SMTT(30), <1>4, <2>1, <3>1, ValueChanges
  <2> QED BY <2>2 DEF n
<1>6. PICK cs2 \in SUBSET Clients : TouchedAt(u, p, r, cs2)
  BY <1>0, <1>5, TouchFlags
<1> DEFINE cs == cs1 \cup cs2
<1>7. r \in Servers /\ r.writes = s.writes + 1 /\ r.data = u.data
  BY <1>3, <1>5, <1>6 DEF TouchedAt
<1>8. ASSUME NEW c \in Clients
      PROVE  r.client[c] = IF c \in cs THEN [s.client[c] EXCEPT !.dirtyCas = TRUE] ELSE s.client[c]
  <2>1. t.client[c] = IF c \in cs1 THEN [s.client[c] EXCEPT !.dirtyCas = TRUE] ELSE s.client[c]
    BY <1>2 DEF ExpiredAt
  <2>2. r.client[c] = IF c \in cs2 THEN [t.client[c] EXCEPT !.dirtyCas = TRUE] ELSE t.client[c]
    BY <1>5, <1>6 DEF TouchedAt
  <2>3. [[s.client[c] EXCEPT !.dirtyCas = TRUE] EXCEPT !.dirtyCas = TRUE]
          = [s.client[c] EXCEPT !.dirtyCas = TRUE]
    BY <1>1, ServerFields DEF ClientState
  <2> QED BY <2>1, <2>2, <2>3
<1>m. \A c, b : Mark(c, b).client = c /\ Mark(c, b).expired = b
  BY DEF Mark
<1>9. \A c \in cs2 : c \in Tx!Watchers(t, p)
  <2>1. \A c : c \in Tx!Watchers(u, p) <=> \E w \in Entries(u, p) : w.client = c
    BY <1>5, EntriesType
  <2> QED BY <1>m, <1>5, <1>6, <2>1 DEF TouchedAt
<1>10. \A c : c \in Tx!Watchers(t, p) <=> c \in Tx!Watchers(s, p) /\ c \notin cs1
  BY <1>2 DEF ExpiredAt
<1>11. \A c : c \in Tx!Watchers(r, p) <=> c \in Tx!Watchers(t, p) /\ c \notin cs2
  BY <1>5, <1>6 DEF TouchedAt
<1>12. \A c \in cs1 : c \in Tx!Watchers(s, p)
  BY <1>2 DEF ExpiredAt
<1>13. ASSUME Orderly, NEW c \in Tx!Watchers(s, p) PROVE c \in cs
  <2>1. CASE c \notin cs1
    <3>1. c \in Tx!Watchers(t, p)
      BY <1>10, <2>1
    <3>2. PICK w \in Entries(t, p) : w.client = c
      BY <1>3, <3>1, EntriesType
    <3>3. \A x \in Entries(u, p) : ~x.expired
      BY <1>2, <1>5, <1>13 DEF ExpiredAt
    <3>4. w = Mark(w.client, w.expired) /\ w.expired \in BOOLEAN
      BY <1>3, <3>2, EntriesType
    <3>5. Mark(c, FALSE) \in Entries(u, p)
      <4>1. w \in Entries(u, p)
        BY <1>5, <3>2
      <4>2. w.expired = FALSE
        BY <4>1, <3>3, <3>4
      <4> QED BY <3>2, <3>4, <4>1, <4>2
    <3>6. c \in cs2
      BY <1>6, <3>3, <3>5 DEF TouchedAt
    <3> QED BY <3>6
  <2> QED BY <2>1
<1>14. ASSUME NEW q \in Tx!Places, q # p
       PROVE  r.data[q] = s.data[q] /\ Entries(r, q) = {w \in Entries(s, q) : w.client \notin cs}
  <2>1. Entries(r, q) = {w \in Entries(t, q) : w.client \notin cs2}
    BY <1>5, <1>6, <1>14 DEF TouchedAt
  <2>2. Entries(t, q) = {w \in Entries(s, q) : w.client \notin cs1}
    BY <1>2, <1>14 DEF ExpiredAt
  <2>3. r.data[q] = s.data[q]
    BY <1>2, <1>5, <1>7, <1>14 DEF ExpiredAt
  <2> QED BY <2>1, <2>2, <2>3
<1>15. r.data[p] = [version |-> s.writes + 1, expired |-> FALSE]
  BY <1>3, <1>5, <1>7 DEF v
<1>16. SetAt(s, p, r, cs)
  <2>1. \A c \in cs : c \in Tx!Watchers(s, p)
    BY <1>9, <1>10, <1>12
  <2>2. \A c : c \in Tx!Watchers(r, p) <=> c \in Tx!Watchers(s, p) /\ c \notin cs
    BY <1>10, <1>11
  <2> HIDE DEF cs
  <2> QED BY <2>1, <2>2, <1>7, <1>8, <1>13, <1>14, <1>15 DEF SetAt
<1> QED BY <1>16 DEF r

-----------------------------------------------------------------------------
(* The loop of execCommand *)

(* What the loop may have done with b, s being its result so far: places   *)
(* written have newer versions; whoever is flagged watched such a place    *)
(* and, on a master, whoever watched such a place is flagged; at the other *)
(* places there are still the same entries, but those of flagged clients.  *)
Ran(b, s) ==
  /\ b.writes <= s.writes
  /\ \A p \in Tx!Places : s.data[p] # b.data[p] => s.data[p].version > b.writes /\ ~s.data[p].expired
  /\ \A c \in Clients :
       /\ s.client[c] # b.client[c] =>
            /\ s.client[c] = [b.client[c] EXCEPT !.dirtyCas = TRUE]
            /\ \E p \in Tx!Places : c \in Tx!Watchers(b, p) /\ s.data[p] # b.data[p]
       /\ \A p \in Tx!Places :
            /\ Orderly /\ c \in Tx!Watchers(b, p) /\ s.data[p] # b.data[p] => s.client[c].dirtyCas
            /\ c \in Tx!Watchers(s, p) => c \in Tx!Watchers(b, p)
            /\ c \in Tx!Watchers(b, p) => c \in Tx!Watchers(s, p) \/ s.client[c].dirtyCas
  /\ \A p \in Tx!Places : s.data[p] = b.data[p] =>
       /\ Entries(s, p) \subseteq Entries(b, p)
       /\ \A w \in Entries(b, p) : w \in Entries(s, p) \/ s.client[w.client].dirtyCas

(* No command has run: nothing has changed. *)
LEMMA RanNothing ==
  ASSUME NEW b, Sound(b)
  PROVE  Ran(b, b)
<1>1. b \in Servers /\ b.writes \in Nat
  BY ServerFields DEF Sound
<1>2. b.writes <= b.writes
  BY SMTT(30), <1>1
<1> QED BY <1>2, Zenon DEF Ran

(* What commands have done so far, and one more write. *)
LEMMA RanStep ==
  ASSUME NEW b, Sound(b), NEW s, Sound(s), Ran(b, s), NEW p \in Tx!Places
  PROVE  Sound(Tx!SetKey(s, p)) /\ Ran(b, Tx!SetKey(s, p))
<1> DEFINE t == Tx!SetKey(s, p)
<1>1. PICK cs \in SUBSET Clients : SetAt(s, p, t, cs)
  BY SetKeyFlags
<1> HIDE DEF t
<1>2. /\ b \in Servers /\ b.writes \in Nat /\ s \in Servers /\ s.writes \in Nat
      /\ t \in Servers /\ t.writes = s.writes + 1 /\ b.writes <= s.writes
  BY <1>1, ServerFields DEF Sound, SetAt, Ran
<1>3. /\ t.data[p] = [version |-> s.writes + 1, expired |-> FALSE]
      /\ t.data[p].version = s.writes + 1 /\ ~t.data[p].expired
      /\ \A q \in Tx!Places : q # p => t.data[q] = s.data[q]
  BY SMTT(30), <1>1 DEF SetAt
<1>4. \A q \in Tx!Places : /\ s.data[q].version \in Nat /\ s.data[q].version <= s.writes
                           /\ b.data[q].version \in Nat /\ b.data[q].version <= b.writes
  BY <1>2, ServerFields DEF Sound, Numbered
<1>5. Numbered(t)
  <2>1. ASSUME NEW q \in Tx!Places
        PROVE  /\ t.data[q].version <= t.writes
               /\ t.data[q].expired => t.data[q].version # 0
    <3>1. CASE q = p
      BY SMTT(30), <1>2, <1>3, <3>1
    <3>2. CASE q # p
      BY SMTT(30), <1>2, <1>3, <1>4, <3>2 DEF Sound, Numbered
    <3> QED BY <3>1, <3>2
  <2>2. ASSUME NEW q \in Tx!Places, NEW r \in Tx!Places, t.data[q].version = t.data[r].version
        PROVE  q = r \/ t.data[q].version = 0
    <3>1. CASE q = p /\ r # p
      BY SMTT(30), <1>2, <1>3, <1>4, <2>2, <3>1
    <3>2. CASE q # p /\ r = p
      BY SMTT(30), <1>2, <1>3, <1>4, <2>2, <3>2
    <3>3. CASE q # p /\ r # p
      BY <1>3, <2>2, <3>3 DEF Sound, Numbered
    <3> QED BY <3>1, <3>2, <3>3
  <2> QED BY <2>1, <2>2 DEF Numbered
<1>6. ASSUME Orderly PROVE FlagsCurrent(t)
  <2>1. ASSUME NEW q \in Tx!Places, NEW w \in Entries(t, q), w.expired PROVE t.data[q].expired
    <3>1. CASE q = p
      <4>1. w.client \in Tx!Watchers(t, p)
        BY <1>2, <3>1, EntriesType
      <4>2. FALSE
        BY <1>1, <1>6, <4>1 DEF SetAt
      <4> QED BY <4>2
    <3>2. CASE q # p
      BY <1>1, <1>3, <1>6, <2>1, <3>2 DEF SetAt, Sound, FlagsCurrent
    <3> QED BY <3>1, <3>2
  <2> QED BY <2>1 DEF FlagsCurrent
<1>7. Sound(t)
  BY <1>2, <1>5, <1>6 DEF Sound
<1>8. b.writes <= t.writes
  BY SMTT(30), <1>2
<1>9. t.data[p] # b.data[p] /\ \A q \in Tx!Places : s.data[q] # b.data[q] => t.data[q] # b.data[q]
  <2>1. t.data[p].version # b.data[p].version
    BY SMTT(30), <1>2, <1>3, <1>4
  <2> QED BY <1>3, <2>1
<1>10. ASSUME NEW q \in Tx!Places, t.data[q] # b.data[q]
       PROVE  t.data[q].version > b.writes /\ ~t.data[q].expired
  <2>1. CASE q = p
    BY SMTT(30), <1>2, <1>3, <2>1
  <2>2. CASE q # p
    BY <1>3, <1>10, <2>2 DEF Ran
  <2> QED BY <2>1, <2>2
<1>11. ASSUME NEW c \in Clients
       PROVE  /\ c \notin cs => t.client[c] = s.client[c]
              /\ c \in cs => /\ t.client[c] = [s.client[c] EXCEPT !.dirtyCas = TRUE]
                             /\ t.client[c].dirtyCas
                             /\ c \in Tx!Watchers(s, p) /\ c \in Tx!Watchers(b, p)
              /\ s.client[c].dirtyCas => t.client[c].dirtyCas
              /\ [[b.client[c] EXCEPT !.dirtyCas = TRUE] EXCEPT !.dirtyCas = TRUE]
                   = [b.client[c] EXCEPT !.dirtyCas = TRUE]
  <2>1. [s.client[c] EXCEPT !.dirtyCas = TRUE].dirtyCas
    BY <1>2, ServerFields
  <2>2. [[b.client[c] EXCEPT !.dirtyCas = TRUE] EXCEPT !.dirtyCas = TRUE]
          = [b.client[c] EXCEPT !.dirtyCas = TRUE]
    BY <1>2, ServerFields DEF ClientState
  <2>3. t.client[c] = IF c \in cs THEN [s.client[c] EXCEPT !.dirtyCas = TRUE] ELSE s.client[c]
    BY <1>1 DEF SetAt
  <2>4. c \in cs => c \in Tx!Watchers(s, p)
    BY <1>1 DEF SetAt
  <2>5. c \in Tx!Watchers(s, p) => c \in Tx!Watchers(b, p)
    BY DEF Ran
  <2> QED BY <2>1, <2>2, <2>3, <2>4, <2>5, Zenon
<1>12. ASSUME NEW c \in Clients, t.client[c] # b.client[c]
       PROVE  /\ t.client[c] = [b.client[c] EXCEPT !.dirtyCas = TRUE]
              /\ \E q \in Tx!Places : c \in Tx!Watchers(b, q) /\ t.data[q] # b.data[q]
  <2>1. s.client[c] = b.client[c] \/ s.client[c] = [b.client[c] EXCEPT !.dirtyCas = TRUE]
    BY DEF Ran
  <2>2. CASE c \in cs
    <3>1. t.client[c] = [s.client[c] EXCEPT !.dirtyCas = TRUE] /\ c \in Tx!Watchers(b, p)
      BY <1>11, <2>2
    <3>2. t.client[c] = [b.client[c] EXCEPT !.dirtyCas = TRUE]
      BY <1>11, <2>1, <3>1, Zenon
    <3> QED BY <1>9, <3>1, <3>2
  <2>3. CASE c \notin cs
    <3>1. t.client[c] = s.client[c]
      BY <1>11, <2>3
    <3>2. PICK q \in Tx!Places : c \in Tx!Watchers(b, q) /\ s.data[q] # b.data[q]
      BY <1>12, <3>1 DEF Ran
    <3> QED BY <1>9, <1>12, <2>1, <3>1, <3>2
  <2> QED BY <2>2, <2>3
<1>w. ASSUME NEW c \in Clients, NEW q \in Tx!Places
      PROVE  c \in Tx!Watchers(t, q) <=> c \in Tx!Watchers(s, q) /\ c \notin cs
  <2>1. CASE q = p
    BY <1>1, <2>1 DEF SetAt
  <2>2. CASE q # p
    <3>1. Entries(t, q) = {w \in Entries(s, q) : w.client \notin cs}
      BY <1>1, <2>2 DEF SetAt
    <3>2. c \in Tx!Watchers(t, q) <=> \E w \in Entries(t, q) : w.client = c
      BY <1>2, EntriesType
    <3>3. c \in Tx!Watchers(s, q) <=> \E w \in Entries(s, q) : w.client = c
      BY SMTT(30), <1>2, EntriesType
    <3> QED BY <3>1, <3>2, <3>3
  <2> QED BY <2>1, <2>2
<1>13. ASSUME NEW c \in Clients, NEW q \in Tx!Places
       PROVE  /\ Orderly /\ c \in Tx!Watchers(b, q) /\ t.data[q] # b.data[q] => t.client[c].dirtyCas
              /\ c \in Tx!Watchers(t, q) => c \in Tx!Watchers(b, q)
              /\ c \in Tx!Watchers(b, q) => c \in Tx!Watchers(t, q) \/ t.client[c].dirtyCas
  <2>1. /\ Orderly /\ c \in Tx!Watchers(b, q) /\ s.data[q] # b.data[q] => s.client[c].dirtyCas
        /\ c \in Tx!Watchers(s, q) => c \in Tx!Watchers(b, q)
        /\ c \in Tx!Watchers(b, q) => c \in Tx!Watchers(s, q) \/ s.client[c].dirtyCas
    BY DEF Ran
  <2>2. Orderly /\ c \in Tx!Watchers(s, p) => c \in cs
    BY <1>1 DEF SetAt
  <2>3. Orderly /\ c \in Tx!Watchers(b, q) /\ t.data[q] # b.data[q] => t.client[c].dirtyCas
    <3>1. CASE q = p
      BY <1>11, <2>1, <2>2, <3>1
    <3>2. CASE q # p
      BY <1>3, <1>11, <2>1, <3>2
    <3> QED BY <3>1, <3>2
  <2> QED BY <1>11, <1>w, <2>1, <2>3
<1>14. ASSUME NEW q \in Tx!Places, t.data[q] = b.data[q]
       PROVE  /\ Entries(t, q) \subseteq Entries(b, q)
              /\ \A w \in Entries(b, q) : w \in Entries(t, q) \/ t.client[w.client].dirtyCas
  <2>1. q # p /\ s.data[q] = b.data[q]
    BY <1>3, <1>9, <1>14
  <2>2. Entries(t, q) = {w \in Entries(s, q) : w.client \notin cs}
    BY <1>1, <2>1 DEF SetAt
  <2>3. /\ Entries(s, q) \subseteq Entries(b, q)
        /\ \A w \in Entries(b, q) : w \in Entries(s, q) \/ s.client[w.client].dirtyCas
    BY <2>1 DEF Ran
  <2>4. \A w \in Entries(b, q) : w.client \in Clients
    BY <1>2, EntriesType
  <2> QED BY <1>11, <2>2, <2>3, <2>4
<1>15. Ran(b, t)
  BY <1>8, <1>10, <1>12, <1>13, <1>14 DEF Ran
<1> QED BY <1>7, <1>15 DEF t

(* The commands that EXEC calls, in order, are such a run: by induction    *)
(* over the queue.                                                         *)
LEMMA CallRuns ==
  ASSUME NEW b, Sound(b), NEW places \in Seq(Tx!Places)
  PROVE  Sound(Tx!Call(b, places)) /\ Ran(b, Tx!Call(b, places))
<1> DEFINE n == Len(places)
           D == {s \in Servers : Sound(s) /\ Ran(b, s)}
           F(f) == f = [i \in 0 .. n |-> IF i = 0 THEN b ELSE Tx!SetKey(f[i - 1], places[i])]
           g == [x \in (1 .. n) \X D |-> Tx!SetKey(x[2], places[x[1]])]
           k == CHOOSE f : F(f)
<1>1. n \in Nat /\ \A i \in 1 .. n : places[i] \in Tx!Places
  BY SMTT(30)
<1>2. Tx!Call(b, places) = k[n]
  BY DEF Tx!Call
<1> HIDE DEF n
<1>3. b \in D
  BY RanNothing DEF Sound
<1>4. ASSUME NEW s \in D, NEW p \in Tx!Places PROVE Tx!SetKey(s, p) \in D
  <2>1. Sound(Tx!SetKey(s, p)) /\ Ran(b, Tx!SetKey(s, p))
    BY RanStep
  <2> QED BY <2>1 DEF Sound
<1> HIDE DEF D
<1>5. g \in Loops(n, D)
  BY <1>1, <1>4 DEF Loops
<1>6. \A i \in 1 .. n : \A s \in D : g[<<i, s>>] = Tx!SetKey(s, places[i])
  OBVIOUS
<1> HIDE DEF g
<1>7. PICK f : IsRun(f, n, D, b, g)
  BY <1>1, <1>3, <1>5, Iterates
<1>8. /\ f \in [0 .. n -> D] /\ f[0] = b
      /\ \A i \in 1 .. n : f[i] = Tx!SetKey(f[i - 1], places[i])
  <2>1. f \in [0 .. n -> D] /\ f[0] = b /\ \A i \in 1 .. n : f[i] = g[<<i, f[i - 1]>>]
    BY <1>7 DEF IsRun
  <2>2. \A i \in 1 .. n : i - 1 \in 0 .. n
    BY SMTT(30), <1>1
  <2>3. \A i \in 1 .. n : f[i - 1] \in D
    BY <2>1, <2>2
  <2> QED BY <1>6, <2>1, <2>3
<1>9. F(f)
  <2> DEFINE G == [i \in 0 .. n |-> IF i = 0 THEN b ELSE Tx!SetKey(f[i - 1], places[i])]
  <2>1. ASSUME NEW i \in 0 .. n PROVE f[i] = G[i]
    <3>1. i = 0 \/ i \in 1 .. n
      BY SMTT(30), <1>1
    <3> QED BY <3>1, <1>8
  <2> QED BY <2>1, <1>8
<1>10. F(k)
  <2> HIDE DEF F
  <2> QED BY <1>9
<1> HIDE DEF k
<1>11. k[0] = b /\ \A i \in 1 .. n : k[i] = Tx!SetKey(k[i - 1], places[i])
  <2>1. 0 \in 0 .. n /\ \A i \in 1 .. n : i \in 0 .. n /\ i # 0
    BY SMTT(30), <1>1
  <2> QED BY <1>10, <2>1, Zenon
<1> HIDE DEF F
<1> DEFINE S == {i \in Nat : i <= n => k[i] \in D}
<1>12. 0 \in S
  BY <1>3, <1>11
<1>13. ASSUME NEW i \in Nat, i \in S, i + 1 <= n PROVE k[i + 1] \in D
  <2>1. i + 1 \in 1 .. n /\ (i + 1) - 1 = i /\ k[i] \in D
    BY SMTT(30), <1>1, <1>13
  <2>2. k[i + 1] = Tx!SetKey(k[i], places[i + 1])
    BY <1>11, <2>1
  <2> QED BY <1>1, <1>4, <2>1, <2>2
<1>14. \A i \in Nat : i \in S => i + 1 \in S
  BY SMTT(30), <1>13
<1>15. n \in S
  <2> HIDE DEF S
  <2> QED BY <1>1, <1>12, <1>14, Induction
<1>16. k[n] \in D
  BY SMTT(30), <1>1, <1>15
<1> QED BY <1>2, <1>16 DEF D

-----------------------------------------------------------------------------
(* Changes that are noticed *)

(* isWatchedKeyExpired: some watched key, seen alive, has expired. *)
LEMMA ExpirySeen ==
  ASSUME NEW s, NEW c
  PROVE  Tx!IsWatchedKeyExpired(s, c) <=>
           \E p \in Tx!Places : s.data[p].expired /\ Mark(c, FALSE) \in Entries(s, p)
BY DEF Tx!IsWatchedKeyExpired, Mark, Entries

(* Logical value of a place: what a reader sees. *)
LEMMA LogicalIs ==
  ASSUME NEW s \in Servers, NEW p \in Tx!Places
  PROVE  /\ s.data[p].expired => Tx!Logical(s.data, p) = 0
         /\ ~s.data[p].expired => Tx!Logical(s.data, p) = s.data[p].version
         /\ Tx!Logical(s.data, p) \in Nat
BY ServerFields DEF Tx!Logical

(* A run of writes is noticed by every client that watches one of the      *)
(* keys.                                                                   *)
LEMMA RanNotices ==
  ASSUME NEW b, Sound(b), NEW s, Sound(s), Ran(b, s), NEW c \in Clients,
         NEW old \in BOOLEAN, NoticedBy(b, Orderly, c, old),
         NEW new \in BOOLEAN,
         new <=> old \/ \E p \in Tx!Places : /\ c \in Tx!Watchers(b, p)
                                             /\ Tx!Logical(b.data, p) # Tx!Logical(s.data, p)
  PROVE  NoticedBy(s, Orderly, c, new)
<1>1. b \in Servers /\ s \in Servers /\ b.writes \in Nat
  BY ServerFields DEF Sound
<1>2. ASSUME s.client[c].dirtyCas, ~b.client[c].dirtyCas PROVE new
  <2>1. PICK p \in Tx!Places : c \in Tx!Watchers(b, p) /\ s.data[p] # b.data[p]
    BY <1>2 DEF Ran
  <2>2. s.data[p].version > b.writes /\ ~s.data[p].expired
    BY <2>1 DEF Ran
  <2>3. Tx!Logical(s.data, p) = s.data[p].version
    BY <1>1, <2>2, LogicalIs
  <2>4. Tx!Logical(b.data, p) \in {0, b.data[p].version}
    BY <1>1, ServerFields, LogicalIs
  <2>5. b.data[p].version \in Nat /\ b.data[p].version <= b.writes /\ s.data[p].version \in Nat
    BY <1>1, ServerFields DEF Sound, Numbered
  <2>6. Tx!Logical(b.data, p) # Tx!Logical(s.data, p)
    BY SMTT(30), <1>1, <2>2, <2>3, <2>4, <2>5
  <2> QED BY <2>1, <2>6
<1>3. s.client[c].dirtyCas => new
  BY <1>2 DEF NoticedBy
<1>4. b.client[c].dirtyCas => s.client[c].dirtyCas
  <2>1. [b.client[c] EXCEPT !.dirtyCas = TRUE].dirtyCas
    BY <1>1, ServerFields
  <2>2. s.client[c] = b.client[c] \/ s.client[c] = [b.client[c] EXCEPT !.dirtyCas = TRUE]
    BY DEF Ran
  <2> QED BY <2>1, <2>2
<1>5. ASSUME NEW p \in Tx!Places, s.data[p].expired, Mark(c, FALSE) \in Entries(s, p) PROVE new
  <2>1. s.data[p] = b.data[p]
    BY <1>5 DEF Ran
  <2>2. Mark(c, FALSE) \in Entries(b, p)
    BY <1>5, <2>1 DEF Ran
  <2> QED BY <1>5, <2>1, <2>2 DEF NoticedBy
<1>6. ASSUME Orderly, new PROVE s.client[c].dirtyCas \/ Tx!IsWatchedKeyExpired(s, c)
  <2>1. CASE \E p \in Tx!Places : c \in Tx!Watchers(b, p) /\ Tx!Logical(b.data, p) # Tx!Logical(s.data, p)
    <3>1. PICK p \in Tx!Places : c \in Tx!Watchers(b, p) /\ Tx!Logical(b.data, p) # Tx!Logical(s.data, p)
      BY <2>1
    <3>2. s.data[p] # b.data[p]
      BY <3>1 DEF Tx!Logical
    <3> QED BY <1>6, <3>1, <3>2 DEF Ran
  <2>2. CASE old
    <3>1. b.client[c].dirtyCas \/ Tx!IsWatchedKeyExpired(b, c)
      BY <1>6, <2>2 DEF NoticedBy
    <3>2. CASE Tx!IsWatchedKeyExpired(b, c)
      <4>1. PICK p \in Tx!Places : b.data[p].expired /\ Mark(c, FALSE) \in Entries(b, p)
        BY <3>2, ExpirySeen
      <4>2. Mark(c, FALSE).client = c
        BY DEF Mark
      <4>3. c \in Tx!Watchers(b, p)
        BY <1>1, <4>1, <4>2, EntriesType
      <4>4. CASE s.data[p] = b.data[p]
        <5>1. Mark(c, FALSE) \in Entries(s, p) \/ s.client[c].dirtyCas
          BY <4>1, <4>2, <4>4 DEF Ran
        <5> QED BY <4>1, <4>4, <5>1, ExpirySeen
      <4>5. CASE s.data[p] # b.data[p]
        BY <1>6, <4>3, <4>5 DEF Ran
      <4> QED BY <4>4, <4>5
    <3> QED BY <1>4, <3>1, <3>2
  <2> QED BY <1>6, <2>1, <2>2
<1> QED BY <1>3, <1>5, <1>6 DEF NoticedBy

(* Without entries of other clients, what a client knows is the same. *)
LEMMA OthersNotice ==
  ASSUME NEW s, NEW t, NEW c, NEW orderly, NEW change,
         t.data = s.data, t.client[c] = s.client[c],
         \A p \in Tx!Places : Mark(c, FALSE) \in Entries(t, p) <=> Mark(c, FALSE) \in Entries(s, p),
         NoticedBy(s, orderly, c, change)
  PROVE  NoticedBy(t, orderly, c, change)
<1>1. Tx!IsWatchedKeyExpired(t, c) <=> Tx!IsWatchedKeyExpired(s, c)
  BY ExpirySeen
<1> QED BY <1>1, Zenon DEF NoticedBy

(* Fewer entries keep the server sound. *)
LEMMA SoundWithout ==
  ASSUME NEW s, Sound(s), NEW t \in Servers, t.data = s.data, t.writes = s.writes,
         \A p \in Tx!Places : Entries(t, p) \subseteq Entries(s, p)
  PROVE  Sound(t)
<1>1. Numbered(t)
  BY DEF Sound, Numbered
<1>2. Orderly => FlagsCurrent(t)
  BY DEF Sound, FlagsCurrent
<1> QED BY <1>1, <1>2 DEF Sound

(* discardTransaction: the client's state is fresh, its entries are gone. *)
LEMMA DiscardForgets ==
  ASSUME NEW s \in Servers, NEW c \in Clients
  PROVE  LET t == Tx!DiscardTransaction(s, c)
         IN  /\ t \in Servers /\ t.data = s.data /\ t.writes = s.writes /\ t.client[c] = Tx!Fresh
             /\ \A d \in Clients : d # c => t.client[d] = s.client[d]
             /\ \A p \in Tx!Places : Entries(t, p) = {w \in Entries(s, p) : w.client # c}
<1> DEFINE nc == [s.client EXCEPT ![c] = Tx!Fresh]
           u == [s EXCEPT !.client = nc]
           t == Tx!DiscardTransaction(s, c)
<1>1. t = Tx!UnwatchAllKeys(u, {c})
  BY DEF Tx!DiscardTransaction
<1>2. Tx!Fresh \in ClientState
  BY SMTT(30) DEF Tx!Fresh, ClientState
<1>3. nc \in [Clients -> ClientState] /\ nc[c] = Tx!Fresh /\ \A d \in Clients : d # c => nc[d] = s.client[d]
  BY <1>2, ServerFields
<1> HIDE DEF nc
<1>4. /\ u.data = s.data /\ u.writes = s.writes /\ u.watched = s.watched /\ u.client = nc
      /\ u = [data |-> u.data, watched |-> u.watched, client |-> u.client, writes |-> u.writes]
  BY SMTT(30) DEF Servers
<1> HIDE DEF u, t
<1>5. u \in Servers
  BY <1>3, <1>4 DEF Servers
<1>6. /\ t \in Servers /\ t.data = u.data /\ t.client = u.client /\ t.writes = u.writes
      /\ \A p \in Tx!Places : Entries(t, p) = {w \in Entries(u, p) : w.client \notin {c}}
  BY <1>1, <1>5, UnwatchKeeps
<1>7. \A p \in Tx!Places : Entries(u, p) = Entries(s, p)
  BY <1>4 DEF Entries
<1>8. \A p \in Tx!Places : Entries(t, p) = {w \in Entries(s, p) : w.client # c}
  BY <1>6, <1>7
<1> QED BY <1>3, <1>4, <1>6, <1>8 DEF t

-----------------------------------------------------------------------------
(* The actions *)

(* Whether the step to s is, or an earlier one was, a change for c. *)
Saw(s, c) ==
  txChanged[c] \/ \E p \in Tx!Places : c \in Tx!Watchers(Tx!Server, p) /\ Tx!Logical(txData, p) # Tx!Logical(s.data, p)

(* What the new state s has to be for the invariant. *)
Keeps(s, orderly, over) ==
  /\ s \in Servers /\ Numbered(s) /\ (orderly => FlagsCurrent(s))
  /\ \A c \in Clients : /\ NoticedBy(s, orderly, c, c \notin over /\ Saw(s, c))
                        /\ QueuedFor(s.client[c], IF c \in over THEN <<>> ELSE txSent[c])

(* A command that leaves the server as Keeps says keeps the invariant. *)
LEMMA Becoming ==
  ASSUME IInv, NEW s, NEW over, Tx!Becomes(s, over), txSwapped' \in BOOLEAN, Keeps(s, Orderly', over)
  PROVE  IInv'
<1>1. Tx!Server' = s
  <2>1. txData' = s.data /\ txWatched' = s.watched /\ txClient' = s.client /\ txWrites' = s.writes
    BY DEF Tx!Becomes
  <2>2. s = [data |-> s.data, watched |-> s.watched, client |-> s.client, writes |-> s.writes]
    BY DEF Keeps, Servers
  <2> QED BY <2>1, <2>2 DEF Tx!Server
<1>2. ASSUME NEW c \in Clients
      PROVE  /\ txChanged'[c] = (c \notin over /\ Saw(s, c))
             /\ txSent'[c] = IF c \in over THEN <<>> ELSE txSent[c]
  BY DEF Tx!Becomes, Saw
<1>3. txChanged' \in [Clients -> BOOLEAN]
  BY DEF Tx!Becomes
<1>4. txSent' \in [Clients -> Seq(Tx!Places)]
  BY SMTT(30) DEF Tx!Becomes, IInv, TxTypeOK
<1>5. TxTypeOK'
  BY <1>1, <1>3, <1>4 DEF TxTypeOK, Keeps
<1>6. Sound(Tx!Server)'
  BY <1>1 DEF Sound, Keeps
<1>7. Queued'
  <2>1. txClient' = s.client
    BY DEF Tx!Becomes
  <2> QED BY <1>2, <2>1 DEF Queued, Keeps
<1>8. Noticed'
  BY <1>1, <1>2 DEF Noticed, Keeps
<1> QED BY <1>5, <1>6, <1>7, <1>8 DEF IInv

(* The invariant, of the server and of each client. *)
LEMMA ServerNow ==
  ASSUME IInv
  PROVE  /\ Tx!Server.data = txData /\ Tx!Server.watched = txWatched /\ Tx!Server.client = txClient
         /\ Tx!Server.writes = txWrites
         /\ Tx!Server \in Servers /\ Sound(Tx!Server) /\ Numbered(Tx!Server)
         /\ Orderly => FlagsCurrent(Tx!Server)
         /\ \A c \in Clients : /\ NoticedBy(Tx!Server, Orderly, c, txChanged[c])
                               /\ QueuedFor(Tx!Server.client[c], txSent[c])
                               /\ txChanged[c] \in BOOLEAN
                               /\ txClient[c] \in ClientState
                               /\ txClient[c].queue \in Seq(Tx!Places)
<1>1. Tx!Server.data = txData /\ Tx!Server.watched = txWatched /\ Tx!Server.client = txClient /\ Tx!Server.writes = txWrites
  BY DEF Tx!Server
<1>2. Tx!Server \in Servers /\ Sound(Tx!Server) /\ Numbered(Tx!Server) /\ (Orderly => FlagsCurrent(Tx!Server))
  BY DEF IInv, Sound
<1>3. txClient \in [Clients -> ClientState]
  BY <1>1, <1>2, ServerFields
<1>4. \A c \in Clients : txClient[c] \in ClientState /\ txClient[c].queue \in Seq(Tx!Places)
  BY <1>3 DEF ClientState
<1>5. \A c \in Clients : NoticedBy(Tx!Server, Orderly, c, txChanged[c]) /\ txChanged[c] \in BOOLEAN
  BY DEF IInv, Noticed, TxTypeOK
<1>6. \A c \in Clients : QueuedFor(Tx!Server.client[c], txSent[c])
  BY <1>1 DEF IInv, Queued
<1> QED BY <1>1, <1>2, <1>4, <1>5, <1>6

(* A step that only changes clients and entries changes no key. *)
LEMMA SawNothing ==
  ASSUME NEW s, s.data = txData, NEW c, txChanged[c] \in BOOLEAN
  PROVE  Saw(s, c) = txChanged[c]
BY DEF Saw

(* The same for the commands that swap no databases. *)
LEMMA BecomeKeeps ==
  ASSUME IInv, NEW s, NEW over, Tx!Become(s, over), Keeps(s, Orderly, over)
  PROVE  IInv'
<1>1. txSwapped' = txSwapped /\ Tx!Becomes(s, over) /\ txRole' = txRole
  BY DEF Tx!Become, Tx!Becomes
<1>2. Orderly' = Orderly
  BY <1>1 DEF Orderly
<1>3. txSwapped' \in BOOLEAN
  BY <1>1 DEF IInv, TxTypeOK
<1>4. Keeps(s, Orderly', over)
  BY <1>2
<1> QED BY <1>1, <1>3, <1>4, Becoming

(* DISCARD forgets the client and keeps what the others know. *)
LEMMA DiscardKeeps ==
  ASSUME IInv, NEW b, NEW c \in Clients, Sound(b),
         \A d \in Clients : d # c => /\ NoticedBy(b, Orderly, d, Saw(b, d))
                                     /\ QueuedFor(b.client[d], txSent[d])
  PROVE  Keeps(Tx!DiscardTransaction(b, c), Orderly, {c})
<1> DEFINE s == Tx!DiscardTransaction(b, c)
<1>1. b \in Servers
  BY DEF Sound
<1>2. /\ s \in Servers /\ s.data = b.data /\ s.writes = b.writes /\ s.client[c] = Tx!Fresh
      /\ \A d \in Clients : d # c => s.client[d] = b.client[d]
      /\ \A p \in Tx!Places : Entries(s, p) = {w \in Entries(b, p) : w.client # c}
  BY <1>1, DiscardForgets
<1> HIDE DEF s
<1>3. Sound(s)
  BY <1>2, SoundWithout
<1>m. \A d : Mark(d, FALSE).client = d
  BY DEF Mark
<1>4. ASSUME NEW d \in Clients
      PROVE  /\ NoticedBy(s, Orderly, d, d \notin {c} /\ Saw(s, d))
             /\ QueuedFor(s.client[d], IF d \in {c} THEN <<>> ELSE txSent[d])
  <2>1. CASE d = c
    <3>1. ~Tx!Fresh.dirtyCas /\ QueuedFor(Tx!Fresh, <<>>)
      BY DEF Tx!Fresh, QueuedFor
    <3>2. \A p \in Tx!Places : Mark(c, FALSE) \notin Entries(s, p)
      BY <1>2, <1>m
    <3> QED BY <1>2, <2>1, <3>1, <3>2 DEF NoticedBy
  <2>2. CASE d # c
    <3>1. Saw(s, d) = Saw(b, d)
      BY <1>2 DEF Saw
    <3>2. \A p \in Tx!Places : Mark(d, FALSE) \in Entries(s, p) <=> Mark(d, FALSE) \in Entries(b, p)
      BY <1>2, <1>m, <2>2
    <3>3. NoticedBy(s, Orderly, d, Saw(b, d))
      BY <1>2, <2>2, <3>2, OthersNotice
    <3>4. (d \notin {c} /\ Saw(s, d)) = Saw(b, d)
      BY <2>2, <3>1 DEF Saw
    <3> QED BY <1>2, <2>2, <3>3, <3>4
  <2> QED BY <2>1, <2>2
<1>5. Keeps(s, Orderly, {c})
  BY <1>2, <1>3, <1>4 DEF Keeps, Sound
<1> QED BY <1>5 DEF s

(* CLIENT_DIRTY_CAS is a reason for a queue to be incomplete. *)
LEMMA QueuedDirty ==
  ASSUME NEW x \in ClientState, NEW commands, QueuedFor(x, commands)
  PROVE  QueuedFor([x EXCEPT !.dirtyCas = TRUE], commands)
BY DEF QueuedFor, ClientState

(* A write from outside a transaction. *)
LEMMA WriteKeeps ==
  ASSUME IInv, NEW p \in Tx!Places
  PROVE  Keeps(Tx!SetKey(Tx!Server, p), Orderly, {})
<1>1. Sound(Tx!Server) /\ Tx!Server.data = txData
  BY ServerNow
<1>2. PICK s : s = Tx!SetKey(Tx!Server, p)
  OBVIOUS
<1>3. Sound(s) /\ Ran(Tx!Server, s)
  BY <1>1, <1>2, RanNothing, RanStep
<1>4. ASSUME NEW c \in Clients
      PROVE  NoticedBy(s, Orderly, c, Saw(s, c)) /\ QueuedFor(s.client[c], txSent[c])
  <2>1. /\ NoticedBy(Tx!Server, Orderly, c, txChanged[c]) /\ QueuedFor(Tx!Server.client[c], txSent[c])
        /\ txChanged[c] \in BOOLEAN /\ Tx!Server.client[c] \in ClientState
    BY ServerNow
  <2>2. /\ Saw(s, c) \in BOOLEAN
        /\ Saw(s, c) <=> \/ txChanged[c]
                         \/ \E q \in Tx!Places : /\ c \in Tx!Watchers(Tx!Server, q)
                                                 /\ Tx!Logical(Tx!Server.data, q) # Tx!Logical(s.data, q)
    BY <1>1 DEF Saw
  <2>3. NoticedBy(s, Orderly, c, Saw(s, c))
    BY SMTT(30), <1>1, <1>3, <2>1, <2>2, RanNotices
  <2>4. s.client[c] = Tx!Server.client[c] \/ s.client[c] = [Tx!Server.client[c] EXCEPT !.dirtyCas = TRUE]
    BY <1>3 DEF Ran
  <2> QED BY <2>1, <2>3, <2>4, QueuedDirty
<1>5. \A c \in Clients : (c \notin {} /\ Saw(s, c)) = Saw(s, c)
  BY DEF Saw
<1> QED BY <1>2, <1>3, <1>4, <1>5 DEF Keeps, Sound

(* An EXEC that runs: the watches are dropped, the queue is called, the    *)
(* transaction is over.                                                    *)
LEMMA ExecKeeps ==
  ASSUME IInv, NEW c \in Clients
  PROVE  Keeps(Tx!DiscardTransaction(Tx!Call(Tx!UnwatchAllKeys(Tx!Server, {c}), txClient[c].queue), c), Orderly, {c})
<1>1. PICK b : b = Tx!UnwatchAllKeys(Tx!Server, {c})
  OBVIOUS
<1>2. /\ Sound(Tx!Server) /\ Tx!Server \in Servers /\ txClient[c].queue \in Seq(Tx!Places) /\ Tx!Server.data = txData
  BY ServerNow
<1>3. /\ b \in Servers /\ b.data = Tx!Server.data /\ b.client = Tx!Server.client /\ b.writes = Tx!Server.writes
      /\ \A p \in Tx!Places : Entries(b, p) = {w \in Entries(Tx!Server, p) : w.client \notin {c}}
  BY <1>1, <1>2, UnwatchKeeps
<1>4. Sound(b)
  BY <1>2, <1>3, SoundWithout
<1>5. PICK s : s = Tx!Call(b, txClient[c].queue)
  OBVIOUS
<1>6. Sound(s) /\ Ran(b, s)
  BY <1>2, <1>4, <1>5, CallRuns
<1>m. \A d : Mark(d, FALSE).client = d
  BY DEF Mark
<1>7. ASSUME NEW d \in Clients, d # c
      PROVE  NoticedBy(s, Orderly, d, Saw(s, d)) /\ QueuedFor(s.client[d], txSent[d])
  <2>1. /\ NoticedBy(Tx!Server, Orderly, d, txChanged[d]) /\ QueuedFor(Tx!Server.client[d], txSent[d])
        /\ txChanged[d] \in BOOLEAN /\ Tx!Server.client[d] \in ClientState
    BY ServerNow
  <2>2. \A p \in Tx!Places : Mark(d, FALSE) \in Entries(b, p) <=> Mark(d, FALSE) \in Entries(Tx!Server, p)
    BY <1>3, <1>m, <1>7
  <2>3. NoticedBy(b, Orderly, d, txChanged[d])
    BY <1>3, <2>1, <2>2, OthersNotice
  <2>4. ASSUME NEW p \in Tx!Places PROVE d \in Tx!Watchers(b, p) <=> d \in Tx!Watchers(Tx!Server, p)
    <3>1. d \in Tx!Watchers(b, p) <=> \E w \in Entries(b, p) : w.client = d
      BY <1>3, EntriesType
    <3>2. d \in Tx!Watchers(Tx!Server, p) <=> \E w \in Entries(Tx!Server, p) : w.client = d
      BY <1>2, EntriesType
    <3> QED BY <1>3, <1>7, <3>1, <3>2
  <2>5. /\ Saw(s, d) \in BOOLEAN
        /\ Saw(s, d) <=> \/ txChanged[d]
                         \/ \E p \in Tx!Places : /\ d \in Tx!Watchers(b, p)
                                                 /\ Tx!Logical(b.data, p) # Tx!Logical(s.data, p)
    BY <1>2, <1>3, <2>4 DEF Saw
  <2>6. NoticedBy(s, Orderly, d, Saw(s, d))
    BY SMTT(30), <1>4, <1>6, <2>1, <2>3, <2>5, RanNotices
  <2>7. s.client[d] = Tx!Server.client[d] \/ s.client[d] = [Tx!Server.client[d] EXCEPT !.dirtyCas = TRUE]
    BY <1>3, <1>6 DEF Ran
  <2> QED BY <2>1, <2>6, <2>7, QueuedDirty
<1>8. Keeps(Tx!DiscardTransaction(s, c), Orderly, {c})
  BY <1>6, <1>7, DiscardKeeps
<1> QED BY <1>1, <1>5, <1>8

(* An EXEC that is refused, and DISCARD. *)
LEMMA StoppedKeeps ==
  ASSUME IInv, NEW c \in Clients
  PROVE  Keeps(Tx!DiscardTransaction(Tx!Server, c), Orderly, {c})
<1>1. Sound(Tx!Server) /\ Tx!Server.data = txData
  BY ServerNow
<1>2. ASSUME NEW d \in Clients
      PROVE  NoticedBy(Tx!Server, Orderly, d, Saw(Tx!Server, d)) /\ QueuedFor(Tx!Server.client[d], txSent[d])
  BY SMTT(30), <1>1, ServerNow, SawNothing
<1> QED BY <1>1, <1>2, DiscardKeeps

(* Whoever watched a deleted key without having seen it expired is flagged *)
(* and, by the second clause of NoticedBy, the key has changed for them.   *)
LEMMA DeleteKeeps ==
  ASSUME IInv, NEW p \in Tx!Places, Tx!Exists(Tx!Server, p)
  PROVE  Keeps(Tx!DbDelete(Tx!Server, p), Orderly, {})
<1>1. Sound(Tx!Server) /\ Tx!Server.data = txData /\ Tx!Server \in Servers /\ Numbered(Tx!Server)
  BY ServerNow
<1>2. PICK s : s = Tx!DbDelete(Tx!Server, p)
  OBVIOUS
<1>3. PICK cs \in SUBSET Clients : DeletedAt(Tx!Server, p, s, cs)
  BY <1>1, <1>2, DeleteFlags
<1>4. /\ s \in Servers /\ s.writes = Tx!Server.writes /\ s.data[p] = Tx!NoKey
      /\ \A q \in Tx!Places : q # p => s.data[q] = txData[q]
      /\ \A q \in Tx!Places : q # p => Entries(s, q) = {w \in Entries(Tx!Server, q) : w.client \notin cs}
      /\ \A w \in Entries(s, p) : ~w.expired
      /\ \A c : c \in cs <=> Mark(c, FALSE) \in Entries(Tx!Server, p)
      /\ \A c \in Clients : s.client[c] = IF c \in cs THEN [txClient[c] EXCEPT !.dirtyCas = TRUE]
                                          ELSE txClient[c]
  BY <1>1, <1>3, ServerNow DEF DeletedAt
<1>5. Tx!NoKey.version = 0 /\ ~Tx!NoKey.expired
  BY DEF Tx!NoKey
<1>6. Numbered(s)
  <2>1. \A q \in Tx!Places : s.data[q] = txData[q] \/ (s.data[q].version = 0 /\ ~s.data[q].expired)
    BY <1>4, <1>5
  <2>2. Tx!Server.writes \in Nat
    BY <1>1, ServerFields
  <2> QED BY SMTT(30), <1>1, <1>4, <2>1, <2>2 DEF Numbered
<1>7. ASSUME Orderly PROVE FlagsCurrent(s)
  BY SMTT(30), <1>1, <1>4, <1>7 DEF Sound, FlagsCurrent
<1>m. \A d : Mark(d, FALSE).client = d /\ ~Mark(d, FALSE).expired
  BY DEF Mark
<1>8. Tx!Logical(s.data, p) = 0 /\ \A q \in Tx!Places : q # p => Tx!Logical(s.data, q) = Tx!Logical(txData, q)
  BY <1>4, <1>5 DEF Tx!Logical
<1>9. ASSUME NEW c \in Clients
      PROVE  NoticedBy(s, Orderly, c, Saw(s, c)) /\ QueuedFor(s.client[c], txSent[c])
  <2>1. /\ NoticedBy(Tx!Server, Orderly, c, txChanged[c]) /\ QueuedFor(txClient[c], txSent[c])
        /\ txChanged[c] \in BOOLEAN /\ txClient[c] \in ClientState /\ Tx!Server.client = txClient
    BY ServerNow
  <2>2. Saw(s, c) <=> txChanged[c] \/ (c \in Tx!Watchers(Tx!Server, p) /\ Tx!Logical(txData, p) # 0)
    BY <1>8 DEF Saw
  <2>3. ASSUME c \in cs PROVE Saw(s, c)
    <3>1. Mark(c, FALSE) \in Entries(Tx!Server, p)
      BY <1>4, <2>3
    <3>2. c \in Tx!Watchers(Tx!Server, p)
      BY <1>1, <1>m, <3>1, EntriesType
    <3>3. CASE txData[p].expired
      BY <1>1, <2>1, <2>2, <3>1, <3>3 DEF NoticedBy
    <3>4. CASE ~txData[p].expired
      <4>1. Tx!Logical(txData, p) # 0
        BY <1>1, <3>4 DEF Tx!Logical, Tx!Exists
      <4> QED BY <2>2, <3>2, <4>1
    <3> QED BY <3>3, <3>4
  <2>4. s.client[c].dirtyCas => Saw(s, c)
    BY <1>4, <2>1, <2>2, <2>3 DEF NoticedBy
  <2>5. ASSUME NEW q \in Tx!Places, s.data[q].expired, Mark(c, FALSE) \in Entries(s, q) PROVE Saw(s, c)
    <3>1. q # p
      BY <1>4, <1>5, <2>5
    <3> QED BY <1>1, <1>4, <2>1, <2>2, <2>5, <3>1 DEF NoticedBy
  <2>6. ASSUME Orderly, Saw(s, c) PROVE s.client[c].dirtyCas \/ Tx!IsWatchedKeyExpired(s, c)
    <3>1. c \in cs => s.client[c].dirtyCas
      BY <1>4, <2>1 DEF ClientState
    <3>2. txClient[c].dirtyCas => s.client[c].dirtyCas
      BY <1>4, <3>1
    <3>3. CASE txChanged[c]
      <4>1. CASE Tx!IsWatchedKeyExpired(Tx!Server, c)
        <5>1. PICK q \in Tx!Places : Tx!Server.data[q].expired /\ Mark(c, FALSE) \in Entries(Tx!Server, q)
          BY <4>1, ExpirySeen
        <5>2. CASE q = p
          BY <1>4, <3>1, <5>1, <5>2
        <5>3. CASE q # p /\ c \notin cs
          <6>1. s.data[q].expired /\ Mark(c, FALSE) \in Entries(s, q)
            <7>1. s.data[q].expired
              BY <1>1, <1>4, <5>1, <5>3
            <7>2. Entries(s, q) = {w \in Entries(Tx!Server, q) : w.client \notin cs}
              BY <1>4, <5>3
            <7> QED BY <1>m, <5>1, <5>3, <7>1, <7>2
          <6> QED BY <6>1, ExpirySeen
        <5> QED BY <3>1, <5>2, <5>3
      <4> QED BY <2>1, <2>6, <3>2, <3>3, <4>1 DEF NoticedBy
    <3>4. CASE c \in Tx!Watchers(Tx!Server, p) /\ Tx!Logical(txData, p) # 0
      <4>1. PICK w \in Entries(Tx!Server, p) : w.client = c
        BY <1>1, <3>4, EntriesType
      <4>2. ~txData[p].expired
        BY <3>4 DEF Tx!Logical
      <4>3. ~w.expired
        BY <1>1, <2>6, <4>1, <4>2 DEF Sound, FlagsCurrent
      <4>4. w = Mark(c, FALSE)
        <5>1. w = Mark(w.client, w.expired) /\ w.expired \in BOOLEAN
          BY <1>1, <4>1, EntriesType
        <5>2. w.expired = FALSE
          BY <4>3, <5>1
        <5> QED BY <4>1, <5>1, <5>2
      <4> QED BY <1>4, <3>1, <4>1, <4>4
    <3> QED BY <2>2, <2>6, <3>3, <3>4
  <2>7. QueuedFor(s.client[c], txSent[c])
    BY <1>4, <2>1, QueuedDirty
  <2> QED BY <2>4, <2>5, <2>6, <2>7 DEF NoticedBy
<1>10. \A c \in Clients : (c \notin {} /\ Saw(s, c)) = Saw(s, c)
  BY DEF Saw
<1> QED BY <1>2, <1>4, <1>6, <1>7, <1>9, <1>10 DEF Keeps

(* The state after a change of one client. *)
WithClient(s, c, x) == [s EXCEPT !.client = [s.client EXCEPT ![c] = x]]

(* A change of one client leaves the keys and the lists alone. *)
LEMMA ClientChanges ==
  ASSUME NEW s \in Servers, NEW c \in Clients, NEW x \in ClientState,
         NEW t, t = WithClient(s, c, x)
  PROVE  /\ t \in Servers /\ t.data = s.data /\ t.writes = s.writes /\ t.client[c] = x
         /\ \A d \in Clients : d # c => t.client[d] = s.client[d]
         /\ \A p \in Tx!Places : Entries(t, p) = Entries(s, p)
<1> DEFINE nc == [s.client EXCEPT ![c] = x]
<1>1. nc \in [Clients -> ClientState] /\ nc[c] = x /\ \A d \in Clients : d # c => nc[d] = s.client[d]
  BY ServerFields
<1>2. /\ t.data = s.data /\ t.writes = s.writes /\ t.watched = s.watched /\ t.client = nc
      /\ t = [data |-> t.data, watched |-> t.watched, client |-> t.client, writes |-> t.writes]
  <2>1. t = [s EXCEPT !.client = nc]
    BY DEF WithClient
  <2> HIDE DEF nc
  <2> QED BY <2>1 DEF Servers
<1>3. t \in Servers
  BY <1>1, <1>2 DEF Servers
<1> QED BY SMTT(30), <1>1, <1>2, <1>3 DEF Entries

(* MULTI. *)
LEMMA MultiKeeps ==
  ASSUME IInv, NEW c \in Clients, ~txClient[c].multi
  PROVE  Keeps([Tx!Server EXCEPT !.client[c].multi = TRUE], Orderly, {})
<1> DEFINE x == [txClient[c] EXCEPT !.multi = TRUE]
<1>1. /\ Sound(Tx!Server) /\ Tx!Server.data = txData /\ Tx!Server \in Servers /\ Tx!Server.client = txClient
      /\ Numbered(Tx!Server) /\ (Orderly => FlagsCurrent(Tx!Server))
      /\ txClient[c] \in ClientState
  BY ServerNow
<1>2. PICK s : s = [Tx!Server EXCEPT !.client[c].multi = TRUE]
  OBVIOUS
<1>3. s = WithClient(Tx!Server, c, x)
  BY <1>1, <1>2 DEF WithClient
<1>4. x \in ClientState /\ x.dirtyCas = txClient[c].dirtyCas /\ x.dirtyExec = txClient[c].dirtyExec
      /\ x.queue = txClient[c].queue /\ x.multi
  BY <1>1 DEF ClientState
<1> HIDE DEF x
<1>5. /\ s \in Servers /\ s.data = txData /\ s.writes = Tx!Server.writes /\ s.client[c] = x
      /\ \A d \in Clients : d # c => s.client[d] = txClient[d]
      /\ \A p \in Tx!Places : Entries(s, p) = Entries(Tx!Server, p)
  BY SMTT(30), <1>1, <1>3, <1>4, ClientChanges
<1>6. Sound(s)
  BY <1>1, <1>5, SoundWithout
<1>7. ASSUME NEW d \in Clients
      PROVE  NoticedBy(s, Orderly, d, txChanged[d]) /\ QueuedFor(s.client[d], txSent[d])
  <2>1. /\ NoticedBy(Tx!Server, Orderly, d, txChanged[d]) /\ QueuedFor(txClient[d], txSent[d])
        /\ txChanged[d] \in BOOLEAN
    BY ServerNow
  <2>2. Tx!IsWatchedKeyExpired(s, d) <=> Tx!IsWatchedKeyExpired(Tx!Server, d)
    BY <1>1, <1>5, ExpirySeen
  <2>3. s.client[d].dirtyCas = txClient[d].dirtyCas
    BY <1>4, <1>5
  <2>4. NoticedBy(s, Orderly, d, txChanged[d])
    BY <1>1, <1>5, <2>1, <2>2, <2>3 DEF NoticedBy
  <2>5. QueuedFor(s.client[d], txSent[d])
    BY <1>4, <1>5, <2>1 DEF QueuedFor
  <2> QED BY <2>4, <2>5
<1>8. \A d \in Clients : (d \notin {} /\ Saw(s, d)) = txChanged[d]
  BY SMTT(30), <1>5, SawNothing, ServerNow
<1> QED BY <1>2, <1>5, <1>6, <1>7, <1>8 DEF Keeps, Sound

(* UNWATCH: the client's entries and its CLIENT_DIRTY_CAS go together. *)
LEMMA UnwatchForgets ==
  ASSUME IInv, NEW c \in Clients, ~txClient[c].multi
  PROVE  Keeps([Tx!UnwatchAllKeys(Tx!Server, {c}) EXCEPT !.client[c].dirtyCas = FALSE], Orderly, {c})
<1> DEFINE x == [txClient[c] EXCEPT !.dirtyCas = FALSE]
<1>1. /\ Sound(Tx!Server) /\ Tx!Server.data = txData /\ Tx!Server \in Servers /\ Tx!Server.client = txClient
      /\ txClient[c] \in ClientState
  BY ServerNow
<1>2. PICK u : u = Tx!UnwatchAllKeys(Tx!Server, {c})
  OBVIOUS
<1>3. /\ u \in Servers /\ u.data = txData /\ u.client = txClient /\ u.writes = Tx!Server.writes
      /\ \A p \in Tx!Places : Entries(u, p) = {w \in Entries(Tx!Server, p) : w.client \notin {c}}
  BY <1>1, <1>2, UnwatchKeeps
<1>4. PICK s : s = [u EXCEPT !.client[c].dirtyCas = FALSE]
  OBVIOUS
<1>5. s = WithClient(u, c, x)
  BY <1>3, <1>4 DEF WithClient
<1>6. x \in ClientState /\ ~x.dirtyCas /\ x.dirtyExec = txClient[c].dirtyExec
      /\ x.queue = txClient[c].queue /\ x.multi = txClient[c].multi
  BY <1>1 DEF ClientState
<1> HIDE DEF x
<1>7. /\ s \in Servers /\ s.data = txData /\ s.writes = Tx!Server.writes /\ s.client[c] = x
      /\ \A d \in Clients : d # c => s.client[d] = txClient[d]
      /\ \A p \in Tx!Places : Entries(s, p) = {w \in Entries(Tx!Server, p) : w.client \notin {c}}
  <2>1. /\ s \in Servers /\ s.data = u.data /\ s.writes = u.writes /\ s.client[c] = x
        /\ \A d \in Clients : d # c => s.client[d] = u.client[d]
        /\ \A p \in Tx!Places : Entries(s, p) = Entries(u, p)
    <3>1. u \in Servers
      BY <1>3
    <3> QED BY SMTT(30), <1>5, <1>6, <3>1, ClientChanges
  <2> QED BY <1>3, <2>1
<1>8. Sound(s)
  BY <1>1, <1>7, SoundWithout
<1>m. \A d : Mark(d, FALSE).client = d
  BY DEF Mark
<1>9. ASSUME NEW d \in Clients
      PROVE  /\ NoticedBy(s, Orderly, d, d \notin {c} /\ Saw(s, d))
             /\ QueuedFor(s.client[d], IF d \in {c} THEN <<>> ELSE txSent[d])
  <2>1. /\ NoticedBy(Tx!Server, Orderly, d, txChanged[d]) /\ QueuedFor(txClient[d], txSent[d])
        /\ txChanged[d] \in BOOLEAN
    BY ServerNow
  <2>2. CASE d = c
    <3>1. \A p \in Tx!Places : Mark(c, FALSE) \notin Entries(s, p)
      BY <1>7, <1>m
    <3>2. NoticedBy(s, Orderly, d, FALSE)
      BY <1>6, <1>7, <2>2, <3>1 DEF NoticedBy
    <3>3. QueuedFor(x, <<>>)
      BY <1>6, <2>1, <2>2 DEF QueuedFor
    <3> QED BY <1>7, <2>2, <3>2, <3>3
  <2>3. CASE d # c
    <3>1. \A p \in Tx!Places : Mark(d, FALSE) \in Entries(s, p) <=> Mark(d, FALSE) \in Entries(Tx!Server, p)
      BY <1>7, <1>m, <2>3
    <3>2. NoticedBy(s, Orderly, d, txChanged[d])
      BY <1>1, <1>7, <2>1, <2>3, <3>1, OthersNotice
    <3>3. (d \notin {c} /\ Saw(s, d)) = txChanged[d]
      BY SMTT(30), <1>7, <2>1, <2>3, SawNothing
    <3> QED BY <1>7, <2>1, <2>3, <3>2, <3>3
  <2> QED BY <2>2, <2>3
<1>10. Keeps(s, Orderly, {c})
  BY <1>7, <1>8, <1>9 DEF Keeps, Sound
<1> QED BY <1>2, <1>4, <1>10

(* WATCH: a new entry remembers whether the key had expired already. *)
LEMMA WatchKeeps ==
  ASSUME IInv, NEW c \in Clients, NEW p \in Tx!Places
  PROVE  Keeps(Tx!WatchForKey(Tx!Server, c, p), Orderly, {})
<1>1. /\ Sound(Tx!Server) /\ Tx!Server.data = txData /\ Tx!Server \in Servers /\ Tx!Server.client = txClient
      /\ Tx!Server.watched = txWatched /\ txData[p].expired \in BOOLEAN
  BY ServerNow, ServerFields
<1>2. PICK s : s = Tx!WatchForKey(Tx!Server, c, p)
  OBVIOUS
<1> DEFINE e == Mark(c, txData[p].expired)
<1>3. /\ s \in Servers /\ s.data = txData /\ s.writes = Tx!Server.writes /\ s.client = txClient
      /\ \A q \in Tx!Places : q # p => Entries(s, q) = Entries(Tx!Server, q)
      /\ Entries(s, p) = Entries(Tx!Server, p) \/ Entries(s, p) = Entries(Tx!Server, p) \cup {e}
  <2>1. CASE c \in Tx!Watchers(Tx!Server, p)
    BY <1>1, <1>2, <2>1 DEF Tx!WatchForKey
  <2>2. CASE c \notin Tx!Watchers(Tx!Server, p)
    <3> DEFINE l == txWatched[p]
               nl == Append(l, e)
               nw == [txWatched EXCEPT ![p] = nl]
    <3>1. s = [Tx!Server EXCEPT !.watched = nw]
      BY <1>1, <1>2, <2>2 DEF Tx!WatchForKey, Mark
    <3>2. txWatched \in [Tx!Places -> Seq(Entry)]
      BY <1>1 DEF Servers
    <3>3. e \in Entry
      BY <1>1 DEF Mark, Entry
    <3>l. l \in Seq(Entry) /\ Len(l) \in Nat
      BY SMTT(30), <3>2
    <3> HIDE DEF e, l
    <3>4. nl \in Seq(Entry) /\ DOMAIN nl = 1 .. Len(l) + 1 /\ nl[Len(l) + 1] = e
          /\ DOMAIN l = 1 .. Len(l) /\ \A i \in 1 .. Len(l) : nl[i] = l[i]
      BY SMTT(30), <3>3, <3>l
    <3> HIDE DEF nl
    <3>5. nw \in [Tx!Places -> Seq(Entry)] /\ nw[p] = nl /\ \A q \in Tx!Places : q # p => nw[q] = txWatched[q]
      BY <3>2, <3>4
    <3> HIDE DEF nw
    <3>6. /\ s.data = Tx!Server.data /\ s.writes = Tx!Server.writes /\ s.client = Tx!Server.client /\ s.watched = nw
          /\ s = [data |-> s.data, watched |-> s.watched, client |-> s.client, writes |-> s.writes]
      BY <1>1, <3>1 DEF Servers
    <3>7. s \in Servers
      BY <1>1, <3>5, <3>6 DEF Servers
    <3>8. \A q \in Tx!Places : q # p => Entries(s, q) = Entries(Tx!Server, q)
      BY <1>1, <3>5, <3>6 DEF Entries
    <3>9. Entries(s, p) = Entries(Tx!Server, p) \cup {e}
      <4>1. Entries(s, p) = {nl[i] : i \in 1 .. Len(l) + 1}
        BY <3>4, <3>5, <3>6 DEF Entries
      <4>2. Entries(Tx!Server, p) = {l[i] : i \in 1 .. Len(l)}
        BY <1>1, <3>4 DEF Entries, l
      <4>3. \A i : i \in 1 .. Len(l) + 1 <=> i \in 1 .. Len(l) \/ i = Len(l) + 1
        BY SMTT(30), <3>l
      <4> QED BY <3>4, <4>1, <4>2, <4>3, Zenon
    <3> QED BY <1>1, <3>6, <3>7, <3>8, <3>9
  <2> QED BY <2>1, <2>2
<1>m. e.client = c /\ e.expired = txData[p].expired /\ \A d : ~Mark(d, FALSE).expired
  BY DEF Mark
<1> HIDE DEF e
<1>4. Numbered(s)
  BY <1>1, <1>3 DEF Numbered, Sound
<1>5. ASSUME Orderly PROVE FlagsCurrent(s)
  <2>1. ASSUME NEW q \in Tx!Places, NEW w \in Entries(s, q), w.expired PROVE txData[q].expired
    <3>1. w \in Entries(Tx!Server, q) => txData[q].expired
      BY <1>1, <1>5, <2>1 DEF FlagsCurrent, Sound
    <3>2. w \in Entries(Tx!Server, q) \/ (q = p /\ w = e)
      BY <1>3
    <3> QED BY <1>m, <2>1, <3>1, <3>2
  <2> QED BY <1>3, <2>1 DEF FlagsCurrent
<1>6. ASSUME NEW d \in Clients
      PROVE  NoticedBy(s, Orderly, d, txChanged[d]) /\ QueuedFor(s.client[d], txSent[d])
  <2>1. /\ NoticedBy(Tx!Server, Orderly, d, txChanged[d]) /\ QueuedFor(txClient[d], txSent[d])
        /\ txChanged[d] \in BOOLEAN
    BY ServerNow
  <2>2. ASSUME NEW q \in Tx!Places, txData[q].expired
        PROVE  Mark(d, FALSE) \in Entries(s, q) <=> Mark(d, FALSE) \in Entries(Tx!Server, q)
    <3>1. CASE q # p
      BY <1>3, <3>1
    <3>2. CASE q = p
      <4>1. Mark(d, FALSE) # e
        BY <1>m, <2>2, <3>2
      <4> QED BY <1>3, <3>2, <4>1
    <3> QED BY <3>1, <3>2
  <2>3. Tx!IsWatchedKeyExpired(s, d) <=> Tx!IsWatchedKeyExpired(Tx!Server, d)
    BY <1>1, <1>3, <2>2, ExpirySeen
  <2> QED BY <1>1, <1>3, <2>1, <2>2, <2>3 DEF NoticedBy
<1>7. \A d \in Clients : (d \notin {} /\ Saw(s, d)) = txChanged[d]
  BY SMTT(30), <1>3, SawNothing, ServerNow
<1> QED BY <1>2, <1>3, <1>4, <1>5, <1>6, <1>7 DEF Keeps

(* A time to live passes: every watcher that saw the key alive is owed an  *)
(* abort.                                                                  *)
LEMMA TtlKeeps ==
  ASSUME IInv, NEW p \in Tx!Places, Tx!Exists(Tx!Server, p), ~txData[p].expired
  PROVE  Keeps([Tx!Server EXCEPT !.data[p].expired = TRUE], Orderly, {})
<1> DEFINE v == [txData[p] EXCEPT !.expired = TRUE]
           nd == [txData EXCEPT ![p] = v]
<1>1. /\ Sound(Tx!Server) /\ Tx!Server.data = txData /\ Tx!Server \in Servers /\ Tx!Server.client = txClient
      /\ txData \in [Tx!Places -> Value] /\ Numbered(Tx!Server)
  BY SMTT(30), ServerNow, ServerFields
<1>2. PICK s : s = [Tx!Server EXCEPT !.data[p].expired = TRUE]
  OBVIOUS
<1>3. s = [Tx!Server EXCEPT !.data = nd]
  BY <1>1, <1>2
<1>4. v \in Value /\ v.expired /\ v.version = txData[p].version /\ txData[p].version # 0
  BY <1>1 DEF Value, Tx!Exists
<1> HIDE DEF v
<1>5. nd \in [Tx!Places -> Value] /\ nd[p] = v /\ \A q \in Tx!Places : q # p => nd[q] = txData[q]
  BY <1>1, <1>4
<1> HIDE DEF nd
<1>6. /\ s.writes = Tx!Server.writes /\ s.watched = Tx!Server.watched /\ s.client = txClient /\ s.data = nd
      /\ s = [data |-> s.data, watched |-> s.watched, client |-> s.client, writes |-> s.writes]
  BY <1>1, <1>3 DEF Servers
<1>7. s \in Servers
  BY <1>1, <1>5, <1>6 DEF Servers
<1>8. \A q \in Tx!Places : Entries(s, q) = Entries(Tx!Server, q)
  BY <1>6 DEF Entries
<1>9. \A q \in Tx!Places : s.data[q].version = txData[q].version
  BY <1>4, <1>5, <1>6
<1>10. Numbered(s)
  BY SMTT(30), <1>1, <1>4, <1>5, <1>6, <1>9 DEF Numbered
<1>11. ASSUME Orderly PROVE FlagsCurrent(s)
  BY <1>1, <1>4, <1>5, <1>6, <1>8, <1>11 DEF Sound, FlagsCurrent
<1>12. /\ Tx!Logical(s.data, p) = 0 /\ Tx!Logical(txData, p) # 0
       /\ \A q \in Tx!Places : q # p => Tx!Logical(s.data, q) = Tx!Logical(txData, q)
  BY <1>4, <1>5, <1>6 DEF Tx!Logical
<1>m. \A d : Mark(d, FALSE).client = d
  BY DEF Mark
<1>13. ASSUME NEW c \in Clients
       PROVE  NoticedBy(s, Orderly, c, Saw(s, c)) /\ QueuedFor(s.client[c], txSent[c])
  <2>1. /\ NoticedBy(Tx!Server, Orderly, c, txChanged[c]) /\ QueuedFor(txClient[c], txSent[c])
        /\ txChanged[c] \in BOOLEAN
    BY ServerNow
  <2>2. Saw(s, c) <=> txChanged[c] \/ c \in Tx!Watchers(Tx!Server, p)
    BY <1>12 DEF Saw
  <2>3. ASSUME NEW q \in Tx!Places, s.data[q].expired, Mark(c, FALSE) \in Entries(s, q) PROVE Saw(s, c)
    <3>1. CASE q = p
      <4>1. c \in Tx!Watchers(Tx!Server, p)
        <5>1. Mark(c, FALSE) \in Entries(Tx!Server, p)
          BY <1>8, <2>3, <3>1
        <5> QED BY <1>1, <1>m, <5>1, EntriesType
      <4> QED BY <2>2, <4>1
    <3>2. CASE q # p
      BY <1>1, <1>5, <1>6, <1>8, <2>1, <2>2, <2>3, <3>2 DEF NoticedBy
    <3> QED BY <3>1, <3>2
  <2>4. ASSUME Orderly, Saw(s, c) PROVE s.client[c].dirtyCas \/ Tx!IsWatchedKeyExpired(s, c)
    <3>1. CASE txChanged[c]
      <4>1. CASE Tx!IsWatchedKeyExpired(Tx!Server, c)
        <5>1. PICK q \in Tx!Places : txData[q].expired /\ Mark(c, FALSE) \in Entries(Tx!Server, q)
          BY <1>1, <4>1, ExpirySeen
        <5>2. s.data[q].expired /\ Mark(c, FALSE) \in Entries(s, q)
          BY <1>5, <1>6, <1>8, <5>1
        <5> QED BY <5>2, ExpirySeen
      <4> QED BY <1>1, <1>6, <2>1, <2>4, <3>1, <4>1 DEF NoticedBy
    <3>2. CASE c \in Tx!Watchers(Tx!Server, p)
      <4>1. PICK w \in Entries(Tx!Server, p) : w.client = c
        BY <1>1, <3>2, EntriesType
      <4>2. w = Mark(w.client, w.expired) /\ w.expired \in BOOLEAN
        BY <1>1, <4>1, EntriesType
      <4>3. w.expired = FALSE
        BY <1>1, <2>4, <4>1, <4>2 DEF Sound, FlagsCurrent
      <4>4. s.data[p].expired /\ Mark(c, FALSE) \in Entries(s, p)
        BY <1>4, <1>5, <1>6, <1>8, <4>1, <4>2, <4>3
      <4> QED BY <4>4, ExpirySeen
    <3> QED BY <2>2, <2>4, <3>1, <3>2
  <2>5. s.client[c].dirtyCas => Saw(s, c)
    BY <1>1, <1>6, <2>1, <2>2 DEF NoticedBy
  <2>6. NoticedBy(s, Orderly, c, Saw(s, c))
    BY <2>3, <2>4, <2>5 DEF NoticedBy
  <2> QED BY <1>6, <2>1, <2>6
<1>14. \A c \in Clients : (c \notin {} /\ Saw(s, c)) = Saw(s, c)
  BY DEF Saw
<1> QED BY <1>2, <1>7, <1>10, <1>11, <1>13, <1>14 DEF Keeps

(* touchAllWatchedKeysInDb: whom it flags, and what becomes of an entry. *)
Fate(s, other, p, w) == Tx!Replaced(s, w, p, {<<o, p[2]>> : o \in other})

After(s, other, p, w) ==
  CASE Fate(s, other, p, w) = "deleted" -> [w EXCEPT !.expired = FALSE]
    [] Fate(s, other, p, w) = "expired" -> [w EXCEPT !.expired = TRUE]
    [] OTHER -> w

TouchedIn(s, db, other, t, cs) ==
  /\ t \in Servers /\ t.data = s.data /\ t.writes = s.writes
  /\ \A c \in Clients : t.client[c] = IF c \in cs THEN [s.client[c] EXCEPT !.dirtyCas = TRUE]
                                      ELSE s.client[c]
  /\ \A c \in Clients : c \in cs <=> \E p \in Tx!Places : \E w \in Entries(s, p) :
                          p[1] = db /\ w.client = c /\ Fate(s, other, p, w) = "touched"
  /\ \A p \in Tx!Places : \A w : w \in Entries(t, p) <=>
       IF p[1] = db THEN \E x \in Entries(s, p) : w = After(s, other, p, x) ELSE w \in Entries(s, p)

(* What touchAllWatchedKeysInDb makes of an entry. *)
LEMMA AfterIs ==
  ASSUME NEW s, NEW other, NEW p, NEW w \in Entry
  PROVE  /\ After(s, other, p, w) \in Entry /\ After(s, other, p, w).client = w.client
         /\ Fate(s, other, p, w) = "deleted" => ~After(s, other, p, w).expired
         /\ Fate(s, other, p, w) = "expired" => After(s, other, p, w).expired
         /\ Fate(s, other, p, w) \notin {"deleted", "expired"} => After(s, other, p, w) = w
<1>1. ASSUME NEW b \in BOOLEAN
      PROVE  [w EXCEPT !.expired = b] \in Entry /\ [w EXCEPT !.expired = b].client = w.client
             /\ [w EXCEPT !.expired = b].expired = b
  BY DEF Entry
<1>2. CASE Fate(s, other, p, w) = "deleted"
  <2>1. After(s, other, p, w) = [w EXCEPT !.expired = FALSE]
    BY <1>2 DEF After
  <2> QED BY <1>1, <1>2, <2>1
<1>3. CASE Fate(s, other, p, w) = "expired"
  <2>1. After(s, other, p, w) = [w EXCEPT !.expired = TRUE]
    BY <1>3 DEF After
  <2> QED BY <1>1, <1>3, <2>1
<1>4. CASE Fate(s, other, p, w) \notin {"deleted", "expired"}
  <2>1. After(s, other, p, w) = w
    BY <1>4 DEF After
  <2> QED BY <1>4, <2>1
<1> QED BY <1>2, <1>3, <1>4

(* touchAllWatchedKeysInDb, for every entry of every key of the database. *)
LEMMA TouchAllFlags ==
  ASSUME NEW s \in Servers, NEW db \in Dbs, NEW other \in SUBSET Dbs
  PROVE  \E cs \in SUBSET Clients :
           TouchedIn(s, db, other, Tx!TouchAllWatchedKeysInDb(s, db, other), cs)
<1> DEFINE cs == {c \in Clients : \E p \in {db} \X Keys : \E i \in DOMAIN s.watched[p] :
                    s.watched[p][i].client = c /\ Fate(s, other, p, s.watched[p][i]) = "touched"}
           nw == [p \in Tx!Places |-> IF p[1] # db THEN s.watched[p]
                                   ELSE [i \in DOMAIN s.watched[p] |-> After(s, other, p, s.watched[p][i])]]
           m == Tx!MarkDirty(s, cs)
           t == Tx!TouchAllWatchedKeysInDb(s, db, other)
<1>1. t = [m EXCEPT !.watched = nw]
  BY DEF Tx!TouchAllWatchedKeysInDb, Fate, After
<1>2. ASSUME NEW p \in Tx!Places
      PROVE  s.watched[p] \in Seq(Entry) /\ \A i \in DOMAIN s.watched[p] : s.watched[p][i] \in Entry
  BY SMTT(30) DEF Servers
<1>3. ASSUME NEW p \in Tx!Places
      PROVE  nw[p] \in Seq(Entry) /\ DOMAIN nw[p] = DOMAIN s.watched[p]
  <2>1. CASE p[1] # db
    BY <1>2, <2>1
  <2>2. CASE p[1] = db
    <3> DEFINE l == s.watched[p]
               nl == [i \in DOMAIN l |-> After(s, other, p, l[i])]
    <3>1. nw[p] = nl
      BY <2>2
    <3>2. l \in Seq(Entry) /\ DOMAIN l = 1 .. Len(l) /\ Len(l) \in Nat
      BY SMTT(30), <1>2
    <3>3. \A i \in DOMAIN l : After(s, other, p, l[i]) \in Entry
      BY <1>2, AfterIs
    <3>4. nl \in [1 .. Len(l) -> Entry]
      BY <3>2, <3>3
    <3> QED BY SMTT(30), <3>1, <3>2, <3>4
  <2> QED BY <2>1, <2>2
<1>4. ASSUME NEW c \in Clients
      PROVE  c \in cs <=> \E p \in Tx!Places : \E w \in Entries(s, p) :
                            p[1] = db /\ w.client = c /\ Fate(s, other, p, w) = "touched"
  <2>1. \A p : p \in {db} \X Keys <=> p \in Tx!Places /\ p[1] = db
    BY DEF Tx!Places
  <2>2. \A p, w : w \in Entries(s, p) <=> \E i \in DOMAIN s.watched[p] : w = s.watched[p][i]
    BY DEF Entries
  <2>3. c \in cs <=> \E p \in {db} \X Keys : \E w \in Entries(s, p) :
                       w.client = c /\ Fate(s, other, p, w) = "touched"
    <3>1. c \in cs <=> \E p \in {db} \X Keys : \E i \in DOMAIN s.watched[p] :
             s.watched[p][i].client = c /\ Fate(s, other, p, s.watched[p][i]) = "touched"
      OBVIOUS
    <3>2. ASSUME NEW p
          PROVE  (\E i \in DOMAIN s.watched[p] :
                    s.watched[p][i].client = c /\ Fate(s, other, p, s.watched[p][i]) = "touched")
                 <=> \E w \in Entries(s, p) : w.client = c /\ Fate(s, other, p, w) = "touched"
      BY SMTT(30), <2>2
    <3> HIDE DEF cs
    <3> QED BY <3>1, <3>2, Zenon
  <2> HIDE DEF cs
  <2> QED BY <2>1, <2>3, Zenon
<1>5. /\ m \in Servers /\ m.data = s.data /\ m.writes = s.writes
      /\ \A c \in Clients : m.client[c] = IF c \in cs THEN [s.client[c] EXCEPT !.dirtyCas = TRUE]
                                          ELSE s.client[c]
  <2> HIDE DEF cs
  <2> QED BY SMTT(30), MarkDirtyType
<1>6. \A p \in Tx!Places : nw[p] = IF p[1] # db THEN s.watched[p]
                                ELSE [i \in DOMAIN s.watched[p] |-> After(s, other, p, s.watched[p][i])]
  OBVIOUS
<1>7. nw \in [Tx!Places -> Seq(Entry)]
  BY <1>3
<1>c. cs \in SUBSET Clients
  OBVIOUS
<1> HIDE DEF cs, nw, m, t
<1>8. /\ t.data = m.data /\ t.writes = m.writes /\ t.client = m.client /\ t.watched = nw
      /\ t = [data |-> t.data, watched |-> t.watched, client |-> t.client, writes |-> t.writes]
  BY <1>1, <1>5 DEF Servers
<1>9. t \in Servers
  BY <1>5, <1>7, <1>8 DEF Servers
<1>10. ASSUME NEW p \in Tx!Places, NEW w
       PROVE  w \in Entries(t, p) <=>
                IF p[1] = db THEN \E x \in Entries(s, p) : w = After(s, other, p, x) ELSE w \in Entries(s, p)
  <2>1. w \in Entries(t, p) <=> \E i \in DOMAIN s.watched[p] : w = nw[p][i]
    BY <1>3, <1>8 DEF Entries
  <2>2. CASE p[1] # db
    <3>1. nw[p] = s.watched[p]
      BY <1>6, <2>2
    <3> QED BY <2>1, <2>2, <3>1 DEF Entries
  <2>3. CASE p[1] = db
    <3>1. \A i \in DOMAIN s.watched[p] : nw[p][i] = After(s, other, p, s.watched[p][i])
      BY <1>6, <2>3
    <3> QED BY <2>1, <2>3, <3>1 DEF Entries
  <2> QED BY <2>2, <2>3
<1>11. TouchedIn(s, db, other, t, cs)
  BY <1>4, <1>5, <1>8, <1>9, <1>10 DEF TouchedIn
<1> QED BY <1>c, <1>11 DEF t

(* The state after new data is put in place. *)
WithData(s, nd) == [s EXCEPT !.data = nd]

(* New data leave the lists and the clients alone. *)
LEMMA DataChanges ==
  ASSUME NEW s \in Servers, NEW nd \in [Tx!Places -> Value], NEW t, t = WithData(s, nd)
  PROVE  /\ t \in Servers /\ t.data = nd /\ t.writes = s.writes /\ t.client = s.client
         /\ \A p \in Tx!Places : Entries(t, p) = Entries(s, p)
<1>1. /\ t.data = nd /\ t.writes = s.writes /\ t.client = s.client /\ t.watched = s.watched
      /\ t = [data |-> t.data, watched |-> t.watched, client |-> t.client, writes |-> t.writes]
  BY DEF WithData, Servers
<1>2. t \in Servers
  BY <1>1 DEF Servers
<1> QED BY <1>1, <1>2 DEF Entries

(* FLUSHDB. *)
LEMMA FlushKeeps ==
  ASSUME IInv, NEW db \in Dbs
  PROVE  Keeps(Tx!FlushDb(Tx!Server, db), Orderly, {})
<1>1. /\ Sound(Tx!Server) /\ Tx!Server.data = txData /\ Tx!Server \in Servers /\ Tx!Server.client = txClient
      /\ txData \in [Tx!Places -> Value] /\ Numbered(Tx!Server) /\ Tx!Server.writes \in Nat
  BY ServerNow, ServerFields
<1>2. PICK t : t = Tx!TouchAllWatchedKeysInDb(Tx!Server, db, {})
  OBVIOUS
<1>3. PICK cs \in SUBSET Clients : TouchedIn(Tx!Server, db, {}, t, cs)
  BY <1>1, <1>2, TouchAllFlags
<1>4. PICK s : s = Tx!FlushDb(Tx!Server, db)
  OBVIOUS
<1> DEFINE nd == [p \in Tx!Places |-> IF p[1] = db THEN Tx!NoKey ELSE t.data[p]]
<1>5. s = WithData(t, nd)
  BY <1>2, <1>4 DEF Tx!FlushDb, WithData
<1>6. t \in Servers /\ t.data = txData /\ t.writes = Tx!Server.writes
  BY <1>1, <1>3 DEF TouchedIn
<1>7. Tx!NoKey \in Value /\ Tx!NoKey.version = 0 /\ ~Tx!NoKey.expired
  BY DEF Tx!NoKey, Value
<1>8. /\ nd \in [Tx!Places -> Value]
      /\ \A p \in Tx!Places : nd[p] = IF p[1] = db THEN Tx!NoKey ELSE txData[p]
  BY <1>1, <1>6, <1>7
<1> HIDE DEF nd
<1>9. /\ s \in Servers /\ s.data = nd /\ s.writes = Tx!Server.writes /\ s.client = t.client
      /\ \A p \in Tx!Places : Entries(s, p) = Entries(t, p)
  BY SMTT(30), <1>5, <1>6, <1>8, DataChanges
<1>10. ASSUME NEW p \in Tx!Places, NEW w
       PROVE  /\ ~Tx!Exists(Tx!Server, p) => Fate(Tx!Server, {}, p, w) = "same"
              /\ Tx!Exists(Tx!Server, p) /\ w.expired => Fate(Tx!Server, {}, p, w) = "deleted"
              /\ Tx!Exists(Tx!Server, p) /\ ~w.expired => Fate(Tx!Server, {}, p, w) = "touched"
  <2>1. {<<o, p[2]>> : o \in {}} = {}
    OBVIOUS
  <2> QED BY <2>1 DEF Fate, Tx!Replaced
<1>11. /\ \A p \in Tx!Places : p[1] # db => Entries(s, p) = Entries(Tx!Server, p)
       /\ \A p \in Tx!Places : p[1] = db =>
            \A w : w \in Entries(s, p) <=> \E x \in Entries(Tx!Server, p) : w = After(Tx!Server, {}, p, x)
  BY <1>3, <1>9 DEF TouchedIn
<1>12. Numbered(s)
  <2>1. \A p \in Tx!Places : s.data[p] = txData[p] \/ (s.data[p].version = 0 /\ ~s.data[p].expired)
    BY <1>7, <1>8, <1>9
  <2> QED BY SMTT(30), <1>1, <1>9, <2>1 DEF Numbered
<1>13. ASSUME Orderly PROVE FlagsCurrent(s)
  <2>1. ASSUME NEW p \in Tx!Places, NEW w \in Entries(s, p), w.expired PROVE s.data[p].expired
    <3>1. CASE p[1] # db
      BY <1>1, <1>8, <1>9, <1>11, <1>13, <2>1, <3>1 DEF Sound, FlagsCurrent
    <3>2. CASE p[1] = db
      <4>1. PICK x \in Entries(Tx!Server, p) : w = After(Tx!Server, {}, p, x)
        BY <1>11, <3>2
      <4>2. x \in Entry
        BY <1>1, EntriesType
      <4>3. CASE Tx!Exists(Tx!Server, p) /\ x.expired
        BY <1>10, <2>1, <4>1, <4>2, <4>3, AfterIs
      <4>4. CASE ~(Tx!Exists(Tx!Server, p) /\ x.expired)
        <5>1. w = x
          BY SMTT(30), <1>10, <4>1, <4>2, <4>4, AfterIs
        <5>2. txData[p].expired
          BY <1>1, <1>13, <2>1, <5>1 DEF Sound, FlagsCurrent
        <5>3. Tx!Exists(Tx!Server, p)
          BY <1>1, <5>2 DEF Numbered, Tx!Exists
        <5> QED BY <2>1, <4>4, <5>1, <5>3
      <4> QED BY <4>3, <4>4
    <3> QED BY <3>1, <3>2
  <2> QED BY <2>1 DEF FlagsCurrent
<1>m. \A d : Mark(d, FALSE).client = d /\ ~Mark(d, FALSE).expired
  BY DEF Mark
<1>14. \A p \in Tx!Places : /\ p[1] = db => Tx!Logical(s.data, p) = 0 /\ ~s.data[p].expired
                            /\ p[1] # db => Tx!Logical(s.data, p) = Tx!Logical(txData, p) /\ s.data[p] = txData[p]
  BY <1>7, <1>8, <1>9 DEF Tx!Logical
<1>15. ASSUME NEW c \in Clients
       PROVE  NoticedBy(s, Orderly, c, Saw(s, c)) /\ QueuedFor(s.client[c], txSent[c])
  <2>1. /\ NoticedBy(Tx!Server, Orderly, c, txChanged[c]) /\ QueuedFor(txClient[c], txSent[c])
        /\ txChanged[c] \in BOOLEAN /\ txClient[c] \in ClientState
    BY ServerNow
  <2>2. s.client[c] = IF c \in cs THEN [txClient[c] EXCEPT !.dirtyCas = TRUE] ELSE txClient[c]
    BY <1>1, <1>3, <1>9 DEF TouchedIn
  <2>d. [txClient[c] EXCEPT !.dirtyCas = TRUE].dirtyCas
    BY <2>1 DEF ClientState
  <2>3. ASSUME c \in cs PROVE Saw(s, c)
    <3>0. PICK p \in Tx!Places : \E w \in Entries(Tx!Server, p) :
            p[1] = db /\ w.client = c /\ Fate(Tx!Server, {}, p, w) = "touched"
      BY <1>3, <2>3 DEF TouchedIn
    <3>1. PICK w \in Entries(Tx!Server, p) :
            p[1] = db /\ w.client = c /\ Fate(Tx!Server, {}, p, w) = "touched"
      BY <3>0
    <3>2. w = Mark(w.client, w.expired) /\ w.expired \in BOOLEAN /\ c \in Tx!Watchers(Tx!Server, p)
      BY <1>1, <3>1, EntriesType
    <3>3. Tx!Exists(Tx!Server, p) /\ w.expired = FALSE
      BY <1>10, <3>1, <3>2
    <3>4. CASE txData[p].expired
      <4>1. Mark(c, FALSE) \in Entries(Tx!Server, p)
        BY <3>1, <3>2, <3>3
      <4>2. txChanged[c]
        BY <1>1, <2>1, <3>4, <4>1 DEF NoticedBy
      <4> QED BY <4>2 DEF Saw
    <3>5. CASE ~txData[p].expired
      <4>1. Tx!Logical(txData, p) # 0
        BY <1>1, <3>3, <3>5 DEF Tx!Logical, Tx!Exists
      <4> QED BY <1>14, <3>1, <3>2, <4>1 DEF Saw
    <3> QED BY <3>4, <3>5
  <2>4. s.client[c].dirtyCas => Saw(s, c)
    <3>1. txClient[c].dirtyCas => txChanged[c]
      BY <1>1, <2>1 DEF NoticedBy
    <3> QED BY <2>2, <2>3, <3>1 DEF Saw
  <2>5. ASSUME NEW p \in Tx!Places, s.data[p].expired, Mark(c, FALSE) \in Entries(s, p) PROVE Saw(s, c)
    <3>1. p[1] # db
      BY <1>14, <2>5
    <3>2. txChanged[c]
      BY <1>1, <1>11, <1>14, <2>1, <2>5, <3>1 DEF NoticedBy
    <3> QED BY <3>2 DEF Saw
  <2>f. ASSUME NEW p \in Tx!Places, p[1] = db, Mark(c, FALSE) \in Entries(Tx!Server, p), Tx!Exists(Tx!Server, p)
        PROVE  s.client[c].dirtyCas
    <3>1. Fate(Tx!Server, {}, p, Mark(c, FALSE)) = "touched"
      BY <1>10, <1>m, <2>f
    <3>w. \E q \in Tx!Places : \E w \in Entries(Tx!Server, q) :
            q[1] = db /\ w.client = c /\ Fate(Tx!Server, {}, q, w) = "touched"
      BY <1>m, <2>f, <3>1
    <3>2. c \in cs
      BY <1>3, <3>w DEF TouchedIn
    <3> QED BY <2>2, <2>d, <3>2
  <2>6. ASSUME Orderly, Saw(s, c) PROVE s.client[c].dirtyCas \/ Tx!IsWatchedKeyExpired(s, c)
    <3>1. CASE txChanged[c]
      <4>1. CASE Tx!IsWatchedKeyExpired(Tx!Server, c)
        <5>1. PICK p \in Tx!Places : txData[p].expired /\ Mark(c, FALSE) \in Entries(Tx!Server, p)
          BY <1>1, <4>1, ExpirySeen
        <5>2. CASE p[1] = db
          <6>1. Tx!Exists(Tx!Server, p)
            BY <1>1, <5>1 DEF Numbered, Tx!Exists
          <6> QED BY <2>f, <5>1, <5>2, <6>1
        <5>3. CASE p[1] # db
          <6>1. s.data[p].expired /\ Mark(c, FALSE) \in Entries(s, p)
            BY <1>11, <1>14, <5>1, <5>3
          <6> QED BY <6>1, ExpirySeen
        <5> QED BY <5>2, <5>3
      <4>2. txClient[c].dirtyCas => s.client[c].dirtyCas
        BY <2>2, <2>d
      <4> QED BY <1>1, <2>1, <2>6, <3>1, <4>1, <4>2 DEF NoticedBy
    <3>2. CASE ~txChanged[c]
      <4>1. PICK p \in Tx!Places : c \in Tx!Watchers(Tx!Server, p) /\ Tx!Logical(txData, p) # Tx!Logical(s.data, p)
        BY <2>6, <3>2 DEF Saw
      <4>2. p[1] = db /\ Tx!Logical(txData, p) # 0
        BY <1>14, <4>1
      <4>3. ~txData[p].expired /\ Tx!Exists(Tx!Server, p)
        BY <1>1, <4>2 DEF Tx!Logical, Tx!Exists
      <4>4. PICK w \in Entries(Tx!Server, p) : w.client = c
        BY SMTT(30), <1>1, <4>1, EntriesType
      <4>5. w = Mark(w.client, w.expired) /\ w.expired \in BOOLEAN
        BY <1>1, <4>4, EntriesType
      <4>6. w.expired = FALSE
        BY <1>1, <2>6, <4>3, <4>4, <4>5 DEF Sound, FlagsCurrent
      <4> QED BY <2>f, <4>2, <4>3, <4>4, <4>5, <4>6
    <3> QED BY <3>1, <3>2
  <2>7. NoticedBy(s, Orderly, c, Saw(s, c))
    BY <2>4, <2>5, <2>6 DEF NoticedBy
  <2> QED BY <2>1, <2>2, <2>7, QueuedDirty
<1>16. \A c \in Clients : (c \notin {} /\ Saw(s, c)) = Saw(s, c)
  BY DEF Saw
<1> QED BY <1>4, <1>9, <1>12, <1>13, <1>15, <1>16 DEF Keeps

(* An entry is touched by SWAPDB only if the key changes for readers, or   *)
(* had expired behind the watcher's back; and an entry at a key that is    *)
(* replaced by an expired one ends flagged or touched.                     *)
LEMMA SwapFate ==
  ASSUME NEW s \in Servers, Numbered(s), NEW p \in Tx!Places, NEW o \in Tx!Places, p # o, NEW w \in Entry
  PROVE  LET fate == Tx!Replaced(s, w, p, {o})
         IN  /\ fate \in {"same", "deleted", "expired", "touched"}
             /\ fate = "touched" /\ (w.expired \/ ~s.data[p].expired)
                  => Tx!Logical(s.data, p) # Tx!Logical(s.data, o)
             /\ s.data[o].expired => fate # "deleted" /\ (fate = "same" => w.expired)
<1> DEFINE fate == Tx!Replaced(s, w, p, {o})
<1>1. /\ s.data[p].version \in Nat /\ s.data[o].version \in Nat
      /\ s.data[p].expired \in BOOLEAN /\ s.data[o].expired \in BOOLEAN /\ w.expired \in BOOLEAN
      /\ s.data[p].expired => s.data[p].version # 0
      /\ s.data[o].expired => s.data[o].version # 0
      /\ s.data[p].version = s.data[o].version => s.data[p].version = 0
  BY ServerFields DEF Numbered, Entry
<1>2. fate = CASE ~Tx!Exists(s, p) /\ ~Tx!Exists(s, o) -> "same"
               [] w.expired /\ Tx!Exists(s, p) /\ ~Tx!Exists(s, o) -> "deleted"
               [] w.expired /\ s.data[o].expired -> "same"
               [] ~w.expired /\ ~Tx!Exists(s, p) /\ s.data[o].expired -> "expired"
               [] OTHER -> "touched"
  BY DEF Tx!Replaced
<1> HIDE DEF fate
<1>3. fate \in {"same", "deleted", "expired", "touched"}
  BY <1>2
<1>4. ASSUME fate = "touched", w.expired \/ ~s.data[p].expired
      PROVE  Tx!Logical(s.data, p) # Tx!Logical(s.data, o)
  <2>1. /\ ~(~Tx!Exists(s, p) /\ ~Tx!Exists(s, o))
        /\ ~(w.expired /\ Tx!Exists(s, p) /\ ~Tx!Exists(s, o))
        /\ ~(w.expired /\ s.data[o].expired)
        /\ ~(~w.expired /\ ~Tx!Exists(s, p) /\ s.data[o].expired)
    BY <1>2, <1>4
  <2> QED BY <1>1, <1>4, <2>1 DEF Tx!Logical, Tx!Exists
<1>5. ASSUME s.data[o].expired PROVE fate # "deleted" /\ (fate = "same" => w.expired)
  BY <1>1, <1>2, <1>5 DEF Tx!Exists
<1> QED BY <1>3, <1>4, <1>5 DEF fate

(* SWAPDB: after it nothing is promised about changes that go unnoticed,   *)
(* but no client is flagged without one.                                   *)
LEMMA SwapKeeps ==
  ASSUME IInv, NEW d1 \in Dbs, NEW d2 \in Dbs, d1 # d2
  PROVE  Keeps(Tx!DbSwapDatabases(Tx!Server, d1, d2), FALSE, {})
<1>1. /\ Tx!Server.data = txData /\ Tx!Server \in Servers /\ Tx!Server.client = txClient
      /\ txData \in [Tx!Places -> Value] /\ Numbered(Tx!Server) /\ Tx!Server.writes \in Nat
  BY ServerNow, ServerFields
<1>2. PICK t1 : t1 = Tx!TouchAllWatchedKeysInDb(Tx!Server, d1, {d2})
  OBVIOUS
<1>3. PICK cs1 \in SUBSET Clients : TouchedIn(Tx!Server, d1, {d2}, t1, cs1)
  BY <1>1, <1>2, TouchAllFlags
<1>4. t1 \in Servers /\ t1.data = txData /\ t1.writes = Tx!Server.writes
  BY <1>1, <1>3 DEF TouchedIn
<1>5. PICK t2 : t2 = Tx!TouchAllWatchedKeysInDb(t1, d2, {d1})
  OBVIOUS
<1>6. PICK cs2 \in SUBSET Clients : TouchedIn(t1, d2, {d1}, t2, cs2)
  BY <1>4, <1>5, TouchAllFlags
<1>7. t2 \in Servers /\ t2.data = txData /\ t2.writes = Tx!Server.writes
  BY <1>4, <1>6 DEF TouchedIn
<1>8. PICK s : s = Tx!DbSwapDatabases(Tx!Server, d1, d2)
  OBVIOUS
<1> DEFINE Other(d) == CASE d = d1 -> d2 [] d = d2 -> d1 [] OTHER -> d
           At(p) == <<Other(p[1]), p[2]>>
           nd == [p \in Tx!Places |-> t2.data[<<Other(p[1]), p[2]>>]]
<1>9. s = WithData(t2, nd)
  BY <1>2, <1>5, <1>8 DEF Tx!DbSwapDatabases, WithData
<1>10. \A d \in Dbs : /\ Other(d) \in Dbs
                      /\ d = d1 => Other(d) = d2
                      /\ d = d2 => Other(d) = d1
                      /\ d # d1 /\ d # d2 => Other(d) = d
  OBVIOUS
<1>11. ASSUME NEW p \in Tx!Places
       PROVE  /\ At(p) \in Tx!Places /\ At(p) = <<Other(p[1]), p[2]>>
              /\ p[1] = d1 => At(p) = <<d2, p[2]>> /\ At(p) # p
              /\ p[1] = d2 => At(p) = <<d1, p[2]>> /\ At(p) # p
              /\ p[1] # d1 /\ p[1] # d2 => At(p) = p
              /\ \A q \in Tx!Places : At(p) = At(q) => p = q
  <2> HIDE DEF Other
  <2> QED BY SMTT(30), <1>10 DEF Tx!Places
<1> HIDE DEF At
<1>12. nd \in [Tx!Places -> Value] /\ \A p \in Tx!Places : nd[p] = txData[At(p)]
  BY <1>1, <1>7, <1>11
<1> HIDE DEF nd
<1>13. /\ s \in Servers /\ s.data = nd /\ s.writes = Tx!Server.writes /\ s.client = t2.client
       /\ \A p \in Tx!Places : Entries(s, p) = Entries(t2, p)
  <2>1. /\ s \in Servers /\ s.data = nd /\ s.writes = t2.writes /\ s.client = t2.client
        /\ \A p \in Tx!Places : Entries(s, p) = Entries(t2, p)
    BY SMTT(30), <1>7, <1>9, <1>12, DataChanges
  <2> QED BY <1>7, <2>1
<1>14. Numbered(s)
  <2>1. ASSUME NEW p \in Tx!Places, NEW q \in Tx!Places
        PROVE  /\ s.data[p].version <= s.writes
               /\ s.data[p].expired => s.data[p].version # 0
               /\ s.data[p].version = s.data[q].version => p = q \/ s.data[p].version = 0
    <3>1. s.data[p] = txData[At(p)] /\ s.data[q] = txData[At(q)] /\ At(p) \in Tx!Places /\ At(q) \in Tx!Places
      BY <1>11, <1>12, <1>13
    <3>2. At(p) = At(q) => p = q
      BY <1>11
    <3> QED BY <1>1, <1>13, <3>1, <3>2 DEF Numbered
  <2> QED BY <2>1 DEF Numbered
(* The second call sees the data, and the entries of d2, that the first one did. *)
<1>15. ASSUME NEW p \in Tx!Places, NEW w
       PROVE  /\ Fate(t1, {d1}, p, w) = Fate(Tx!Server, {d1}, p, w)
              /\ After(t1, {d1}, p, w) = After(Tx!Server, {d1}, p, w)
              /\ p[1] = d1 => Fate(Tx!Server, {d2}, p, w) = Tx!Replaced(Tx!Server, w, p, {At(p)})
              /\ p[1] = d2 => Fate(Tx!Server, {d1}, p, w) = Tx!Replaced(Tx!Server, w, p, {At(p)})
  <2>1. Fate(t1, {d1}, p, w) = Fate(Tx!Server, {d1}, p, w)
    <3>1. t1.data = Tx!Server.data
      BY <1>1, <1>4
    <3> QED BY <3>1 DEF Fate, Tx!Replaced, Tx!Exists
  <2>2. After(t1, {d1}, p, w) = After(Tx!Server, {d1}, p, w)
    BY <2>1 DEF After
  <2>3. \A d : {<<o, p[2]>> : o \in {d}} = {<<d, p[2]>>}
    OBVIOUS
  <2>4. p[1] = d1 => Fate(Tx!Server, {d2}, p, w) = Tx!Replaced(Tx!Server, w, p, {At(p)})
    BY <1>11, <2>3 DEF Fate
  <2>5. p[1] = d2 => Fate(Tx!Server, {d1}, p, w) = Tx!Replaced(Tx!Server, w, p, {At(p)})
    BY <1>11, <2>3 DEF Fate
  <2> QED BY <2>1, <2>2, <2>4, <2>5
<1> DEFINE other(p) == IF p[1] = d1 THEN {d2} ELSE {d1}
           swaps(p) == p[1] = d1 \/ p[1] = d2
<1>16. ASSUME NEW p \in Tx!Places, NEW w
       PROVE  w \in Entries(s, p) <=>
                IF swaps(p) THEN \E x \in Entries(Tx!Server, p) : w = After(Tx!Server, other(p), p, x)
                ELSE w \in Entries(Tx!Server, p)
  <2>1. w \in Entries(s, p) <=>
          IF p[1] = d2 THEN \E x \in Entries(t1, p) : w = After(t1, {d1}, p, x) ELSE w \in Entries(t1, p)
    BY <1>6, <1>13 DEF TouchedIn
  <2>2. \A x : x \in Entries(t1, p) <=>
          IF p[1] = d1 THEN \E y \in Entries(Tx!Server, p) : x = After(Tx!Server, {d2}, p, y)
          ELSE x \in Entries(Tx!Server, p)
    BY <1>3 DEF TouchedIn
  <2> QED BY <1>15, <2>1, <2>2
<1> DEFINE cs == cs1 \cup cs2
<1>17. ASSUME NEW c \in Clients
       PROVE  c \in cs <=> \E p \in Tx!Places : \E w \in Entries(Tx!Server, p) :
                swaps(p) /\ w.client = c /\ Fate(Tx!Server, other(p), p, w) = "touched"
  <2>1. c \in cs1 <=> \E p \in Tx!Places : \E w \in Entries(Tx!Server, p) :
          p[1] = d1 /\ w.client = c /\ Fate(Tx!Server, {d2}, p, w) = "touched"
    BY <1>3 DEF TouchedIn
  <2>2. c \in cs2 <=> \E p \in Tx!Places : \E w \in Entries(t1, p) :
          p[1] = d2 /\ w.client = c /\ Fate(t1, {d1}, p, w) = "touched"
    BY <1>6 DEF TouchedIn
  <2>3. \A p \in Tx!Places : p[1] = d2 => Entries(t1, p) = Entries(Tx!Server, p)
    BY <1>3 DEF TouchedIn
  <2>4. c \in cs2 <=> \E p \in Tx!Places : \E w \in Entries(Tx!Server, p) :
          p[1] = d2 /\ w.client = c /\ Fate(Tx!Server, {d1}, p, w) = "touched"
    BY <1>15, <2>2, <2>3
  <2> QED BY <2>1, <2>4, Zenon
<1>18. ASSUME NEW c \in Clients
       PROVE  s.client[c] = IF c \in cs THEN [txClient[c] EXCEPT !.dirtyCas = TRUE] ELSE txClient[c]
  <2>1. t1.client[c] = IF c \in cs1 THEN [txClient[c] EXCEPT !.dirtyCas = TRUE] ELSE txClient[c]
    BY <1>1, <1>3 DEF TouchedIn
  <2>2. s.client[c] = IF c \in cs2 THEN [t1.client[c] EXCEPT !.dirtyCas = TRUE] ELSE t1.client[c]
    BY <1>6, <1>13 DEF TouchedIn
  <2>3. [[txClient[c] EXCEPT !.dirtyCas = TRUE] EXCEPT !.dirtyCas = TRUE] = [txClient[c] EXCEPT !.dirtyCas = TRUE]
    BY ServerNow DEF ClientState
  <2> QED BY <2>1, <2>2, <2>3, Zenon
<1> HIDE DEF cs
<1>19. ASSUME NEW p \in Tx!Places, NEW w \in Entry, swaps(p)
       PROVE  LET fate == Fate(Tx!Server, other(p), p, w)
              IN  /\ fate \in {"same", "deleted", "expired", "touched"}
                  /\ fate = "touched" /\ (w.expired \/ ~txData[p].expired)
                       => Tx!Logical(txData, p) # Tx!Logical(s.data, p)
                  /\ s.data[p].expired => fate # "deleted" /\ (fate = "same" => w.expired)
  <2>1. Fate(Tx!Server, other(p), p, w) = Tx!Replaced(Tx!Server, w, p, {At(p)})
    BY <1>15, <1>19
  <2>2. At(p) \in Tx!Places /\ At(p) # p
    BY <1>11, <1>19
  <2>3. s.data[p] = txData[At(p)]
    BY <1>12, <1>13
  <2>4. Tx!Logical(s.data, p) = Tx!Logical(txData, At(p))
    BY <2>3 DEF Tx!Logical
  <2>5. LET fate == Tx!Replaced(Tx!Server, w, p, {At(p)})
        IN  /\ fate \in {"same", "deleted", "expired", "touched"}
            /\ fate = "touched" /\ (w.expired \/ ~txData[p].expired)
                 => Tx!Logical(txData, p) # Tx!Logical(txData, At(p))
            /\ txData[At(p)].expired => fate # "deleted" /\ (fate = "same" => w.expired)
    BY SMTT(30), <1>1, <2>2, SwapFate
  <2> QED BY <2>1, <2>3, <2>4, <2>5
<1> HIDE DEF other, swaps
<1>20. ASSUME NEW c \in Clients
       PROVE  NoticedBy(s, FALSE, c, Saw(s, c)) /\ QueuedFor(s.client[c], txSent[c])
  <2>1. /\ NoticedBy(Tx!Server, Orderly, c, txChanged[c]) /\ QueuedFor(txClient[c], txSent[c])
        /\ txChanged[c] \in BOOLEAN /\ txClient[c] \in ClientState
    BY ServerNow
  <2>2. ASSUME c \in cs PROVE Saw(s, c)
    <3>1. PICK p \in Tx!Places : \E w \in Entries(Tx!Server, p) :
            swaps(p) /\ w.client = c /\ Fate(Tx!Server, other(p), p, w) = "touched"
      BY <1>17, <2>2
    <3>2. PICK w \in Entries(Tx!Server, p) :
            swaps(p) /\ w.client = c /\ Fate(Tx!Server, other(p), p, w) = "touched"
      BY <3>1
    <3>3. w \in Entry /\ w = Mark(w.client, w.expired) /\ w.expired \in BOOLEAN /\ c \in Tx!Watchers(Tx!Server, p)
      BY <1>1, <3>2, EntriesType
    <3>4. CASE ~w.expired /\ txData[p].expired
      <4>1. Mark(c, FALSE) \in Entries(Tx!Server, p)
        <5>1. w.expired = FALSE
          BY <3>3, <3>4
        <5> QED BY <3>2, <3>3, <5>1
      <4>2. txChanged[c]
        BY <1>1, <2>1, <3>4, <4>1 DEF NoticedBy
      <4> QED BY <4>2 DEF Saw
    <3>5. CASE w.expired \/ ~txData[p].expired
      <4>1. Tx!Logical(txData, p) # Tx!Logical(s.data, p)
        BY <1>19, <3>2, <3>3, <3>5
      <4> QED BY <3>3, <4>1 DEF Saw
    <3> QED BY <3>4, <3>5
  <2>3. s.client[c].dirtyCas => Saw(s, c)
    <3>1. txClient[c].dirtyCas => txChanged[c]
      BY <1>1, <2>1 DEF NoticedBy
    <3> QED BY <1>18, <2>2, <3>1 DEF Saw
  <2>m. Mark(c, FALSE).client = c /\ ~Mark(c, FALSE).expired
    BY DEF Mark
  <2>4. ASSUME NEW p \in Tx!Places, s.data[p].expired, Mark(c, FALSE) \in Entries(s, p) PROVE Saw(s, c)
    <3>1. CASE ~swaps(p)
      <4>1. Mark(c, FALSE) \in Entries(Tx!Server, p)
        BY <1>16, <2>4, <3>1
      <4>2. s.data[p] = txData[p]
        BY <1>11, <1>12, <1>13, <3>1 DEF swaps
      <4>3. txChanged[c]
        BY <1>1, <2>1, <2>4, <4>1, <4>2 DEF NoticedBy
      <4> QED BY <4>3 DEF Saw
    <3>2. CASE swaps(p)
      <4>1. PICK x \in Entries(Tx!Server, p) : Mark(c, FALSE) = After(Tx!Server, other(p), p, x)
        BY <1>16, <2>4, <3>2
      <4>2. x \in Entry
        BY <1>1, EntriesType
      <4> DEFINE fate == Fate(Tx!Server, other(p), p, x)
      <4>3. x.client = c /\ fate # "expired" /\ (fate \notin {"deleted", "expired"} => Mark(c, FALSE) = x)
        BY <2>m, <4>1, <4>2, AfterIs
      <4>4. /\ fate \in {"same", "deleted", "expired", "touched"}
            /\ fate # "deleted" /\ (fate = "same" => x.expired)
        BY <1>19, <2>4, <3>2, <4>2
      <4>5. fate = "touched"
        <5> HIDE DEF fate
        <5> QED BY <2>m, <4>3, <4>4
      <4>6. \E q \in Tx!Places : \E w \in Entries(Tx!Server, q) :
              swaps(q) /\ w.client = c /\ Fate(Tx!Server, other(q), q, w) = "touched"
        BY <3>2, <4>1, <4>3, <4>5
      <4>7. c \in cs
        BY <1>17, <4>6
      <4> QED BY <2>2, <4>7
    <3> QED BY <3>1, <3>2
  <2>5. NoticedBy(s, FALSE, c, Saw(s, c))
    BY <2>3, <2>4 DEF NoticedBy
  <2> QED BY <1>18, <2>1, <2>5, QueuedDirty
<1>21. \A c \in Clients : (c \notin {} /\ Saw(s, c)) = Saw(s, c)
  BY DEF Saw
<1> QED BY <1>8, <1>13, <1>14, <1>20, <1>21 DEF Keeps

(* A command inside MULTI is queued, or rejected with CLIENT_DIRTY_EXEC. *)
LEMMA QueueKeeps ==
  ASSUME IInv, NEW c \in Clients, NEW p \in Tx!Places, Tx!ProcessCommand(c, p)
  PROVE  IInv'
<1>1. /\ Tx!Server \in Servers /\ Tx!Server.client = txClient /\ Tx!Server.data = txData /\ Tx!Server.writes = txWrites
      /\ Tx!Server.watched = txWatched /\ txClient[c] \in ClientState /\ txClient[c].multi /\ Sound(Tx!Server)
      /\ Numbered(Tx!Server) /\ (Orderly => FlagsCurrent(Tx!Server)) /\ QueuedFor(txClient[c], txSent[c])
      /\ txClient \in [Clients -> ClientState] /\ txSent \in [Clients -> Seq(Tx!Places)]
  <2>1. txClient[c].multi
    BY DEF Tx!ProcessCommand
  <2> QED BY SMTT(30), <2>1, ServerNow, ServerFields DEF IInv, TxTypeOK
<1>2. PICK x : txClient' = [txClient EXCEPT ![c] = x] /\ x \in {Tx!QueueMultiCommand(c, p), Tx!RejectCommand(c)}
  BY DEF Tx!ProcessCommand
<1>3. /\ x \in ClientState /\ x.dirtyCas = txClient[c].dirtyCas /\ x.multi
      /\ QueuedFor(x, Append(txSent[c], p))
  <2>1. CASE x = Tx!RejectCommand(c)
    BY <1>1, <2>1 DEF Tx!RejectCommand, ClientState, QueuedFor
  <2>2. CASE x = Tx!QueueMultiCommand(c, p) /\ (txClient[c].dirtyCas \/ txClient[c].dirtyExec)
    BY <1>1, <2>2 DEF Tx!QueueMultiCommand, ClientState, QueuedFor
  <2>3. CASE x = Tx!QueueMultiCommand(c, p) /\ ~(txClient[c].dirtyCas \/ txClient[c].dirtyExec)
    <3> DEFINE q == Append(txClient[c].queue, p)
    <3>1. x = [txClient[c] EXCEPT !.queue = q]
      BY <2>3 DEF Tx!QueueMultiCommand
    <3>2. q \in Seq(Tx!Places) /\ q = Append(txSent[c], p)
      BY SMTT(30), <1>1, <2>3 DEF ClientState, QueuedFor
    <3> HIDE DEF q
    <3>3. x \in ClientState /\ x.dirtyCas = txClient[c].dirtyCas /\ x.multi /\ x.queue = q
      BY <1>1, <3>1, <3>2 DEF ClientState
    <3> QED BY <3>2, <3>3 DEF QueuedFor
  <2> QED BY <1>2, <2>1, <2>2, <2>3
<1>4. PICK s : s = WithClient(Tx!Server, c, x)
  OBVIOUS
<1>5. /\ s \in Servers /\ s.data = Tx!Server.data /\ s.writes = Tx!Server.writes /\ s.client[c] = x
      /\ \A d \in Clients : d # c => s.client[d] = Tx!Server.client[d]
      /\ \A q \in Tx!Places : Entries(s, q) = Entries(Tx!Server, q)
  <2>1. Tx!Server \in Servers /\ x \in ClientState
    BY <1>1, <1>3
  <2> QED BY SMTT(30), <1>4, <2>1, ClientChanges
<1>6. Tx!Server' = s
  <2>1. txData' = txData /\ txWatched' = txWatched /\ txWrites' = txWrites
    BY DEF Tx!ProcessCommand
  <2> DEFINE nc == [txClient EXCEPT ![c] = x]
  <2>2. s = [Tx!Server EXCEPT !.client = nc]
    BY <1>1, <1>4 DEF WithClient
  <2>3. txClient' = nc
    BY <1>2
  <2> HIDE DEF nc
  <2> QED BY <2>1, <2>2, <2>3 DEF Tx!Server
<1>7. /\ txSent' = [txSent EXCEPT ![c] = Append(txSent[c], p)] /\ txChanged' = txChanged /\ txSwapped' = txSwapped
      /\ txRole' = txRole
  BY DEF Tx!ProcessCommand
<1>8. txSent' \in [Clients -> Seq(Tx!Places)]
  BY SMTT(30), <1>1, <1>7
<1>9. TxTypeOK'
  BY <1>5, <1>6, <1>7, <1>8 DEF IInv, TxTypeOK
<1>10. Orderly' = Orderly
  BY <1>7 DEF Orderly
<1>11. Sound(Tx!Server)'
  <2>1. Sound(s)
    BY <1>1, <1>5, SoundWithout
  <2> QED BY <1>6, <1>10, <2>1 DEF Sound
<1>12. Queued'
  <2>1. ASSUME NEW d \in Clients PROVE QueuedFor(txClient'[d], txSent'[d])
    <3>1. CASE d = c
      <4>1. txClient'[d] = x /\ txSent'[d] = Append(txSent[c], p)
        BY <1>1, <1>2, <1>7, <3>1
      <4> QED BY <1>3, <4>1
    <3>2. CASE d # c
      <4>1. txClient'[d] = txClient[d] /\ txSent'[d] = txSent[d]
        BY <1>1, <1>2, <1>7, <3>2
      <4> QED BY <1>1, <4>1, ServerNow
    <3> QED BY <3>1, <3>2
  <2> QED BY <2>1 DEF Queued
<1>13. Noticed'
  <2>1. ASSUME NEW d \in Clients PROVE NoticedBy(s, Orderly, d, txChanged[d])
    <3>1. s.client[d].dirtyCas = Tx!Server.client[d].dirtyCas
      BY <1>1, <1>3, <1>5
    <3>2. Tx!IsWatchedKeyExpired(s, d) <=> Tx!IsWatchedKeyExpired(Tx!Server, d)
      BY <1>5, ExpirySeen
    <3>3. NoticedBy(Tx!Server, Orderly, d, txChanged[d])
      BY ServerNow
    <3> QED BY <1>5, <3>1, <3>2, <3>3 DEF NoticedBy
  <2> QED BY <1>6, <1>7, <1>10, <2>1 DEF Noticed
<1> QED BY <1>9, <1>11, <1>12, <1>13 DEF IInv

(* The invariant holds when the server starts. *)
LEMMA InitOk ==
  ASSUME Tx!Init
  PROVE  IInv
<1>1. /\ Tx!Server.data = [p \in Tx!Places |-> Tx!NoKey] /\ Tx!Server.watched = [p \in Tx!Places |-> <<>>]
      /\ Tx!Server.client = [c \in Clients |-> Tx!Fresh] /\ Tx!Server.writes = 0
      /\ Tx!Server = [data |-> Tx!Server.data, watched |-> Tx!Server.watched, client |-> Tx!Server.client,
                   writes |-> Tx!Server.writes]
  BY DEF Tx!Init, Tx!Server
<1>2. Tx!NoKey \in Value /\ Tx!Fresh \in ClientState /\ <<>> \in Seq(Entry) /\ <<>> \in Seq(Tx!Places)
  BY SMTT(30) DEF Tx!NoKey, Value, Tx!Fresh, ClientState
<1>3. Tx!Server \in Servers
  <2>1. /\ Tx!Server.data \in [Tx!Places -> Value] /\ Tx!Server.watched \in [Tx!Places -> Seq(Entry)]
        /\ Tx!Server.client \in [Clients -> ClientState] /\ Tx!Server.writes \in Nat
    BY SMTT(30), <1>1, <1>2
  <2> QED BY <1>1, <2>1 DEF Servers
<1>4. TxTypeOK
  BY <1>2, <1>3 DEF Tx!Init, TxTypeOK
<1>5. \A p \in Tx!Places : Entries(Tx!Server, p) = {} /\ Tx!Server.data[p] = Tx!NoKey
  BY SMTT(30), <1>1 DEF Entries
<1>6. Tx!NoKey.version = 0 /\ ~Tx!NoKey.expired
  BY DEF Tx!NoKey
<1>7. Sound(Tx!Server)
  BY SMTT(30), <1>1, <1>3, <1>5, <1>6 DEF Sound, Numbered, FlagsCurrent
<1>8. Queued
  BY DEF Tx!Init, Queued, QueuedFor, Tx!Fresh
<1>9. Noticed
  <2>1. \A c \in Clients : ~Tx!Server.client[c].dirtyCas /\ ~txChanged[c]
    BY SMTT(30), <1>1 DEF Tx!Init, Tx!Fresh
  <2> QED BY <1>5, <2>1 DEF Noticed, NoticedBy
<1> QED BY <1>4, <1>7, <1>8, <1>9 DEF IInv

(* The invariant says nothing of other variables. *)
LEMMA StutterOk ==
  ASSUME IInv, UNCHANGED Tx!vars
  PROVE  IInv'
<1>1. Tx!Server' = Tx!Server /\ txSent' = txSent /\ txChanged' = txChanged /\ txSwapped' = txSwapped /\ txClient' = txClient
      /\ Orderly' = Orderly
  BY DEF Tx!vars, Tx!Server, Orderly
<1>2. TxTypeOK'
  BY <1>1 DEF IInv, TxTypeOK
<1>3. Sound(Tx!Server)'
  BY <1>1 DEF IInv, Sound
<1>4. Queued'
  BY <1>1 DEF IInv, Queued
<1>5. Noticed'
  BY <1>1 DEF IInv, Noticed
<1> QED BY <1>2, <1>3, <1>4, <1>5 DEF IInv

(* Every command keeps the invariant, one case for each. *)
LEMMA StepOk ==
  ASSUME IInv, Tx!Next
  PROVE  IInv'
<1>1. ASSUME NEW c \in Clients, Tx!Multi(c) PROVE IInv'
  BY <1>1, MultiKeeps, BecomeKeeps DEF Tx!Multi
<1>2. ASSUME NEW c \in Clients, Tx!Exec(c) PROVE IInv'
  <2>1. \/ Tx!Become(Tx!DiscardTransaction(Tx!Call(Tx!UnwatchAllKeys(Tx!Server, {c}), txClient[c].queue), c), {c})
        \/ Tx!Become(Tx!DiscardTransaction(Tx!Server, c), {c})
    BY <1>2 DEF Tx!Exec
  <2> QED BY <2>1, ExecKeeps, StoppedKeeps, BecomeKeeps
<1>3. ASSUME NEW c \in Clients, Tx!Discard(c) PROVE IInv'
  BY <1>3, StoppedKeeps, BecomeKeeps DEF Tx!Discard
<1>4. ASSUME NEW c \in Clients, Tx!Unwatch(c) PROVE IInv'
  BY <1>4, UnwatchForgets, BecomeKeeps DEF Tx!Unwatch
<1>5. ASSUME NEW c \in Clients, NEW p \in Tx!Places, Tx!ProcessCommand(c, p) PROVE IInv'
  BY <1>5, QueueKeeps
<1>6. ASSUME NEW c \in Clients, NEW p \in Tx!Places, Tx!Watch(c, p) PROVE IInv'
  BY <1>6, WatchKeeps, BecomeKeeps DEF Tx!Watch
<1>7. ASSUME NEW p \in Tx!Places, Tx!Write(p) PROVE IInv'
  BY <1>7, WriteKeeps, BecomeKeeps DEF Tx!Write
<1>8. ASSUME NEW p \in Tx!Places, Tx!Delete(p) PROVE IInv'
  BY <1>8, DeleteKeeps, BecomeKeeps DEF Tx!Delete
<1>9. ASSUME NEW p \in Tx!Places, Tx!TtlPasses(p) PROVE IInv'
  BY <1>9, TtlKeeps, BecomeKeeps DEF Tx!TtlPasses
<1>10. ASSUME NEW p \in Tx!Places, Tx!Expire(p) PROVE IInv'
  <2>1. Tx!Server.data = txData /\ Numbered(Tx!Server)
    BY ServerNow
  <2>2. Tx!Exists(Tx!Server, p) /\ Tx!ExpireIfNeeded(Tx!Server, p) = Tx!DbDelete(Tx!Server, p)
    BY <1>10, <2>1 DEF Tx!Expire, Tx!ExpireIfNeeded, Tx!Exists, Numbered
  <2>3. Tx!Become(Tx!DbDelete(Tx!Server, p), {})
    BY <1>10, <2>2 DEF Tx!Expire
  <2> QED BY <2>2, <2>3, DeleteKeeps, BecomeKeeps
<1>11. ASSUME NEW db \in Dbs, Tx!Flush(db) PROVE IInv'
  BY <1>11, FlushKeeps, BecomeKeeps DEF Tx!Flush
<1>12. ASSUME NEW d1 \in Dbs, NEW d2 \in Dbs, Tx!SwapDb(d1, d2) PROVE IInv'
  <2>1. d1 # d2 /\ Tx!Becomes(Tx!DbSwapDatabases(Tx!Server, d1, d2), {}) /\ txSwapped' = TRUE
    BY <1>12 DEF Tx!SwapDb
  <2>2. Orderly' = FALSE
    BY <2>1 DEF Orderly
  <2>3. Keeps(Tx!DbSwapDatabases(Tx!Server, d1, d2), Orderly', {})
    BY <2>1, <2>2, SwapKeeps
  <2>4. txSwapped' \in BOOLEAN
    BY <2>1
  <2> QED BY <2>1, <2>3, <2>4, Becoming
<1> QED BY <1>1, <1>2, <1>3, <1>4, <1>5, <1>6, <1>7, <1>8, <1>9, <1>10, <1>11, <1>12 DEF Tx!Next

(* EXEC is exact: it would run only with every command the client sent and *)
(* on a master, as long as no databases were swapped, only if no watched   *)
(* key has changed for readers since WATCH; and it is refused as dirty     *)
(* only if one has.                                                        *)
THEOREM ExecExact == Tx!Spec => []CheckAndSet
<1>1. Tx!Init => IInv
  BY InitOk
<1>2. IInv /\ [Tx!Next]_Tx!vars => IInv'
  BY StepOk, StutterOk
<1>3. IInv => CheckAndSet
  <2> SUFFICES ASSUME IInv, NEW c \in Clients
               PROVE  /\ Tx!Runs(Tx!Server, c) =>
                           txClient[c].queue = txSent[c] /\ (txRole = "master" /\ ~txSwapped => ~txChanged[c])
                      /\ txClient[c].dirtyCas => txChanged[c]
    BY DEF CheckAndSet, Tx!CheckAndSet
  <2>1. /\ Tx!Server.client = txClient /\ NoticedBy(Tx!Server, Orderly, c, txChanged[c])
        /\ QueuedFor(txClient[c], txSent[c])
    BY ServerNow
  <2> QED BY <2>1 DEF NoticedBy, QueuedFor, Tx!Runs, Orderly
<1> QED BY <1>1, <1>2, <1>3, PTL DEF Tx!Spec

=============================================================================
