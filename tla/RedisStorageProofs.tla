-------------------------- MODULE RedisStorageProofs --------------------------
(***************************************************************************)
(* Client side caching is coherent for any number of clients, keys and     *)
(* prefixes, any table limit and any number of changes; and an integer set *)
(* is exact for any integers, whatever the widths they are kept in.        *)
(***************************************************************************)
EXTENDS RedisStorage, FiniteSetTheorems, WellFoundedInduction, TLAPS

(* A leaf that needs arithmetic, or much of set theory, names its prover. *)
USE ZenonT(20)

TableModes == {"default", "optin", "optout"}

(* Keys wait for the end of a command only while one executes. *)
PendingWhileExecuting == pending # {} => executing

(* Prefixes belong to BCAST, a client that does not track has no copies,   *)
(* and one that follows prefixes has copies of matching keys only.         *)
CopiesFollowed ==
  \A c \in Clients :
    /\ client[c].mode # "bcast" => client[c].prefixes = {}
    /\ \A k \in Keys : copy[c][k] # 0 =>
         /\ Tracks(c)
         /\ client[c].mode = "bcast" => \E p \in client[c].prefixes : k \in p

IInv == TypeOK /\ PendingWhileExecuting /\ CopiesFollowed /\ HoldersRemembered /\ CacheCoherent

-----------------------------------------------------------------------------
LEMMA InitIInv == Init => IInv
<1> SUFFICES ASSUME Init PROVE IInv
  OBVIOUS
<1>1. TypeOK
  BY TrackingAssumption DEF Init, TypeOK, Off, Modes
<1>2. PendingWhileExecuting /\ CopiesFollowed /\ HoldersRemembered /\ CacheCoherent
  BY DEF Init, PendingWhileExecuting, CopiesFollowed, HoldersRemembered, CacheCoherent, Off, Informed,
         Tracks
<1> QED BY <1>1, <1>2 DEF IInv

(* What trackingInvalidateKey leaves behind. *)
LEMMA InvalidateSets ==
  ASSUME TypeOK, NEW ks \in SUBSET Keys, NEW own \in SUBSET Clients, InvalidateKeys(ks, own)
  PROVE  /\ copy' \in [Clients -> [Keys -> Nat]] /\ table' \in [Keys -> SUBSET Clients]
         /\ pending' \subseteq Keys /\ skipped' \subseteq Clients
         /\ pending \subseteq pending' /\ skipped \subseteq skipped'
BY SMTT(30) DEF InvalidateKeys, Told, Remembered, TypeOK

(* The same for one client and one key. *)
LEMMA InvalidateCopies ==
  ASSUME TypeOK, NEW ks \in SUBSET Keys, NEW own \in SUBSET Clients, InvalidateKeys(ks, own),
         NEW c \in Clients, NEW k \in Keys
  PROVE  /\ copy'[c][k] \in {0, copy[c][k]}
         /\ k \notin ks => table'[k] = table[k]
         /\ k \in ks /\ c \in own => copy'[c][k] = 0
         /\ k \in ks /\ c \in Remembered(k) =>
              copy'[c][k] = 0 \/ (c = current /\ executing /\ k \in pending') \/ c \in skipped'
<1>1. /\ copy'[c][k] \in {0, copy[c][k]}
      /\ k \notin ks => table'[k] = table[k]
      /\ k \in ks /\ c \in own => copy'[c][k] = 0
  BY DEF InvalidateKeys, Told, TypeOK
<1>2. ASSUME k \in ks, c \in Remembered(k)
      PROVE  copy'[c][k] = 0 \/ (c = current /\ executing /\ k \in pending') \/ c \in skipped'
  <2>1. CASE Silent(c) /\ c \notin own
    BY SMTT(30), <1>2, <2>1 DEF InvalidateKeys
  <2>2. CASE c \in own
    BY <1>1, <1>2, <2>2
  <2>3. CASE ~Silent(c) /\ Scheduled(c)
    BY <1>2, <2>3 DEF InvalidateKeys, Scheduled
  <2>4. CASE ~Silent(c) /\ ~Scheduled(c)
    BY <1>2, <2>4 DEF InvalidateKeys, Told, TypeOK
  <2> QED BY <2>1, <2>2, <2>3, <2>4
<1> QED BY <1>1, <1>2

(* Nothing becomes pending unless a command executes. *)
LEMMA InvalidateKeysPending ==
  ASSUME TypeOK, PendingWhileExecuting, NEW ks \in SUBSET Keys, NEW own \in SUBSET Clients,
         InvalidateKeys(ks, own)
  PROVE  pending' # {} => executing
BY DEF InvalidateKeys, Scheduled, PendingWhileExecuting

(* Whoever still holds an invalidated key has a message due, and nobody    *)
(* gains a copy.                                                           *)
LEMMA InvalidateHolders ==
  ASSUME IInv, NEW ks \in SUBSET Keys, NEW own \in SUBSET Clients, InvalidateKeys(ks, own),
         UNCHANGED <<client, current>>
  PROVE  CopiesFollowed' /\ HoldersRemembered'
<1> USE DEF IInv
<1>0. pending \subseteq pending' /\ skipped \subseteq skipped'
  BY InvalidateSets
<1>c. ASSUME NEW c \in Clients, NEW k \in Keys
      PROVE  /\ copy'[c][k] \in {0, copy[c][k]}
             /\ k \notin ks => table'[k] = table[k]
             /\ k \in ks /\ c \in Remembered(k) =>
                  copy'[c][k] = 0 \/ (c = current /\ executing /\ k \in pending') \/ c \in skipped'
  BY <1>c, InvalidateCopies
<1>1. CopiesFollowed'
  BY <1>c DEF CopiesFollowed, Tracks
<1>2. ASSUME NEW c \in Clients, NEW k \in Keys, client[c].mode \in TableModes,
             copy'[c][k] # 0, c \notin skipped'
      PROVE  c \in table'[k] \/ (c = current /\ k \in pending')
  <2>1. c \in table[k] \/ (c = current /\ k \in pending)
    BY <1>0, <1>2, <1>c DEF HoldersRemembered, TableModes
  <2>2. k \in ks /\ c \in table[k] => c \in Remembered(k)
    BY <1>2 DEF Remembered, TableModes
  <2> QED BY <1>0, <1>2, <2>1, <2>2, <1>c
<1> QED BY <1>1, <1>2 DEF HoldersRemembered, TableModes

(* Clients of the table know of a change of the keys ks. *)
LEMMA InvalidateCoherent ==
  ASSUME IInv, NEW ks \in SUBSET Keys, NEW own \in SUBSET Clients, InvalidateKeys(ks, own),
         UNCHANGED <<client, current>>, \A k \in Keys \ ks : version'[k] = version[k],
         NEW c \in Clients, NEW k \in Keys, client[c].mode \in TableModes, c \notin skipped'
  PROVE  copy'[c][k] \in {0, version'[k]} \/ (c = current /\ k \in pending')
<1> USE DEF IInv
<1>0. copy'[c][k] \in {0, copy[c][k]} /\ pending \subseteq pending' /\ skipped \subseteq skipped'
  BY InvalidateCopies, InvalidateSets
<1>1. CASE k \in ks
  <2>1. copy'[c][k] # 0 => c \in table'[k] \/ (c = current /\ k \in pending')
    BY InvalidateHolders DEF HoldersRemembered, TableModes
  <2>2. table'[k] = {}
    BY <1>1 DEF InvalidateKeys
  <2> QED BY <2>1, <2>2
<1>2. CASE k \notin ks
  <2>1. Tracks(c) /\ c \notin skipped
    BY <1>0 DEF Tracks, TableModes
  <2>2. \A p : ~Due(c, p, k)
    BY DEF Due, CopiesFollowed, TableModes
  <2>3. copy[c][k] \in {0, version[k]} \/ (c = current /\ k \in pending)
    BY <2>1, <2>2 DEF CacheCoherent, Informed
  <2> QED BY <1>0, <1>2, <2>3
<1> QED BY <1>1, <1>2

(* A change of key k that by made: every client that follows a prefix of k *)
(* and holds a copy is due a message, or was by itself and dropped it.     *)
LEMMA BroadcastCoherent ==
  ASSUME IInv, NEW ks \in SUBSET Keys, NEW j \in ks, NEW own \in SUBSET Clients,
         InvalidateKeys(ks, own),
         NEW by \in Clients \cup {Nobody}, RememberKeyToBroadcast(by, j),
         by \in Clients /\ client[by].noloop => by \in own,
         UNCHANGED <<client, current>>, \A k \in Keys \ {j} : version'[k] = version[k],
         NEW c \in Clients, NEW k \in Keys, client[c].mode = "bcast", c \notin skipped'
  PROVE  Informed(c, k)'
<1>t. TypeOK /\ CopiesFollowed /\ CacheCoherent
  BY DEF IInv
<1>s. pending \subseteq pending' /\ skipped \subseteq skipped'
  BY <1>t, InvalidateSets
<1>c. copy'[c][k] \in {0, copy[c][k]} /\ (k \in ks /\ c \in own => copy'[c][k] = 0)
  BY <1>t DEF InvalidateKeys, Told, TypeOK
<1>0. /\ copy'[c][k] \in {0, copy[c][k]} /\ c \notin skipped /\ pending \subseteq pending'
      /\ k = j /\ c \in own => copy'[c][k] = 0
  BY <1>s, <1>c
<1>1. SUFFICES ASSUME copy'[c][k] # 0
               PROVE  Informed(c, k)'
  BY DEF Informed
<1>2. copy'[c][k] = copy[c][k] /\ copy[c][k] # 0
  BY <1>0, <1>1
<1>3. CASE k = j
  <2>1. PICK p \in client[c].prefixes : k \in p
    BY <1>t, <1>2 DEF CopiesFollowed
  <2>2. p \in Prefixes
    BY <1>t DEF TypeOK
  <2>3. bcast'[p][k] = by
    BY <1>t, <1>3, <2>1, <2>2 DEF RememberKeyToBroadcast, TypeOK
  <2>4. by # NotDue /\ ~(client[c].noloop /\ by = c)
    BY <1>0, <1>1, <1>3, TrackingAssumption
  <2>5. Due(c, p, k)'
    BY <2>1, <2>3, <2>4 DEF Due
  <2> QED BY <2>2, <2>5 DEF Informed
<1>4. CASE k # j
  <2>1. version'[k] = version[k]
    BY <1>4
  <2>2. \A p \in Prefixes : bcast'[p][k] = bcast[p][k]
    BY <1>t, <1>4 DEF RememberKeyToBroadcast, TypeOK
  <2>3. \A p \in Prefixes : Due(c, p, k) => Due(c, p, k)'
    BY <2>2 DEF Due
  <2>4. Informed(c, k)
    BY <1>t, <1>0 DEF CacheCoherent, Tracks
  <2> QED BY <1>0, <1>2, <2>1, <2>3, <2>4 DEF Informed
<1> QED BY <1>3, <1>4

LEMMA RememberType ==
  ASSUME TypeOK, NEW j \in Keys, NEW by \in Clients \cup {Nobody}, RememberKeyToBroadcast(by, j)
  PROVE  bcast' \in [Prefixes -> [Keys -> Clients \cup {Nobody, NotDue}]]
BY DEF TypeOK, RememberKeyToBroadcast

-----------------------------------------------------------------------------
(* One change of a key, by a client or by the server. *)
LEMMA ChangeIInv ==
  ASSUME IInv, NEW j \in Keys, NEW ks \in SUBSET Keys, ks = {j}, NEW own \in SUBSET Clients,
         InvalidateKeys(ks, own),
         NEW by \in Clients \cup {Nobody}, RememberKeyToBroadcast(by, j),
         by \in Clients /\ client[by].noloop => by \in own,
         version' = [version EXCEPT ![j] = @ + 1],
         UNCHANGED <<client, current, executing>>, used' \subseteq Keys
  PROVE  IInv'
<1>t. TypeOK /\ PendingWhileExecuting
  BY DEF IInv
<1>1. TypeOK'
  <2>1. /\ copy' \in [Clients -> [Keys -> Nat]] /\ table' \in [Keys -> SUBSET Clients]
        /\ pending' \subseteq Keys /\ skipped' \subseteq Clients
    BY <1>t, InvalidateSets
  <2>2. bcast' \in [Prefixes -> [Keys -> Clients \cup {Nobody, NotDue}]]
    BY <1>t, RememberType
  <2>3. version' \in [Keys -> Nat]
    BY SMTT(30), <1>t DEF TypeOK
  <2> QED BY <1>t, <2>1, <2>2, <2>3 DEF TypeOK
<1>2. PendingWhileExecuting'
  BY <1>t, InvalidateKeysPending DEF PendingWhileExecuting
<1>3. CopiesFollowed' /\ HoldersRemembered'
  BY InvalidateHolders
<1>4. ASSUME NEW c \in Clients, NEW k \in Keys, Tracks(c)', c \notin skipped'
      PROVE  Informed(c, k)'
  <2>1. \A l \in Keys \ {j} : version'[l] = version[l]
    BY <1>t DEF TypeOK
  <2>2. CASE client[c].mode = "bcast"
    BY <1>4, <2>1, <2>2, BroadcastCoherent
  <2>3. CASE client[c].mode # "bcast"
    <3>1. client[c].mode \in TableModes
      BY <1>t, <1>4, <2>3 DEF Tracks, TypeOK, Modes, TableModes
    <3>2. copy'[c][k] \in {0, version'[k]} \/ (c = current /\ k \in pending')
      BY <1>4, <2>1, <3>1, InvalidateCoherent
    <3> QED BY <3>2 DEF Informed
  <2> QED BY <2>2, <2>3
<1> QED BY <1>1, <1>2, <1>3, <1>4 DEF IInv, CacheCoherent

LEMMA WriteIInv ==
  ASSUME IInv, NEW k \in Keys, Write(k)
  PROVE  IInv'
<1> DEFINE own == IF client[current].noloop THEN {current} ELSE {}
           ks == {k}
<1>1. current \in Clients /\ used \subseteq Keys
  BY DEF Write, IInv, TypeOK
<1>2. /\ own \in SUBSET Clients /\ (client[current].noloop => current \in own)
      /\ ks \in SUBSET Keys /\ ks = {k} /\ current \in Clients \cup {Nobody}
  BY <1>1
<1>3. /\ InvalidateKeys(ks, own) /\ RememberKeyToBroadcast(current, k)
      /\ version' = [version EXCEPT ![k] = @ + 1]
      /\ UNCHANGED <<client, current, executing>> /\ used' \subseteq Keys
  BY <1>1 DEF Write
<1> HIDE DEF own, ks
<1> QED BY <1>2, <1>3, ChangeIInv

LEMMA KeyDeletedIInv ==
  ASSUME IInv, NEW k \in Keys, KeyDeleted(k)
  PROVE  IInv'
<1> DEFINE own == {}
           ks == {k}
<1>1. /\ own \in SUBSET Clients /\ ks \in SUBSET Keys /\ ks = {k}
      /\ Nobody \in Clients \cup {Nobody} /\ Nobody \notin Clients
  BY TrackingAssumption
<1>2. /\ InvalidateKeys(ks, own) /\ RememberKeyToBroadcast(Nobody, k)
      /\ version' = [version EXCEPT ![k] = @ + 1]
      /\ UNCHANGED <<client, current, executing>> /\ used' \subseteq Keys
  BY DEF KeyDeleted, IInv, TypeOK
<1> HIDE DEF own, ks
<1> QED BY <1>1, <1>2, ChangeIInv

(* Keys that leave the table because it is full. *)
LEMMA LimitIInv ==
  ASSUME IInv, NEW ks \in SUBSET Keys, NEW own \in SUBSET Clients, InvalidateKeys(ks, own),
         UNCHANGED <<version, bcast, client, current, used>>,
         executing' \in BOOLEAN, executing => executing', executing' => current # Nobody
  PROVE  IInv'
<1>t. TypeOK /\ PendingWhileExecuting /\ CacheCoherent
  BY DEF IInv
<1>s. /\ copy' \in [Clients -> [Keys -> Nat]] /\ table' \in [Keys -> SUBSET Clients]
      /\ pending' \subseteq Keys /\ skipped' \subseteq Clients
      /\ pending \subseteq pending' /\ skipped \subseteq skipped'
  BY <1>t, InvalidateSets
<1>1. TypeOK'
  BY <1>t, <1>s DEF TypeOK
<1>2. PendingWhileExecuting'
  BY <1>t, InvalidateKeysPending DEF PendingWhileExecuting
<1>3. CopiesFollowed' /\ HoldersRemembered'
  BY InvalidateHolders
<1>4. ASSUME NEW c \in Clients, NEW k \in Keys, Tracks(c)', c \notin skipped'
      PROVE  Informed(c, k)'
  <2>1. Informed(c, k)
    BY <1>t, <1>s, <1>4 DEF CacheCoherent, Tracks
  <2>2. copy'[c][k] \in {0, copy[c][k]}
    BY <1>t, <1>4 DEF InvalidateKeys, Told, TypeOK
  <2> QED BY <1>s, <2>1, <2>2 DEF Informed, Due
<1> QED BY <1>1, <1>2, <1>3, <1>4 DEF IInv, CacheCoherent

LEMMA CallIInv ==
  ASSUME IInv, NEW ks \in SUBSET Keys, Call(ks) \/ ServerCron(ks)
  PROVE  IInv'
<1> DEFINE own == {}
<1>1. own \in SUBSET Clients
  OBVIOUS
<1>2. /\ InvalidateKeys(ks, own) /\ UNCHANGED <<version, bcast, client, current, used>>
      /\ executing' \in BOOLEAN /\ (executing => executing') /\ (executing' => current # Nobody)
  <2>1. executing \in BOOLEAN /\ (executing => current # Nobody)
    BY DEF IInv, TypeOK
  <2>2. CASE Call(ks)
    BY <2>2 DEF Call, TrackingLimitUsedSlots
  <2>3. CASE ServerCron(ks)
    BY <2>1, <2>3 DEF ServerCron, TrackingLimitUsedSlots
  <2> QED BY <2>2, <2>3
<1> HIDE DEF own
<1> QED BY <1>1, <1>2, LimitIInv

(* A copy is as new as the server's value when it is made, and the table   *)
(* remembers whoever makes one.                                            *)
LEMMA ReadIInv ==
  ASSUME IInv, NEW j \in Keys, Read(j)
  PROVE  IInv'
<1>t. TypeOK /\ PendingWhileExecuting /\ CopiesFollowed /\ HoldersRemembered /\ CacheCoherent
  BY DEF IInv
<1>0. current \in Clients
  BY <1>t DEF TypeOK, Read
<1>1. TypeOK'
  BY <1>t, <1>0 DEF TypeOK, Read
<1>2. PendingWhileExecuting'
  BY <1>t DEF PendingWhileExecuting, Read
<1>c. ASSUME NEW c \in Clients, NEW k \in Keys
      PROVE  \/ copy'[c][k] = copy[c][k]
             \/ /\ c = current /\ k = j /\ Caches(c) /\ Followed(c, k)
                /\ copy'[c][k] = version[k]
                /\ client[c].mode # "bcast" => c \in table'[k]
  BY <1>t, <1>0, <1>c DEF TypeOK, Read, RemembersKeys
<1>3. CopiesFollowed'
  <2>1. \A c \in Clients : Caches(c) => Tracks(c)
    BY <1>t DEF Caches, Tracks
  <2> QED BY SMTT(30), <1>t, <1>c, <2>1 DEF CopiesFollowed, Read, Followed, Tracks
<1>4. HoldersRemembered'
  <2>1. \A k \in Keys : table[k] \subseteq table'[k]
    BY <1>t DEF TypeOK, Read
  <2> QED BY <1>t, <1>c, <2>1 DEF HoldersRemembered, Read
<1>5. CacheCoherent'
  BY SMTT(30), <1>t, <1>c DEF CacheCoherent, Informed, Due, Tracks, Read
<1> QED BY <1>1, <1>2, <1>3, <1>4, <1>5 DEF IInv

LEMMA FlushIInv ==
  ASSUME IInv, Flush
  PROVE  IInv'
<1>t. TypeOK /\ PendingWhileExecuting /\ CopiesFollowed /\ HoldersRemembered /\ CacheCoherent
  BY DEF IInv
<1>0. current \in Clients
  BY <1>t DEF TypeOK, Flush
<1>1. TypeOK'
  BY SMTT(30), <1>t, <1>0 DEF TypeOK, Flush, Told
<1>2. PendingWhileExecuting'
  BY DEF PendingWhileExecuting, Flush
<1>c. ASSUME NEW c \in Clients, NEW k \in Keys
      PROVE  /\ copy'[c][k] \in {0, copy[c][k]}
             /\ Tracks(c) => copy'[c][k] = 0 \/ (c = current /\ k \in pending')
  BY <1>t, <1>0, <1>c DEF TypeOK, Flush, Told
<1>3. CopiesFollowed'
  BY SMTT(30), <1>t, <1>c DEF CopiesFollowed, Tracks, Flush
<1>4. HoldersRemembered'
  BY <1>t, <1>c DEF HoldersRemembered, Tracks, Flush
<1>5. CacheCoherent'
  BY <1>t, <1>c DEF CacheCoherent, Informed, Tracks, Flush
<1> QED BY <1>1, <1>2, <1>3, <1>4, <1>5 DEF IInv

LEMMA AfterCommandIInv ==
  ASSUME IInv, AfterCommand
  PROVE  IInv'
<1>t. TypeOK /\ PendingWhileExecuting /\ CopiesFollowed /\ HoldersRemembered /\ CacheCoherent
  BY DEF IInv
<1>0. current \in Clients
  BY <1>t DEF TypeOK, AfterCommand
<1>1. TypeOK'
  BY <1>t, <1>0 DEF TypeOK, AfterCommand
<1>2. PendingWhileExecuting'
  BY DEF PendingWhileExecuting, AfterCommand
<1>m. ASSUME NEW c \in Clients
      PROVE  /\ client'[c].mode = client[c].mode /\ client'[c].prefixes = client[c].prefixes
             /\ client'[c].noloop = client[c].noloop
  BY <1>t, <1>0, <1>m DEF TypeOK, AfterCommand
<1>c. ASSUME NEW c \in Clients, NEW k \in Keys
      PROVE  /\ copy'[c][k] \in {0, copy[c][k]}
             /\ c = current /\ k \in pending => copy'[c][k] = 0
  BY <1>t, <1>0, <1>c DEF TypeOK, AfterCommand
<1>3. CopiesFollowed'
  BY SMTT(30), <1>t, <1>m, <1>c DEF CopiesFollowed, Tracks
<1>4. HoldersRemembered'
  BY SMTT(30), <1>t, <1>m, <1>c DEF HoldersRemembered, AfterCommand
<1>5. CacheCoherent'
  BY SMTT(30), <1>t, <1>m, <1>c DEF CacheCoherent, Informed, Due, Tracks, AfterCommand
<1> QED BY <1>1, <1>2, <1>3, <1>4, <1>5 DEF IInv

LEMMA BroadcastIInv ==
  ASSUME IInv, BroadcastInvalidationMessages
  PROVE  IInv'
<1>t. TypeOK /\ PendingWhileExecuting /\ CopiesFollowed /\ HoldersRemembered /\ CacheCoherent
  BY DEF IInv
<1>1. TypeOK'
  BY <1>t DEF TypeOK, BroadcastInvalidationMessages, Told
<1>2. PendingWhileExecuting'
  BY <1>t DEF PendingWhileExecuting, BroadcastInvalidationMessages
<1>c. ASSUME NEW c \in Clients, NEW k \in Keys
      PROVE  /\ copy'[c][k] \in {0, copy[c][k]}
             /\ (\E p \in Prefixes : Due(c, p, k)) => copy'[c][k] = 0
  BY <1>t, <1>c DEF TypeOK, BroadcastInvalidationMessages, Told
<1>3. CopiesFollowed'
  BY SMTT(30), <1>t, <1>c DEF CopiesFollowed, Tracks, BroadcastInvalidationMessages
<1>4. HoldersRemembered'
  BY <1>t, <1>c DEF HoldersRemembered, BroadcastInvalidationMessages
<1>5. CacheCoherent'
  BY <1>t, <1>c DEF CacheCoherent, Informed, Tracks, BroadcastInvalidationMessages
<1> QED BY <1>1, <1>2, <1>3, <1>4, <1>5 DEF IInv

(* Nobody executes, so no key is pending; and a client keeps copies across *)
(* CLIENT TRACKING on only if it was tracking in a compatible mode.        *)
LEMMA EnableIInv ==
  ASSUME IInv, NEW c \in Clients, NEW m \in Modes, NEW n \in BOOLEAN, NEW ps \in PrefixLists,
         EnableTracking(c, m, n, ps)
  PROVE  IInv'
<1>t. TypeOK /\ PendingWhileExecuting /\ CopiesFollowed /\ HoldersRemembered /\ CacheCoherent
  BY DEF IInv
<1>0. pending = {}
  BY <1>t DEF TypeOK, PendingWhileExecuting, EnableTracking
<1>p. ASSUME NEW d \in Clients
      PROVE  /\ d # c => client'[d] = client[d]
             /\ d = c => /\ client'[d].mode = m /\ client'[d].noloop = n
                         /\ m # "bcast" => client'[d].prefixes = {}
                         /\ m = "bcast" => client[d].prefixes \subseteq client'[d].prefixes
                         /\ client'[d].prefixes \subseteq Prefixes
                         /\ client'[d] \in [mode: Modes, noloop: BOOLEAN, caching: BOOLEAN,
                                            prefixes: SUBSET Prefixes]
  <2> DEFINE new == IF ps = <<>> THEN {Keys} ELSE {ps[i] : i \in DOMAIN ps}
             all == IF m # "bcast" THEN {} ELSE client[c].prefixes \cup new
  <2>1. new \subseteq Prefixes
    <3>1. ps \in Seq(Prefixes) /\ Keys \in Prefixes
      BY TrackingAssumption
    <3> QED BY SMTT(30), <3>1
  <2>2. client[c].prefixes \subseteq Prefixes /\ client[c].caching \in BOOLEAN
    BY <1>t DEF TypeOK
  <2>3. client' = [client EXCEPT ![c] = [mode |-> m, noloop |-> n, caching |-> client[c].caching,
                                         prefixes |-> all]]
    BY DEF EnableTracking
  <2>4. /\ all \subseteq Prefixes /\ (m # "bcast" => all = {})
        /\ m = "bcast" => client[c].prefixes \subseteq all
    BY <2>1, <2>2
  <2> HIDE DEF all
  <2> QED BY <1>t, <1>p, <2>2, <2>3, <2>4 DEF TypeOK
<1>c. ASSUME NEW d \in Clients, NEW k \in Keys
      PROVE  /\ copy'[d][k] \in {0, copy[d][k]}
             /\ d # c => copy'[d][k] = copy[d][k]
             /\ \A p \in Prefixes : d = c /\ n /\ bcast[p][k] = c => copy'[d][k] = 0
  BY <1>t, <1>c DEF TypeOK, EnableTracking
<1>k. Tracks(c) => (m = "bcast") = (client[c].mode = "bcast")
  BY DEF EnableTracking, Compatible
<1>1. TypeOK'
  <2>1. copy' \in [Clients -> [Keys -> Nat]]
    BY <1>t DEF TypeOK, EnableTracking
  <2>2. client' \in [Clients -> [mode: Modes, noloop: BOOLEAN, caching: BOOLEAN,
                                 prefixes: SUBSET Prefixes]]
    <3>1. DOMAIN client' = Clients /\ client' = [d \in Clients |-> client'[d]]
      BY <1>t DEF TypeOK, EnableTracking
    <3>2. \A d \in Clients : client'[d] \in [mode: Modes, noloop: BOOLEAN, caching: BOOLEAN,
                                             prefixes: SUBSET Prefixes]
      BY <1>t, <1>p DEF TypeOK
    <3> QED BY <3>1, <3>2
  <2> QED BY <1>t, <2>1, <2>2 DEF TypeOK, EnableTracking
<1>2. PendingWhileExecuting'
  BY <1>0 DEF PendingWhileExecuting, EnableTracking
<1>3. CopiesFollowed'
  <2>1. ASSUME NEW d \in Clients, client'[d].mode # "bcast"
        PROVE  client'[d].prefixes = {}
    BY <1>t, <1>p, <2>1 DEF CopiesFollowed
  <2>2. ASSUME NEW d \in Clients, NEW k \in Keys, copy'[d][k] # 0
        PROVE  /\ Tracks(d)'
               /\ client'[d].mode = "bcast" => \E p \in client'[d].prefixes : k \in p
    <3>1. copy[d][k] # 0 /\ Tracks(d)
      BY <1>t, <1>c, <2>2 DEF CopiesFollowed
    <3>2. CASE d # c
      BY <1>t, <1>p, <3>1, <3>2 DEF CopiesFollowed, Tracks
    <3>3. CASE d = c
      BY SMTT(30), <1>t, <1>p, <1>k, <3>1, <3>3 DEF CopiesFollowed, Tracks, EnableTracking
    <3> QED BY <3>2, <3>3
  <2> QED BY <2>1, <2>2 DEF CopiesFollowed
<1>4. HoldersRemembered'
  <2>1. ASSUME NEW d \in Clients, NEW k \in Keys, client'[d].mode \in TableModes,
               copy'[d][k] # 0, d \notin skipped
        PROVE  d \in table[k]
    <3>1. copy[d][k] # 0 /\ Tracks(d)
      BY <1>t, <1>c, <2>1 DEF CopiesFollowed
    <3>2. client[d].mode \in TableModes
      BY SMTT(30), <1>t, <1>p, <1>k, <2>1, <3>1 DEF TableModes, Modes, TypeOK, Tracks
    <3> QED BY <1>t, <1>0, <2>1, <3>1, <3>2 DEF HoldersRemembered, TableModes
  <2> QED BY <2>1 DEF HoldersRemembered, TableModes, EnableTracking
<1>5. CacheCoherent'
  <2>1. ASSUME NEW d \in Clients, NEW k \in Keys, d \notin skipped, copy'[d][k] # 0
        PROVE  Informed(d, k)'
    <3>1. copy[d][k] # 0 /\ Tracks(d) /\ copy'[d][k] = copy[d][k]
      BY <1>t, <1>c, <2>1 DEF CopiesFollowed
    <3>2. copy[d][k] = version[k] \/ \E p \in Prefixes : Due(d, p, k)
      BY <1>t, <1>0, <2>1, <3>1 DEF CacheCoherent, Informed
    <3>3. ASSUME NEW p \in Prefixes, Due(d, p, k)
          PROVE  Due(d, p, k)'
      <4>1. p \in client'[d].prefixes
        <5>1. client[d].mode = "bcast"
          BY <1>t, <3>3 DEF CopiesFollowed, Due
        <5> QED BY <1>p, <1>k, <3>1, <3>3, <5>1 DEF Due
      <4>2. ~(client'[d].noloop /\ bcast[p][k] = d)
        BY SMTT(30), <1>p, <1>c, <2>1, <3>3 DEF Due
      <4> QED BY <3>3, <4>1, <4>2 DEF Due, EnableTracking
    <3> QED BY <3>1, <3>2, <3>3 DEF Informed, EnableTracking
  <2> QED BY <2>1 DEF CacheCoherent, Informed, EnableTracking
<1> QED BY <1>1, <1>2, <1>3, <1>4, <1>5 DEF IInv

LEMMA DisableIInv ==
  ASSUME IInv, NEW c \in Clients, DisableTracking(c)
  PROVE  IInv'
<1>t. TypeOK /\ PendingWhileExecuting /\ CopiesFollowed /\ HoldersRemembered /\ CacheCoherent
  BY DEF IInv
<1>1. TypeOK'
  BY <1>t DEF TypeOK, DisableTracking, Off, Modes
<1>2. PendingWhileExecuting'
  BY <1>t DEF PendingWhileExecuting, DisableTracking
<1>c. ASSUME NEW d \in Clients
      PROVE  /\ d # c => copy'[d] = copy[d] /\ client'[d] = client[d]
             /\ d = c => client'[d] = Off /\ \A k \in Keys : copy'[d][k] = 0
  BY <1>t, <1>c DEF TypeOK, DisableTracking
<1>3. CopiesFollowed'
  BY SMTT(30), <1>t, <1>c DEF CopiesFollowed, Tracks, Off
<1>4. HoldersRemembered'
  BY <1>t, <1>c DEF HoldersRemembered, DisableTracking, Off
<1>5. CacheCoherent'
  <2>1. ASSUME NEW d \in Clients, NEW k \in Keys, Tracks(d)', d \notin skipped'
        PROVE  Informed(d, k)'
    <3>1. d # c /\ d \notin skipped /\ Tracks(d)
      BY SMTT(30), <1>c, <2>1 DEF Off, Tracks, DisableTracking
    <3>2. \A p \in Prefixes : p \in client[d].prefixes => bcast'[p] = bcast[p]
      BY <3>1 DEF DisableTracking
    <3> QED BY SMTT(30), <1>t, <1>c, <3>1, <3>2 DEF CacheCoherent, Informed, Due, DisableTracking
  <2> QED BY <2>1 DEF CacheCoherent
<1> QED BY <1>1, <1>2, <1>3, <1>4, <1>5 DEF IInv

LEMMA QuietIInv ==
  ASSUME IInv, NEW c \in Clients, ClientCaching(c) \/ ProcessCommand(c)
  PROVE  IInv'
<1>t. TypeOK /\ PendingWhileExecuting /\ CopiesFollowed /\ HoldersRemembered /\ CacheCoherent
  BY DEF IInv
<1>0. pending = {} /\ UNCHANGED <<version, table, bcast, copy, executing, used, pending, skipped>>
  BY <1>t DEF TypeOK, PendingWhileExecuting, ClientCaching, ProcessCommand
<1>1. TypeOK'
  <2>1. CASE ClientCaching(c)
    BY <1>t, <2>1 DEF TypeOK, ClientCaching
  <2>2. CASE ProcessCommand(c)
    BY <1>t, <2>2, TrackingAssumption DEF TypeOK, ProcessCommand
  <2> QED BY <2>1, <2>2
<1>m. ASSUME NEW d \in Clients
      PROVE  /\ client'[d].mode = client[d].mode /\ client'[d].prefixes = client[d].prefixes
             /\ client'[d].noloop = client[d].noloop
  BY SMTT(30), <1>t, <1>m DEF TypeOK, ClientCaching, ProcessCommand
<1>2. PendingWhileExecuting' /\ CopiesFollowed' /\ HoldersRemembered'
  BY <1>t, <1>0, <1>m DEF PendingWhileExecuting, CopiesFollowed, Tracks, HoldersRemembered
<1>3. CacheCoherent'
  BY SMTT(30), <1>t, <1>0, <1>m DEF CacheCoherent, Informed, Due, Tracks
<1> QED BY <1>1, <1>2, <1>3 DEF IInv

-----------------------------------------------------------------------------
LEMMA NextIInv == IInv /\ [Next]_vars => IInv'
<1> SUFFICES ASSUME IInv, [Next]_vars PROVE IInv'
  OBVIOUS
<1>1. CASE \E c \in Trackers, m \in Modes, n \in BOOLEAN, ps \in PrefixLists :
             EnableTracking(c, m, n, ps)
  BY <1>1, EnableIInv, TrackingAssumption
<1>2. CASE \E c \in Clients : DisableTracking(c) \/ ClientCaching(c) \/ ProcessCommand(c)
  BY <1>2, DisableIInv, QuietIInv
<1>3. CASE \E k \in Keys : Write(k) \/ KeyDeleted(k) \/ Read(k)
  BY <1>3, WriteIInv, KeyDeletedIInv, ReadIInv
<1>4. CASE \E ks \in SUBSET Keys : Call(ks) \/ ServerCron(ks)
  BY <1>4, CallIInv
<1>5. CASE Flush \/ AfterCommand \/ BroadcastInvalidationMessages
  BY <1>5, FlushIInv, AfterCommandIInv, BroadcastIInv
<1>6. CASE UNCHANGED vars
  <2>1. TypeOK'
    BY <1>6 DEF IInv, vars, TypeOK
  <2>2. PendingWhileExecuting' /\ CopiesFollowed' /\ HoldersRemembered' /\ CacheCoherent'
    BY SMTT(30), <1>6 DEF IInv, vars, PendingWhileExecuting, CopiesFollowed, HoldersRemembered, CacheCoherent,
                Informed, Due, Tracks
  <2> QED BY <2>1, <2>2 DEF IInv
<1> QED BY <1>1, <1>2, <1>3, <1>4, <1>5, <1>6 DEF Next

LEMMA Invariant == Spec => []IInv
<1> QED BY InitIInv, NextIInv, PTL DEF Spec

(* Every variable of tracking.c keeps its type. *)
THEOREM TypeCorrect == Spec => []TypeOK
<1>1. IInv => TypeOK
  BY DEF IInv
<1> QED BY <1>1, Invariant, PTL

(* A tracking client with no message due holds the server's value of every *)
(* key it has cached, whatever CLIENT TRACKING calls, reads, writes,       *)
(* expirations, flushes and evictions from the table came before.          *)
THEOREM Coherence == Spec => []CacheCoherent
<1>1. IInv => CacheCoherent
  BY DEF IInv
<1> QED BY <1>1, Invariant, PTL

(* trackingRememberKeys and trackingInvalidateKey never forget a client    *)
(* that may still hold a copy.                                             *)
THEOREM NobodyForgotten == Spec => []HoldersRemembered
<1>1. IInv => HoldersRemembered
  BY DEF IInv
<1> QED BY <1>1, Invariant, PTL

-----------------------------------------------------------------------------
(* Induction *)

(* A nonempty set of natural numbers has a least element. *)
LEMMA Least ==
  ASSUME NEW T, T \subseteq Nat, T # {}
  PROVE  \E n \in T : \A m \in T : n <= m
<1> DEFINE R == OpToRel(<, Nat)
<1>0. R = {ss \in Nat \X Nat : ss[1] < ss[2]}
  BY DEF OpToRel
<1>1. IsWellFoundedOn(R, Nat)
  BY NatLessThanWellFounded
<1> HIDE DEF R
<1>2. PICK n \in T : \A m \in T : ~(<<m, n>> \in R)
  BY <1>1, WFMin
<1>3. ASSUME NEW m \in Nat, NEW k \in Nat, m < k PROVE <<m, k>> \in R
  BY <1>0, <1>3
<1>4. ASSUME NEW m \in T PROVE n <= m
  <2>1. n \in Nat /\ m \in Nat
    OBVIOUS
  <2>2. ~(<<m, n>> \in R)
    BY <1>2
  <2>3. ~(m < n)
    BY <2>1, <2>2, <1>3
  <2> QED BY SMTT(30), <2>1, <2>3
<1> QED BY <1>4

(* A set with 0, and with the successor of each of its numbers, has all. *)
LEMMA Induction ==
  ASSUME NEW S, 0 \in S, \A n \in Nat : n \in S => n + 1 \in S
  PROVE  \A n \in Nat : n \in S
<1> SUFFICES ASSUME NEW k \in Nat, k \notin S PROVE FALSE
  OBVIOUS
<1> DEFINE T == Nat \ S
<1>1. T \subseteq Nat /\ T # {}
  OBVIOUS
<1> HIDE DEF T
<1>2. PICK n \in T : \A m \in T : n <= m
  BY <1>1, Least
<1>3. n \in Nat /\ n \notin S /\ n # 0
  BY <1>2 DEF T
<1>4. n - 1 \in Nat /\ n - 1 \in S
  <2>1. n - 1 \in Nat /\ ~(n <= n - 1)
    BY SMTT(30), <1>3
  <2>2. n - 1 \notin T
    BY <1>2, <2>1
  <2> QED BY <2>1, <2>2 DEF T
<1>5. (n - 1) + 1 = n
  BY SMTT(30), <1>3
<1> QED BY <1>3, <1>4, <1>5

(* A loop of n steps over D: the i-th one takes d to g[<<i, d>>]. *)
Loops(n, D) == [(1 .. n) \X D -> D]

IsRun(f, n, D, b, g) ==
  f \in [0 .. n -> D] /\ f[0] = b /\ \A i \in 1 .. n : f[i] = g[<<i, f[i - 1]>>]

(* A loop that stays in D runs to its end. *)
LEMMA Iterates ==
  ASSUME NEW D, NEW b \in D, NEW n \in Nat, NEW g \in Loops(n, D)
  PROVE  \E f : IsRun(f, n, D, b, g)
<1> USE DEF Loops
<1> DEFINE Run(k, f) == f \in [0 .. k -> D] /\ f[0] = b /\ \A i \in 1 .. k : f[i] = g[<<i, f[i - 1]>>]
           S == {k \in Nat : k <= n => \E f : Run(k, f)}
<1>1. 0 \in S
  <2>1. Run(0, [i \in 0 .. 0 |-> b])
    BY SMTT(30)
  <2> QED BY <2>1
<1>2. ASSUME NEW k \in Nat, k \in S, k + 1 <= n PROVE \E f : Run(k + 1, f)
  <2>1. PICK f : Run(k, f)
    BY SMTT(30), <1>2
  <2> DEFINE h == [i \in 0 .. k + 1 |-> IF i = k + 1 THEN g[<<k + 1, f[k]>>] ELSE f[i]]
  <2>2. k + 1 \in 1 .. n /\ f[k] \in D
    BY SMTT(30), <1>2, <2>1
  <2>3. g[<<k + 1, f[k]>>] \in D
    BY <2>2
  <2>4. h \in [0 .. k + 1 -> D]
    BY SMTT(30), <2>1, <2>3
  <2>5. h[0] = b
    BY SMTT(30), <2>1
  <2>6. ASSUME NEW i \in 1 .. k + 1 PROVE h[i] = g[<<i, h[i - 1]>>]
    <3>1. CASE i = k + 1
      <4>1. h[i] = g[<<k + 1, f[k]>>] /\ h[i - 1] = f[k]
        BY SMTT(30), <3>1
      <4> QED BY <4>1, <3>1
    <3>2. CASE i # k + 1
      <4>1. i \in 1 .. k /\ i - 1 \in 0 .. k
        BY SMTT(30), <3>2
      <4>2. h[i] = f[i] /\ h[i - 1] = f[i - 1]
        BY SMTT(30), <4>1
      <4> QED BY <4>1, <4>2, <2>1
    <3> QED BY <3>1, <3>2
  <2> HIDE DEF h
  <2>7. Run(k + 1, h)
    BY <2>4, <2>5, <2>6
  <2> QED BY <2>7
<1> HIDE DEF Run
<1>3. \A k \in Nat : k \in S => k + 1 \in S
  BY SMTT(30), <1>2
<1> HIDE DEF S
<1>4. n \in S
  BY <1>1, <1>3, Induction
<1>5. PICK f : Run(n, f)
  BY SMTT(30), <1>4 DEF S
<1> QED BY <1>5 DEF Run, IsRun

(* The cells *)

Cell == [value: Int, width: In!Widths \cup {0}, part: Nat]

Memory(size) == [0 .. size - 1 -> Cell]

(* The value at a position is v, and none of its cells was overwritten. *)
Holds(cells, w, pos, v) ==
  \A n \in 0 .. w - 1 : cells[w * pos + n] = [value |-> v, width |-> w, part |-> n]

(* Positions do not overlap. *)
LEMMA Apart ==
  ASSUME NEW w \in In!Widths, NEW p \in Nat, NEW q \in Nat
  PROVE  /\ w * p \in Nat /\ w * p = p * w /\ w * (p + 1) = w * p + w
         /\ p < q => w * p + w <= w * q
         /\ p <= q => w * p <= w * q
BY SMTT(30) DEF In!Widths

(* A wider position does not begin before a narrower one. *)
LEMMA Wider ==
  ASSUME NEW w \in In!Widths, NEW u \in In!Widths, w <= u, NEW p \in Nat
  PROVE  w * p <= u * p
BY SMTT(30) DEF In!Widths

(* What fits is an integer, and fits in more cells. *)
LEMMA FitsOk ==
  ASSUME NEW w \in In!Widths, NEW u \in In!Widths, w <= u
  PROVE  /\ In!Fits(w) \subseteq Int /\ In!Fits(w) \subseteq In!Fits(u)
         /\ IntsetHalf[w] \in Nat /\ IntsetHalf[u] \in Nat /\ IntsetHalf[w] <= IntsetHalf[u]
<1>1. IntsetHalf[w] \in Nat /\ IntsetHalf[u] \in Nat /\ IntsetHalf[w] <= IntsetHalf[u]
  BY SMTT(30), IntsetAssumption DEF In!Widths
<1> QED BY SMTT(30), <1>1 DEF In!Fits

(* What is held is what is read. *)
LEMMA GetHeld ==
  ASSUME NEW cells, NEW w \in In!Widths, NEW pos \in Nat, NEW v, Holds(cells, w, pos, v)
  PROVE  In!GetEncoded(cells, pos, w) = v
<1>1. 0 \in 0 .. w - 1 /\ w * pos + 0 = w * pos
  BY SMTT(30), Apart DEF In!Widths
<1>2. cells[w * pos + 0].value = v
  <2>1. cells[w * pos + 0] = [value |-> v, width |-> w, part |-> 0]
    BY <1>1, Zenon DEF Holds
  <2> QED BY SMTT(30), <2>1
<1> QED BY <1>2 DEF In!GetEncoded, Holds

(* What is read is an integer. *)
LEMMA GetInt ==
  ASSUME NEW size \in Nat, NEW cells \in Memory(size), NEW w \in In!Widths, NEW pos \in Nat,
         w * pos + w <= size
  PROVE  In!GetEncoded(cells, pos, w) \in Int
<1>1. w * pos \in Nat /\ w * pos + 0 \in 0 .. size - 1
  BY SMTT(30), Apart DEF In!Widths
<1>2. cells[w * pos + 0].value \in Int
  BY <1>1 DEF Memory, Cell
<1>3. In!Torn \in Int
  BY SMTT(30), IntsetAssumption DEF In!Torn, In!Widths
<1> QED BY <1>2, <1>3 DEF In!GetEncoded

(* A write holds, and leaves the other cells. *)
LEMMA SetOk ==
  ASSUME NEW size \in Nat, NEW cells \in Memory(size), NEW w \in In!Widths, NEW pos \in Nat,
         w * pos + w <= size, NEW v \in Int, NEW new, new = In!Set(cells, pos, w, v)
  PROVE  /\ new \in Memory(size) /\ Holds(new, w, pos, v)
         /\ \A i \in 0 .. size - 1 : i < w * pos \/ i >= w * pos + w => new[i] = cells[i]
<1>1. w * pos \in Nat /\ w \in Nat /\ DOMAIN cells = 0 .. size - 1
  BY SMTT(30), Apart DEF Memory, In!Widths
<1>2. ASSUME NEW i \in 0 .. size - 1
      PROVE  new[i] = IF i \in w * pos .. w * pos + w - 1
                      THEN [value |-> v, width |-> w, part |-> i - w * pos] ELSE cells[i]
  BY <1>1 DEF In!Set
<1>3. new \in Memory(size)
  <2>1. ASSUME NEW i \in 0 .. size - 1 PROVE new[i] \in Cell
    <3>1. CASE i \in w * pos .. w * pos + w - 1
      <4>1. i - w * pos \in Nat
        BY SMTT(30), <1>1, <3>1
      <4>2. w \in In!Widths \cup {0}
        OBVIOUS
      <4>3. [value |-> v, width |-> w, part |-> i - w * pos] \in Cell
        BY <4>1, <4>2 DEF Cell
      <4>4. new[i] = [value |-> v, width |-> w, part |-> i - w * pos]
        BY <1>2, <3>1
      <4> QED BY <4>3, <4>4
    <3>2. CASE i \notin w * pos .. w * pos + w - 1
      BY <1>2, <3>2 DEF Memory
    <3> QED BY <3>1, <3>2
  <2>2. new = [i \in 0 .. size - 1 |-> new[i]]
    BY <1>1 DEF In!Set
  <2> QED BY <2>1, <2>2 DEF Memory
<1>4. Holds(new, w, pos, v)
  <2>1. ASSUME NEW n \in 0 .. w - 1 PROVE new[w * pos + n] = [value |-> v, width |-> w, part |-> n]
    <3>1. w * pos + n \in 0 .. size - 1 /\ w * pos + n \in w * pos .. w * pos + w - 1
          /\ (w * pos + n) - w * pos = n
      BY SMTT(30), <1>1
    <3> QED BY <1>2, <3>1
  <2> QED BY <2>1 DEF Holds
<1>5. ASSUME NEW i \in 0 .. size - 1, i < w * pos \/ i >= w * pos + w PROVE new[i] = cells[i]
  <2>1. i \notin w * pos .. w * pos + w - 1
    BY SMTT(30), <1>1, <1>5
  <2> QED BY <1>2, <2>1
<1> QED BY <1>3, <1>4, <1>5

(* A value is held wherever its cells are copied to. *)
LEMMA Copied ==
  ASSUME NEW cells, NEW new, NEW w \in In!Widths, NEW p \in Nat, NEW q \in Nat, NEW v, Holds(cells, w, p, v),
         \A n \in 0 .. w - 1 : new[w * q + n] = cells[w * p + n]
  PROVE  Holds(new, w, q, v)
BY DEF Holds

-----------------------------------------------------------------------------
(* The binary search *)

(* The integers a of an intset, in order. *)
IsArray(s, a) ==
  /\ s = [encoding |-> s.encoding, length |-> s.length, contents |-> s.contents]
  /\ s.encoding \in In!Widths /\ s.length \in Nat
  /\ s.contents \in Memory(s.length * s.encoding)
  /\ a \in [0 .. s.length - 1 -> In!Fits(s.encoding)]
  /\ \A p \in 0 .. s.length - 1 : Holds(s.contents, s.encoding, p, a[p])
  /\ \A p, q \in 0 .. s.length - 1 : p < q => a[p] < a[q]

(* They are what is read. *)
LEMMA GetOk ==
  ASSUME NEW s, NEW a, IsArray(s, a), NEW p \in 0 .. s.length - 1
  PROVE  In!Get(s, p) = a[p] /\ a[p] \in Int
<1>1. p \in Nat /\ s.encoding \in In!Widths /\ Holds(s.contents, s.encoding, p, a[p])
  BY SMTT(30) DEF IsArray
<1>2. a[p] \in Int
  BY SMTT(30), <1>1, FitsOk DEF IsArray, In!Widths
<1> QED BY <1>1, <1>2, GetHeld DEF In!Get

(* The search is at b: what is below its bounds is smaller, and what is    *)
(* above them is greater, than v.                                          *)
Between(a, n, v, b) ==
  /\ b.min \in 0 .. n /\ b.max \in -1 .. n - 1 /\ b.min <= b.max + 1
  /\ b.found => b.min \in 0 .. n - 1 /\ a[b.min] = v
  /\ ~b.found => /\ \A p \in 0 .. n - 1 : p < b.min => a[p] < v
                 /\ \A p \in 0 .. n - 1 : p > b.max => a[p] > v

Bounds(n) == [min: 0 .. n, max: -1 .. n - 1, found: BOOLEAN]

(* A turn of the loop stays on the trail and takes a position away. *)
LEMMA HalveOk ==
  ASSUME NEW s, NEW a, IsArray(s, a), NEW v \in Int, NEW b \in Bounds(s.length), Between(a, s.length, v, b),
         NEW c, c = In!Halve(s, v, b)
  PROVE  /\ c \in Bounds(s.length) /\ Between(a, s.length, v, c)
         /\ c.found \/ c.max < c.min \/ (~b.found /\ c.max - c.min < b.max - b.min)
<1>1. /\ s.length \in Nat /\ b.min \in 0 .. s.length /\ b.max \in -1 .. s.length - 1 /\ b.found \in BOOLEAN
      /\ b.min <= b.max + 1
  BY DEF Bounds, Between, IsArray
<1>2. CASE b.found \/ b.max < b.min
  <2>1. c = b
    BY SMTT(30), <1>1, <1>2 DEF In!Halve
  <2> QED BY <1>1, <1>2, <2>1
<1>3. CASE ~b.found /\ b.max >= b.min
  <2>1. PICK mid : mid = (b.min + b.max) \div 2
    OBVIOUS
  <2>2. mid \in 0 .. s.length - 1 /\ b.min <= mid /\ mid <= b.max
    BY SMTT(30), <1>1, <1>3, <2>1
  <2>3. In!Get(s, mid) = a[mid] /\ a[mid] \in Int
    BY <2>2, GetOk
  <2>4. /\ \A p \in 0 .. s.length - 1 : p < b.min => a[p] < v
        /\ \A p \in 0 .. s.length - 1 : p > b.max => a[p] > v
    BY <1>3 DEF Between
  <2>5. \A p \in 0 .. s.length - 1 : a[p] \in Int /\ (p < mid => a[p] < a[mid]) /\ (p > mid => a[mid] < a[p])
    <3>1. \A p \in 0 .. s.length - 1 : a[p] \in Int
      BY GetOk
    <3> QED BY <2>2, <3>1 DEF IsArray
  <2>6. CASE v > a[mid]
    <3>1. c = [b EXCEPT !.min = mid + 1]
      BY SMTT(30), <1>3, <2>1, <2>3, <2>6 DEF In!Halve
    <3>2. c.min = mid + 1 /\ c.max = b.max /\ ~c.found
      BY <1>3, <3>1 DEF Bounds
    <3>3. mid + 1 \in 0 .. s.length /\ mid + 1 <= b.max + 1 /\ b.max - (mid + 1) < b.max - b.min
      BY SMTT(30), <1>1, <2>2
    <3>4. c \in Bounds(s.length)
      BY <3>1, <3>3 DEF Bounds
    <3>5. \A p \in 0 .. s.length - 1 : p < mid + 1 => a[p] < v
      <4> SUFFICES ASSUME NEW p \in 0 .. s.length - 1, p < mid + 1 PROVE a[p] < v
        OBVIOUS
      <4>1. p < mid \/ p = mid
        BY SMTT(30), <2>2
      <4> QED BY SMTT(30), <2>3, <2>5, <2>6, <4>1
    <3>6. Between(a, s.length, v, c)
      BY <1>1, <2>4, <3>2, <3>3, <3>5 DEF Between
    <3> QED BY <1>3, <3>2, <3>3, <3>4, <3>6
  <2>7. CASE v < a[mid]
    <3>1. c = [b EXCEPT !.max = mid - 1]
      BY SMTT(30), <1>3, <2>1, <2>3, <2>7 DEF In!Halve
    <3>2. c.min = b.min /\ c.max = mid - 1 /\ ~c.found
      BY <1>3, <3>1 DEF Bounds
    <3>3. mid - 1 \in -1 .. s.length - 1 /\ b.min <= (mid - 1) + 1 /\ (mid - 1) - b.min < b.max - b.min
      BY SMTT(30), <1>1, <2>2
    <3>4. c \in Bounds(s.length)
      BY <3>1, <3>3 DEF Bounds
    <3>5. \A p \in 0 .. s.length - 1 : p > mid - 1 => a[p] > v
      <4> SUFFICES ASSUME NEW p \in 0 .. s.length - 1, p > mid - 1 PROVE a[p] > v
        OBVIOUS
      <4>1. p > mid \/ p = mid
        BY SMTT(30), <2>2
      <4> QED BY SMTT(30), <2>3, <2>5, <2>7, <4>1
    <3>6. Between(a, s.length, v, c)
      BY <1>1, <2>4, <3>2, <3>3, <3>5 DEF Between
    <3> QED BY <1>3, <3>2, <3>3, <3>4, <3>6
  <2>8. CASE v = a[mid]
    <3>1. c = [b EXCEPT !.found = TRUE, !.min = mid]
      <4>1. ~(v > a[mid]) /\ ~(v < a[mid])
        BY SMTT(30), <2>3, <2>8
      <4>2. ~(b.found \/ b.max < b.min)
        BY SMTT(30), <1>1, <1>3
      <4> QED BY <2>1, <2>3, <4>1, <4>2 DEF In!Halve
    <3>2. c.min = mid /\ c.max = b.max /\ c.found
      BY <3>1 DEF Bounds
    <3>3. mid \in 0 .. s.length /\ mid <= b.max + 1
      BY SMTT(30), <1>1, <2>2
    <3>4. c \in Bounds(s.length)
      BY <3>1, <3>3 DEF Bounds
    <3>5. Between(a, s.length, v, c)
      BY <1>1, <2>2, <2>8, <3>2, <3>3 DEF Between
    <3> QED BY <3>2, <3>4, <3>5
  <2> QED BY SMTT(30), <2>3, <2>6, <2>7, <2>8
<1> QED BY SMTT(30), <1>1, <1>2, <1>3

(* What the search answers: the position of the value, or where it belongs. *)
Located(a, n, v, r) ==
  /\ r.found \in BOOLEAN
  /\ r.found => r.pos \in 0 .. n - 1 /\ a[r.pos] = v
  /\ ~r.found => /\ r.pos \in 0 .. n
                 /\ \A p \in 0 .. n - 1 : p < r.pos => a[p] < v
                 /\ \A p \in 0 .. n - 1 : p >= r.pos => a[p] > v

(* The loop ends, with the right answer. *)
LEMMA BisectOk ==
  ASSUME NEW s, NEW a, IsArray(s, a), NEW v \in Int
  PROVE  Located(a, s.length, v, In!Bisect(s, v))
<1> DEFINE n == s.length
           first == [min |-> 0, max |-> s.length - 1, found |-> FALSE]
           F(f) == f = [i \in 0 .. n |-> IF i = 0 THEN first ELSE In!Halve(s, v, f[i - 1])]
           D == {b \in Bounds(n) : Between(a, n, v, b)}
           g == [x \in (1 .. n) \X D |-> In!Halve(s, v, x[2])]
           k == CHOOSE f : F(f)
<1>1. n \in Nat /\ first \in D /\ first.min = 0 /\ first.max = n - 1 /\ ~first.found
  <2>1. n \in Nat
    BY DEF IsArray
  <2>2. first \in Bounds(n)
    BY SMTT(30), <2>1 DEF Bounds
  <2>3. Between(a, n, v, first)
    BY SMTT(30), <2>1 DEF Between
  <2> QED BY <2>1, <2>2, <2>3
<1> HIDE DEF n, first
<1>2. ASSUME NEW b \in D
      PROVE  /\ In!Halve(s, v, b) \in D
             /\ \/ In!Halve(s, v, b).found \/ In!Halve(s, v, b).max < In!Halve(s, v, b).min
                \/ ~b.found /\ In!Halve(s, v, b).max - In!Halve(s, v, b).min < b.max - b.min
  <2>1. b \in Bounds(s.length) /\ Between(a, s.length, v, b)
    BY DEF n
  <2>2. PICK c : c = In!Halve(s, v, b)
    OBVIOUS
  <2>3. /\ c \in Bounds(s.length) /\ Between(a, s.length, v, c)
        /\ c.found \/ c.max < c.min \/ (~b.found /\ c.max - c.min < b.max - b.min)
    BY <2>1, <2>2, HalveOk
  <2> QED BY <2>2, <2>3 DEF n
<1>3. \A b \in D : b.min \in 0 .. n /\ b.max \in -1 .. n - 1 /\ b.found \in BOOLEAN /\ b.min <= b.max + 1
  BY DEF Bounds, Between
<1> HIDE DEF D
<1>4. g \in [(1 .. n) \X D -> D] /\ \A i \in 1 .. n, b \in D : g[<<i, b>>] = In!Halve(s, v, b)
  BY <1>2
<1> HIDE DEF g
<1>5. PICK f \in [0 .. n -> D] : f[0] = first /\ \A i \in 1 .. n : f[i] = g[<<i, f[i - 1]>>]
  <2>1. g \in Loops(n, D)
    BY <1>4 DEF Loops
  <2>2. \E f : IsRun(f, n, D, first, g)
    BY <1>1, <2>1, Iterates
  <2> QED BY <2>2 DEF IsRun
<1>6. ASSUME NEW i \in 1 .. n
      PROVE  i - 1 \in 0 .. n /\ f[i - 1] \in D /\ f[i] = In!Halve(s, v, f[i - 1])
  <2>1. i - 1 \in 0 .. n
    BY SMTT(30), <1>1
  <2>2. f[i - 1] \in D
    BY <2>1
  <2> QED BY <1>4, <1>5, <2>1, <2>2
<1>7. F(f)
  <2> DEFINE G == [i \in 0 .. n |-> IF i = 0 THEN first ELSE In!Halve(s, v, f[i - 1])]
  <2>1. ASSUME NEW i \in 0 .. n PROVE f[i] = G[i]
    <3>1. CASE i = 0
      BY <1>5, <3>1
    <3>2. CASE i # 0
      <4>1. i \in 1 .. n
        BY SMTT(30), <1>1, <3>2
      <4> QED BY <3>2, <4>1, <1>6
    <3> QED BY <3>1, <3>2
  <2> QED BY <2>1
<1>8. F(k)
  <2> HIDE DEF F
  <2> QED BY <1>7
<1>9. In!Bisect(s, v) = [found |-> k[n].found, pos |-> k[n].min]
  BY DEF In!Bisect, n, first
<1> HIDE DEF k
<1>10. k[0] = first /\ \A i \in 1 .. n : k[i] = In!Halve(s, v, k[i - 1])
  <2>1. 0 \in 0 .. n /\ \A i \in 1 .. n : i \in 0 .. n /\ i # 0
    BY SMTT(30), <1>1
  <2> QED BY <1>8, <2>1, Zenon
<1> HIDE DEF F
<1> DEFINE Near(i, b) == b \in D /\ (b.found \/ b.max < b.min \/ b.max - b.min < n - i)
           S == {i \in Nat : i <= n => Near(i, k[i])}
<1>11. 0 \in S
  <2>1. first.max - first.min < n - 0
    BY SMTT(30), <1>1
  <2> QED BY <1>1, <1>10, <2>1
<1>12. ASSUME NEW i \in Nat, i \in S, i + 1 <= n PROVE Near(i + 1, k[i + 1])
  <2>1. i + 1 \in 1 .. n /\ (i + 1) - 1 = i /\ i <= n
    BY SMTT(30), <1>1, <1>12
  <2>2. PICK b : b = k[i]
    OBVIOUS
  <2>3. PICK c : c = k[i + 1]
    OBVIOUS
  <2>4. Near(i, b) /\ c = In!Halve(s, v, b)
    BY <1>10, <1>12, <2>1, <2>2, <2>3
  <2>5. c \in D /\ (c.found \/ c.max < c.min \/ (~b.found /\ c.max - c.min < b.max - b.min))
    BY <1>2, <2>4
  <2>6. CASE c.found \/ c.max < c.min
    BY <2>3, <2>5, <2>6
  <2>7. CASE ~c.found /\ ~(c.max < c.min) /\ ~b.found /\ c.max - c.min < b.max - b.min
    <3>1. /\ b.min \in Int /\ b.max \in Int /\ c.min \in Int /\ c.max \in Int
      BY SMTT(30), <1>1, <1>3, <2>4, <2>5
    <3>2. c.max - c.min < n - (i + 1)
      BY SMTT(30), <1>1, <2>4, <2>7, <3>1
    <3> QED BY <2>3, <2>5, <3>2
  <2> QED BY <2>5, <2>6, <2>7
<1>13. \A i \in Nat : i \in S => i + 1 \in S
  BY SMTT(30), <1>12
<1> HIDE DEF S
<1>14. n \in S
  BY <1>1, <1>11, <1>13, Induction
<1>15. PICK b : b = k[n]
  OBVIOUS
<1>16. b \in D /\ (b.found \/ b.max < b.min)
  <2>1. Near(n, b)
    BY SMTT(30), <1>1, <1>14, <1>15 DEF S
  <2>2. b.min \in Int /\ b.max \in Int
    BY SMTT(30), <1>1, <1>3, <2>1
  <2> QED BY SMTT(30), <1>1, <2>1, <2>2
<1>17. Between(a, n, v, b) /\ b.min \in 0 .. n /\ b.max \in -1 .. n - 1 /\ b.found \in BOOLEAN
       /\ b.min <= b.max + 1
  BY <1>3, <1>16 DEF D
<1>18. PICK r : r = In!Bisect(s, v)
  OBVIOUS
<1>19. r.found = b.found /\ r.pos = b.min
  BY SMTT(30), <1>9, <1>15, <1>18
<1>20. CASE b.found
  BY <1>17, <1>18, <1>19, <1>20 DEF Between, Located, n
<1>21. CASE ~b.found
  <2>1. b.max < b.min /\ \A p \in 0 .. n - 1 : p >= b.min => p > b.max
    BY SMTT(30), <1>1, <1>16, <1>17, <1>21
  <2>2. /\ \A p \in 0 .. n - 1 : p < b.min => a[p] < v
        /\ \A p \in 0 .. n - 1 : p > b.max => a[p] > v
    BY <1>17, <1>21 DEF Between
  <2>3. Located(a, n, v, r)
    BY <1>17, <1>19, <1>21, <2>1, <2>2 DEF Located
  <2> QED BY <1>18, <2>3 DEF n
<1> QED BY <1>17, <1>20, <1>21

(* The search, whose shortcuts are right too. *)
LEMMA SearchOk ==
  ASSUME NEW s, NEW a, IsArray(s, a), NEW v \in Int
  PROVE  Located(a, s.length, v, In!Search(s, v))
<1>1. s.length \in Nat
  BY DEF IsArray
<1>2. \A p \in 0 .. s.length - 1 : In!Get(s, p) = a[p] /\ a[p] \in Int
  BY GetOk
<1>3. CASE s.length = 0
  <2>1. In!Search(s, v) = [found |-> FALSE, pos |-> 0]
    BY <1>3 DEF In!Search
  <2> QED BY SMTT(30), <1>3, <2>1 DEF Located
<1>4. CASE s.length > 0 /\ v > In!Get(s, s.length - 1)
  <2>2. PICK l : l = s.length - 1
    OBVIOUS
  <2>3. l \in 0 .. s.length - 1 /\ v > a[l] /\ a[l] \in Int
    BY SMTT(30), <1>1, <1>2, <1>4, <2>2
  <2>4. ASSUME NEW p \in 0 .. s.length - 1 PROVE a[p] < v
    <3>1. a[p] \in Int /\ (p = l \/ p < l)
      BY SMTT(30), <1>1, <1>2, <2>2
    <3>2. p < l => a[p] < a[l]
      BY <2>3 DEF IsArray
    <3> QED BY SMTT(30), <2>3, <3>1, <3>2
  <2>5. \A p \in 0 .. s.length - 1 : ~(p >= s.length)
    BY SMTT(30), <1>1
  <2>1. In!Search(s, v) = [found |-> FALSE, pos |-> s.length]
    <3>1. 0 \in 0 .. s.length - 1 /\ s.length # 0
      BY SMTT(30), <1>1, <1>4
    <3>2. ~(v < In!Get(s, 0))
      BY SMTT(30), <1>2, <2>4, <3>1
    <3> QED BY <1>4, <3>1, <3>2 DEF In!Search
  <2> QED BY SMTT(30), <1>1, <2>1, <2>4, <2>5 DEF Located
<1>5. CASE s.length > 0 /\ ~(v > In!Get(s, s.length - 1)) /\ v < In!Get(s, 0)
  <2>1. 0 \in 0 .. s.length - 1 /\ s.length - 1 \in 0 .. s.length - 1 /\ s.length # 0
    BY SMTT(30), <1>1, <1>5
  <2>2. In!Search(s, v) = [found |-> FALSE, pos |-> 0]
    BY <1>5, <2>1 DEF In!Search
  <2>3. v < a[0] /\ a[0] \in Int
    BY <1>2, <1>5, <2>1
  <2>4. ASSUME NEW p \in 0 .. s.length - 1 PROVE a[p] > v /\ ~(p < 0)
    <3>1. a[p] \in Int /\ (p = 0 \/ 0 < p) /\ ~(p < 0)
      BY SMTT(30), <1>1, <1>2
    <3>2. 0 < p => a[0] < a[p]
      BY <2>1 DEF IsArray
    <3> QED BY SMTT(30), <2>3, <3>1, <3>2
  <2> QED BY SMTT(30), <1>1, <2>2, <2>4 DEF Located
<1>6. CASE s.length # 0 /\ ~(v > In!Get(s, s.length - 1)) /\ ~(v < In!Get(s, 0))
  <2>1. In!Search(s, v) = In!Bisect(s, v)
    BY <1>6 DEF In!Search
  <2> QED BY <2>1, BisectOk
<1> QED BY SMTT(30), <1>1, <1>3, <1>4, <1>5, <1>6

-----------------------------------------------------------------------------
(* The widening *)

(* The narrow value at p and the wide one at q do not share a cell if the  *)
(* wide one lies further up.                                               *)
LEMMA WidenOk ==
  ASSUME NEW size \in Nat, NEW cells \in Memory(size), NEW n \in Nat, NEW w \in In!Widths,
         NEW u \in In!Widths, w <= u,
         NEW shift \in {0, 1}, u * (n + shift) <= size, NEW a \in [0 .. n - 1 -> Int],
         \A p \in 0 .. n - 1 : Holds(cells, w, p, a[p])
  PROVE  /\ In!Widen(cells, n, w, u, shift) \in Memory(size)
         /\ \A p \in 0 .. n - 1 : Holds(In!Widen(cells, n, w, u, shift), u, p + shift, a[p])
<1> DEFINE Step(c, i) == In!Set(c, n - i + shift, u, In!GetEncoded(c, n - i, w))
           F(f) == f = [i \in 0 .. n |-> IF i = 0 THEN cells ELSE Step(f[i - 1], i)]
           D == Memory(size)
           g == [x \in (1 .. n) \X D |-> Step(x[2], x[1])]
           k == CHOOSE f : F(f)
<1>1. ASSUME NEW i \in 1 .. n
      PROVE  /\ n - i \in 0 .. n - 1 /\ n - i + shift \in Nat
             /\ w * (n - i) + w <= size /\ u * (n - i + shift) + u <= size
  <2>1. n - i \in 0 .. n - 1 /\ n - i \in Nat /\ n - i + shift \in Nat /\ n + shift \in Nat
        /\ n - i + shift < n + shift
        /\ n \in Nat /\ n - i < n /\ n <= n + shift
    BY SMTT(30)
  <2>2. u * (n - i + shift) + u <= u * (n + shift) /\ u * (n + shift) \in Nat /\ u * (n - i + shift) \in Nat
    BY <2>1, Apart
  <2>3. w * (n - i) + w <= w * n /\ w * n <= u * n /\ u * n <= u * (n + shift)
    BY <2>1, Apart, Wider
  <2>4. w * (n - i) \in Nat /\ w * n \in Nat /\ u * n \in Nat /\ w \in Nat /\ u \in Nat
    BY SMTT(30), <2>1, Apart DEF In!Widths
  <2>5. PICK x1, x2, y1, y2, y3 :
          x1 = u * (n - i + shift) /\ x2 = u * (n + shift) /\ y1 = w * (n - i) /\ y2 = w * n /\ y3 = u * n
    OBVIOUS
  <2>6. /\ x1 + u <= x2 /\ x2 <= size /\ y1 + w <= y2 /\ y2 <= y3 /\ y3 <= x2
        /\ x1 \in Nat /\ x2 \in Nat /\ y1 \in Nat /\ y2 \in Nat /\ y3 \in Nat
    BY <2>2, <2>3, <2>4, <2>5
  <2>7. x1 + u <= size /\ y1 + w <= size
    BY SMTT(30), <2>4, <2>6
  <2> QED BY <2>1, <2>5, <2>7
<1>2. ASSUME NEW i \in 1 .. n, NEW c \in D
      PROVE  /\ Step(c, i) \in D
             /\ In!GetEncoded(c, n - i, w) \in Int
             /\ Holds(Step(c, i), u, n - i + shift, In!GetEncoded(c, n - i, w))
             /\ \A j \in 0 .. size - 1 : j < u * (n - i + shift) \/ j >= u * (n - i + shift) + u => Step(c, i)[j] = c[j]
  <2>1. In!GetEncoded(c, n - i, w) \in Int
    BY SMTT(30), <1>1, GetInt
  <2>2. PICK x, pos, d : x = In!GetEncoded(c, n - i, w) /\ pos = n - i + shift /\ d = In!Set(c, pos, u, x)
    OBVIOUS
  <2>3. x \in Int /\ pos \in Nat /\ u * pos + u <= size /\ c \in Memory(size) /\ d = Step(c, i)
    BY <1>1, <2>1, <2>2
  <2>4. /\ d \in Memory(size) /\ Holds(d, u, pos, x)
        /\ \A j \in 0 .. size - 1 : j < u * pos \/ j >= u * pos + u => d[j] = c[j]
    BY SMTT(30), <2>2, <2>3, SetOk
  <2> QED BY <2>1, <2>2, <2>3, <2>4
<1> HIDE DEF Step
<1>3. g \in [(1 .. n) \X D -> D] /\ \A i \in 1 .. n, c \in D : g[<<i, c>>] = Step(c, i)
  BY <1>2
<1> HIDE DEF g
<1>4. PICK f \in [0 .. n -> D] : f[0] = cells /\ \A i \in 1 .. n : f[i] = g[<<i, f[i - 1]>>]
  <2> HIDE DEF D
  <2>1. g \in Loops(n, D)
    BY <1>3 DEF Loops
  <2>2. cells \in D
    BY DEF D
  <2>3. \E f : IsRun(f, n, D, cells, g)
    BY <2>1, <2>2, Iterates
  <2> QED BY <2>3 DEF IsRun
<1> HIDE DEF D
<1>5. ASSUME NEW i \in 1 .. n
      PROVE  i - 1 \in 0 .. n /\ f[i - 1] \in D /\ f[i] = Step(f[i - 1], i)
  <2>1. i - 1 \in 0 .. n
    BY SMTT(30)
  <2>2. f[i - 1] \in D
    BY <2>1
  <2> QED BY <1>3, <1>4, <2>1, <2>2
<1>6. F(f)
  <2> DEFINE G == [i \in 0 .. n |-> IF i = 0 THEN cells ELSE Step(f[i - 1], i)]
  <2>1. ASSUME NEW i \in 0 .. n PROVE f[i] = G[i]
    <3>1. CASE i = 0
      BY <1>4, <3>1
    <3>2. CASE i # 0
      <4>1. i \in 1 .. n
        BY SMTT(30), <3>2
      <4> QED BY <3>2, <4>1, <1>5
    <3> QED BY <3>1, <3>2
  <2> QED BY <2>1
<1>7. F(k)
  <2> HIDE DEF F
  <2> QED BY <1>6
<1>8. In!Widen(cells, n, w, u, shift) = k[n]
  BY DEF In!Widen, Step
<1> HIDE DEF k
<1>9. k[0] = cells /\ \A i \in 1 .. n : k[i] = Step(k[i - 1], i)
  <2>1. 0 \in 0 .. n /\ \A i \in 1 .. n : i \in 0 .. n /\ i # 0
    BY SMTT(30)
  <2> QED BY <1>7, <2>1, Zenon
<1> HIDE DEF F
<1> DEFINE Done(i, c) ==
             /\ c \in D
             /\ \A p \in 0 .. n - 1 : p < n - i => Holds(c, w, p, a[p])
             /\ \A p \in 0 .. n - 1 : p >= n - i => Holds(c, u, p + shift, a[p])
           S == {i \in Nat : i <= n => Done(i, k[i])}
<1>10. 0 \in S
  <2>1. \A p \in 0 .. n - 1 : ~(p >= n - 0)
    BY SMTT(30)
  <2>2. Done(0, cells)
    BY <2>1 DEF D
  <2> QED BY <1>9, <2>2
<1>11. ASSUME NEW i \in Nat, i \in S, i + 1 <= n PROVE Done(i + 1, k[i + 1])
  <2>1. i + 1 \in 1 .. n /\ (i + 1) - 1 = i /\ i <= n
    BY SMTT(30), <1>11
  <2>2. PICK c : c = k[i]
    OBVIOUS
  <2>3. PICK d : d = k[i + 1]
    OBVIOUS
  <2>4. PICK q : q = n - (i + 1)
    OBVIOUS
  <2>5. q \in 0 .. n - 1 /\ q \in Nat /\ q < n - i /\ q + shift \in Nat
    BY SMTT(30), <2>1, <2>4
  <2>6. Done(i, c) /\ d = Step(c, i + 1)
    BY <1>9, <1>11, <2>1, <2>2, <2>3
  <2>7. In!GetEncoded(c, q, w) = a[q]
    BY <2>5, <2>6, GetHeld
  <2>8. /\ d \in D /\ Holds(d, u, q + shift, a[q])
        /\ \A j \in 0 .. size - 1 : j < u * (q + shift) \/ j >= u * (q + shift) + u => d[j] = c[j]
    BY <1>2, <2>1, <2>4, <2>6, <2>7
  <2>9. ASSUME NEW p \in 0 .. n - 1, p < q PROVE Holds(d, w, p, a[p])
    <3>1. p \in Nat /\ Holds(c, w, p, a[p])
      BY SMTT(30), <2>5, <2>6, <2>9
    <3>2. w * p + w <= w * q /\ w * q <= u * q /\ u * q <= u * (q + shift)
      <4>1. w * p + w <= w * q
        BY <2>5, <2>9, <3>1, Apart
      <4>2. w * q <= u * q
        BY <2>5, Wider
      <4>3. q <= q + shift
        BY SMTT(30), <2>5
      <4>4. u * q <= u * (q + shift)
        BY <2>5, <4>3, Apart
      <4> QED BY <4>1, <4>2, <4>4
    <3>3. w * p \in Nat /\ w * q \in Nat /\ u * q \in Nat /\ u * (q + shift) \in Nat /\ w \in Nat /\ u \in Nat
      BY SMTT(30), <2>5, <3>1, Apart DEF In!Widths
    <3>4. u * (q + shift) + u <= size
      BY <1>1, <2>1, <2>4
    <3>5. ASSUME NEW m \in 0 .. w - 1 PROVE d[w * p + m] = c[w * p + m]
      <4>1. PICK x, y1, y2, y3 : x = w * p /\ y1 = w * q /\ y2 = u * q /\ y3 = u * (q + shift)
        OBVIOUS
      <4>2. /\ x \in Nat /\ y1 \in Nat /\ y2 \in Nat /\ y3 \in Nat
            /\ x + w <= y1 /\ y1 <= y2 /\ y2 <= y3 /\ y3 + u <= size
        BY <3>2, <3>3, <3>4, <4>1
      <4>3. x + m \in 0 .. size - 1 /\ x + m < y3
        BY SMTT(30), <3>3, <4>2
      <4>4. w * p + m \in 0 .. size - 1 /\ w * p + m < u * (q + shift)
        BY <4>1, <4>3
      <4> QED BY <2>8, <4>4
    <3> QED BY <3>1, <3>5, Copied
  <2>10. ASSUME NEW p \in 0 .. n - 1, p > q PROVE Holds(d, u, p + shift, a[p])
    <3>1. p + shift \in Nat /\ q + shift < p + shift /\ p + shift < n + shift /\ n + shift \in Nat
      BY SMTT(30), <2>5, <2>10
    <3>2. Holds(c, u, p + shift, a[p])
      <4>1. p >= n - i
        BY SMTT(30), <2>4, <2>10
      <4> QED BY <2>6, <4>1
    <3>3. u * (q + shift) + u <= u * (p + shift) /\ u * (p + shift) + u <= u * (n + shift)
      BY <2>5, <3>1, Apart
    <3>4. u * (q + shift) \in Nat /\ u * (p + shift) \in Nat /\ u * (n + shift) \in Nat /\ u \in Nat
      BY SMTT(30), <2>5, <3>1, Apart DEF In!Widths
    <3>5. ASSUME NEW m \in 0 .. u - 1 PROVE d[u * (p + shift) + m] = c[u * (p + shift) + m]
      <4>1. PICK x, y, z : x = u * (p + shift) /\ y = u * (q + shift) /\ z = u * (n + shift)
        OBVIOUS
      <4>2. x \in Nat /\ y \in Nat /\ z \in Nat /\ y + u <= x /\ x + u <= z /\ z <= size
        BY <3>3, <3>4, <4>1
      <4>3. x + m \in 0 .. size - 1 /\ x + m >= y + u
        BY SMTT(30), <3>4, <4>2
      <4>4. u * (p + shift) + m \in 0 .. size - 1 /\ u * (p + shift) + m >= u * (q + shift) + u
        BY <4>1, <4>3
      <4> QED BY <2>8, <4>4
    <3> QED BY <3>1, <3>2, <3>5, Copied
  <2>11. \A p \in 0 .. n - 1 : (p < n - (i + 1) <=> p < q) /\ (p >= n - (i + 1) => p = q \/ p > q)
    BY SMTT(30), <2>4, <2>5
  <2> QED BY <2>3, <2>8, <2>9, <2>10, <2>11
<1>12. \A i \in Nat : i \in S => i + 1 \in S
  BY SMTT(30), <1>11
<1> HIDE DEF S
<1>13. n \in S
  BY <1>10, <1>12, Induction
<1>14. Done(n, k[n])
  BY SMTT(30), <1>13 DEF S
<1>15. \A p \in 0 .. n - 1 : p >= n - n
  BY SMTT(30)
<1> QED BY <1>8, <1>14, <1>15 DEF D

-----------------------------------------------------------------------------
(* The operations *)

Members(a, n) == {a[p] : p \in 0 .. n - 1}

Ascending(a, n) == \A p, q \in 0 .. n - 1 : p < q => a[p] < a[q]

Inserted(a, n, pos, v) ==
  [p \in 0 .. n |-> IF p < pos THEN a[p] ELSE IF p = pos THEN v ELSE a[p - 1]]

(* The place where a value belongs. *)
Belongs(a, n, pos, v) ==
  \A p \in 0 .. n - 1 : (p < pos => a[p] < v) /\ (p >= pos => a[p] > v)

Deleted(a, n, pos) == [p \in 0 .. n - 2 |-> IF p < pos THEN a[p] ELSE a[p + 1]]

(* An array a of n values of T with room for v at pos; *)
HasRoom(a, n, T, pos, v) ==
  /\ n \in Nat /\ T \subseteq Int /\ a \in [0 .. n - 1 -> T] /\ Ascending(a, n) /\ v \in T
  /\ pos \in 0 .. n /\ Belongs(a, n, pos, v)

(* and with v there. *)
Grown(a, n, T, pos, v, b) ==
  /\ b \in [0 .. n -> T] /\ Ascending(b, n + 1) /\ Members(b, n + 1) = Members(a, n) \cup {v}
  /\ v \notin Members(a, n)
  /\ b[pos] = v
  /\ \A p \in 0 .. n - 1 : (p < pos => b[p] = a[p]) /\ (p >= pos => b[p + 1] = a[p])

(* A value inserted where it belongs. *)
LEMMA InsertedOk ==
  ASSUME NEW a, NEW n, NEW T, NEW pos, NEW v, HasRoom(a, n, T, pos, v), NEW b, b = Inserted(a, n, pos, v)
  PROVE  Grown(a, n, T, pos, v, b)
<1>0. /\ n \in Nat /\ T \subseteq Int /\ a \in [0 .. n - 1 -> T] /\ Ascending(a, n) /\ v \in T
      /\ pos \in 0 .. n /\ Belongs(a, n, pos, v) /\ b = Inserted(a, n, pos, v)
  BY DEF HasRoom
<1> USE <1>0
<1> USE DEF Belongs
<1>1. \A p \in 0 .. n : b[p] = IF p < pos THEN a[p] ELSE IF p = pos THEN v ELSE a[p - 1]
  BY DEF Inserted
<1>2. ASSUME NEW p \in 0 .. n
      PROVE  /\ p < pos => p \in 0 .. n - 1 /\ b[p] = a[p]
             /\ p = pos => b[p] = v
             /\ p > pos => p - 1 \in 0 .. n - 1 /\ p - 1 >= pos /\ b[p] = a[p - 1]
  BY SMTT(30), <1>1
<1>3. b \in [0 .. n -> T]
  <2>1. \A p \in 0 .. n : b[p] \in T
    BY SMTT(30), <1>2
  <2>2. b = [p \in 0 .. n |-> b[p]]
    BY DEF Inserted
  <2> QED BY <2>1, <2>2
<1>4. \A p \in 0 .. n : b[p] \in Int
  BY <1>3
<1>5. ASSUME NEW p \in 0 .. n, NEW q \in 0 .. n, p < q PROVE b[p] < b[q]
  <2>1. CASE q < pos
    BY SMTT(30), <1>2, <1>5, <2>1 DEF Ascending
  <2>2. CASE q = pos
    BY <1>2, <1>5, <2>2
  <2>3. CASE q > pos
    <3>1. CASE p < pos
      <4>1. a[p] < v /\ a[q - 1] > v /\ b[p] = a[p] /\ b[q] = a[q - 1]
        BY <1>2, <2>3, <3>1
      <4> QED BY SMTT(30), <1>4, <4>1
    <3>2. CASE p = pos
      <4>1. a[q - 1] > v /\ b[p] = v /\ b[q] = a[q - 1]
        BY <1>2, <2>3, <3>2
      <4> QED BY <1>4, <4>1
    <3>3. CASE p > pos
      <4>1. p - 1 \in 0 .. n - 1 /\ q - 1 \in 0 .. n - 1 /\ p - 1 < q - 1 /\ b[p] = a[p - 1]
            /\ b[q] = a[q - 1]
        BY SMTT(30), <1>2, <1>5, <2>3, <3>3
      <4> QED BY <4>1 DEF Ascending
    <3> QED BY SMTT(30), <3>1, <3>2, <3>3
  <2> QED BY SMTT(30), <2>1, <2>2, <2>3
<1>6. (n + 1) - 1 = n
  BY SMTT(30)
<1>7. Ascending(b, n + 1)
  BY <1>5, <1>6 DEF Ascending
<1>8. b[pos] = v /\ \A p \in 0 .. n - 1 : (p < pos => b[p] = a[p]) /\ (p >= pos => b[p + 1] = a[p])
  <2>1. ASSUME NEW p \in 0 .. n - 1, p >= pos PROVE b[p + 1] = a[p]
    <3>1. p + 1 \in 0 .. n /\ p + 1 > pos /\ (p + 1) - 1 = p
      BY SMTT(30), <2>1
    <3> QED BY <1>2, <3>1
  <2>2. \A p \in 0 .. n - 1 : p \in 0 .. n
    BY SMTT(30)
  <2> QED BY <1>2, <2>1, <2>2
<1>9. Members(b, n + 1) = Members(a, n) \cup {v}
  <2>1. ASSUME NEW p \in 0 .. n PROVE b[p] \in Members(a, n) \cup {v}
    BY SMTT(30), <1>2 DEF Members
  <2>2. ASSUME NEW p \in 0 .. n - 1 PROVE \E q \in 0 .. n : a[p] = b[q]
    <3>1. p \in 0 .. n /\ p + 1 \in 0 .. n
      BY SMTT(30)
    <3> QED BY SMTT(30), <1>8, <3>1
  <2>3. Members(b, n + 1) = {b[p] : p \in 0 .. n}
    BY <1>6 DEF Members
  <2>4. v \in Members(b, n + 1)
    BY <1>8, <2>3
  <2>5. Members(b, n + 1) \subseteq Members(a, n) \cup {v}
    BY <2>1, <2>3
  <2>6. Members(a, n) \subseteq Members(b, n + 1)
    BY <2>2, <2>3 DEF Members
  <2> QED BY <2>4, <2>5, <2>6
<1>10. v \notin Members(a, n)
  <2>1. ASSUME NEW p \in 0 .. n - 1 PROVE a[p] # v
    <3>1. a[p] \in Int /\ v \in Int
      OBVIOUS
    <3>2. p < pos \/ p >= pos
      BY SMTT(30)
    <3> QED BY SMTT(30), <3>1, <3>2
  <2> QED BY <2>1 DEF Members
<1> QED BY <1>3, <1>7, <1>8, <1>9, <1>10 DEF Grown

(* An array a of n values of T without the one at pos. *)
Shrunk(a, n, T, pos, b) ==
  /\ b \in [0 .. n - 2 -> T] /\ Ascending(b, n - 1) /\ Members(b, n - 1) = Members(a, n) \ {a[pos]}
  /\ \A p \in 0 .. n - 2 : (p < pos => b[p] = a[p]) /\ (p >= pos => b[p] = a[p + 1])

(* A value deleted. *)
LEMMA DeletedOk ==
  ASSUME NEW n \in Nat, NEW T, T \subseteq Int, NEW a \in [0 .. n - 1 -> T], Ascending(a, n),
         NEW pos \in 0 .. n - 1, NEW b, b = Deleted(a, n, pos)
  PROVE  Shrunk(a, n, T, pos, b)
<1>1. ASSUME NEW p \in 0 .. n - 2
      PROVE  /\ p \in 0 .. n - 1 /\ p + 1 \in 0 .. n - 1
             /\ p < pos => b[p] = a[p]
             /\ p >= pos => b[p] = a[p + 1]
  BY SMTT(30) DEF Deleted
<1>2. b \in [0 .. n - 2 -> T]
  <2>1. \A p \in 0 .. n - 2 : b[p] \in T
    BY SMTT(30), <1>1
  <2>2. b = [p \in 0 .. n - 2 |-> b[p]]
    BY DEF Deleted
  <2> QED BY <2>1, <2>2
<1>3. ASSUME NEW p \in 0 .. n - 1, NEW q \in 0 .. n - 1 PROVE a[p] \in Int /\ (p < q => a[p] < a[q])
  BY DEF Ascending
<1>4. ASSUME NEW p \in 0 .. n - 2, NEW q \in 0 .. n - 2, p < q PROVE b[p] < b[q]
  <2>1. PICK i, j : i = (IF p < pos THEN p ELSE p + 1) /\ j = (IF q < pos THEN q ELSE q + 1)
    OBVIOUS
  <2>2. i \in 0 .. n - 1 /\ j \in 0 .. n - 1 /\ i < j
    BY SMTT(30), <1>4, <2>1
  <2>3. b[p] = a[i] /\ b[q] = a[j]
    BY SMTT(30), <1>1, <2>1
  <2> QED BY <1>3, <2>2, <2>3
<1>5. (n - 1) - 1 = n - 2
  BY SMTT(30)
<1>6. Ascending(b, n - 1)
  BY <1>4, <1>5 DEF Ascending
<1>7. Members(b, n - 1) = Members(a, n) \ {a[pos]}
  <2>1. ASSUME NEW p \in 0 .. n - 2 PROVE b[p] \in Members(a, n) /\ b[p] # a[pos]
    <3>1. PICK i : i = (IF p < pos THEN p ELSE p + 1)
      OBVIOUS
    <3>2. i \in 0 .. n - 1 /\ (i < pos \/ i > pos) /\ b[p] = a[i]
      BY SMTT(30), <1>1, <3>1
    <3>3. a[i] # a[pos]
      BY SMTT(30), <1>3, <3>2
    <3> QED BY <3>2, <3>3 DEF Members
  <2>2. ASSUME NEW p \in 0 .. n - 1, a[p] # a[pos] PROVE \E q \in 0 .. n - 2 : a[p] = b[q]
    <3>1. PICK q : q = (IF p < pos THEN p ELSE p - 1)
      OBVIOUS
    <3>2. p # pos
      BY <2>2
    <3>3. q \in 0 .. n - 2 /\ (p < pos => q < pos /\ q = p) /\ (p > pos => q >= pos /\ q + 1 = p)
      BY SMTT(30), <3>1, <3>2
    <3>4. a[p] = b[q]
      BY SMTT(30), <1>1, <3>2, <3>3
    <3> QED BY <3>3, <3>4
  <2>3. Members(b, n - 1) = {b[p] : p \in 0 .. n - 2}
    BY <1>5 DEF Members
  <2> QED BY SMTT(30), <2>1, <2>2, <2>3 DEF Members
<1> QED BY <1>1, <1>2, <1>6, <1>7 DEF Shrunk

(* The width of a value. *)
LEMMA EncodingOk ==
  ASSUME NEW v \in In!Fits(4)
  PROVE  /\ In!ValueEncoding(v) \in In!Widths /\ v \in In!Fits(In!ValueEncoding(v)) /\ v \in Int
         /\ \A w \in In!Widths : (w < In!ValueEncoding(v) <=> v \notin In!Fits(w))
<1>1. PICK T : T = {w \in In!Widths : v \in In!Fits(w)}
  OBVIOUS
<1>2. T \subseteq Nat /\ 4 \in T
  BY SMTT(30), <1>1 DEF In!Widths
<1>3. PICK x \in T : \A m \in T : x <= m
  BY <1>2, Least
<1>4. In!Min(T) \in T /\ \A m \in T : In!Min(T) <= m
  BY <1>3 DEF In!Min
<1>5. PICK e : e = In!ValueEncoding(v)
  OBVIOUS
<1>6. e \in In!Widths /\ v \in In!Fits(e) /\ \A w \in In!Widths : v \in In!Fits(w) => e <= w
  BY <1>1, <1>4, <1>5 DEF In!ValueEncoding
<1>7. v \in Int
  BY <1>6, FitsOk DEF In!Widths
<1>8. ASSUME NEW w \in In!Widths, e <= w PROVE v \in In!Fits(w)
  BY <1>6, <1>8, FitsOk
<1>9. \A w \in In!Widths : (w < e <=> v \notin In!Fits(w))
  BY SMTT(30), <1>6, <1>8 DEF In!Widths
<1> QED BY <1>5, <1>6, <1>7, <1>9

IsRecord(s) == s = [encoding |-> s.encoding, length |-> s.length, contents |-> s.contents]

(* Two fields assigned. *)
Assigned(s, d, m) == [s EXCEPT !.contents = d, !.length = m]

(* The others are kept. *)
LEMMA TwoFields ==
  ASSUME NEW s, NEW w, NEW n, NEW g, NEW d, NEW m, s = [encoding |-> w, length |-> n, contents |-> g]
  PROVE  Assigned(s, d, m) = [encoding |-> w, length |-> m, contents |-> d]
<1>1. [s EXCEPT !.contents = d] = [encoding |-> w, length |-> n, contents |-> d]
  BY SMTT(30)
<1>2. Assigned(s, d, m) = [[s EXCEPT !.contents = d] EXCEPT !.length = m]
  BY Zenon DEF Assigned
<1>3. [[encoding |-> w, length |-> n, contents |-> d] EXCEPT !.length = m] =
        [encoding |-> w, length |-> m, contents |-> d]
  BY SMTT(30)
<1> QED BY <1>1, <1>2, <1>3, Zenon

(* Memory resized: what fits in it is kept. *)
LEMMA ResizeOk ==
  ASSUME NEW size \in Nat, NEW s, IsRecord(s), s.encoding \in In!Widths, s.contents \in Memory(size),
         NEW len \in Nat
  PROVE  \E c \in Memory(len * s.encoding) :
           /\ In!Resize(s, len) = [encoding |-> s.encoding, length |-> s.length, contents |-> c]
           /\ \A i \in 0 .. size - 1 : i < len * s.encoding => c[i] = s.contents[i]
<1>1. PICK m : m = s.contents
  OBVIOUS
<1>2. PICK c : c = [i \in 0 .. len * s.encoding - 1 |-> IF i \in DOMAIN m THEN m[i] ELSE In!Garbage]
  OBVIOUS
<1>3. In!Resize(s, len) = [encoding |-> s.encoding, length |-> s.length, contents |-> c]
  <2>1. In!Resize(s, len) = [s EXCEPT !.contents = c]
    BY <1>1, <1>2, Zenon DEF In!Resize
  <2>2. [s EXCEPT !.contents = c] = [encoding |-> s.encoding, length |-> s.length, contents |-> c]
    BY SMTT(30) DEF IsRecord
  <2> QED BY <2>1, <2>2
<1>4. m \in [0 .. size - 1 -> Cell] /\ DOMAIN m = 0 .. size - 1
  BY <1>1 DEF Memory
<1>5. In!Garbage \in Cell
  BY SMTT(30) DEF In!Garbage, Cell
<1>6. c \in Memory(len * s.encoding)
  BY <1>2, <1>4, <1>5 DEF Memory
<1>7. len * s.encoding \in Nat
  BY SMTT(30) DEF In!Widths
<1>8. \A i \in 0 .. size - 1 : i < len * s.encoding => c[i] = s.contents[i]
  BY SMTT(30), <1>1, <1>2, <1>4, <1>7
<1> QED BY <1>3, <1>6, <1>8

Moved(cells, w, n, from, to) ==
  [i \in DOMAIN cells |-> IF i \in to * w .. to * w + (n - from) * w - 1
                          THEN cells[i + (from - to) * w] ELSE cells[i]]

(* A tail moved: the values of the tail, and those in front of it. *)
LEMMA MovedOk ==
  ASSUME NEW size \in Nat, NEW cells \in Memory(size), NEW w \in In!Widths, NEW n \in Nat,
         NEW from \in 0 .. n, NEW to \in Nat, n * w <= size, (n - from + to) * w <= size,
         NEW new, new = Moved(cells, w, n, from, to)
  PROVE  /\ new \in Memory(size)
         /\ \A p \in from .. n - 1 : \A x : Holds(cells, w, p, x) => Holds(new, w, p - from + to, x)
         /\ \A p \in Nat : \A x : p < to /\ p < n /\ Holds(cells, w, p, x) => Holds(new, w, p, x)
<1>1. cells \in [0 .. size - 1 -> Cell] /\ DOMAIN cells = 0 .. size - 1
  BY DEF Memory
<1>2. to * w \in Nat /\ (n - from) * w \in Nat /\ from * w \in Nat /\ (from - to) * w = from * w - to * w
      /\ n * w \in Nat /\ (n - from) * w = n * w - from * w /\ (n - from + to) * w = n * w - from * w + to * w
  BY SMTT(30) DEF In!Widths
<1>3. PICK f, t, m : f = from * w /\ t = to * w /\ m = n * w
  OBVIOUS
<1>4. f \in Nat /\ t \in Nat /\ m \in Nat /\ f <= m /\ m <= size /\ m - f + t <= size
  BY SMTT(30), <1>2, <1>3
<1>5. ASSUME NEW i \in 0 .. size - 1
      PROVE  /\ i >= t /\ i < t + (m - f) => i + (f - t) \in 0 .. size - 1 /\ new[i] = cells[i + (f - t)]
             /\ i < t \/ i >= t + (m - f) => new[i] = cells[i]
  <2>1. new[i] = IF i \in t .. t + (m - f) - 1 THEN cells[i + (f - t)] ELSE cells[i]
    BY <1>1, <1>2, <1>3 DEF Moved
  <2> QED BY SMTT(30), <1>4, <2>1
<1>6. new \in Memory(size)
  <2>1. ASSUME NEW i \in 0 .. size - 1 PROVE new[i] \in Cell
    <3>1. (i >= t /\ i < t + (m - f)) \/ (i < t \/ i >= t + (m - f))
      BY SMTT(30), <1>4
    <3> QED BY <1>1, <1>5, <3>1
  <2>2. new = [i \in 0 .. size - 1 |-> new[i]]
    BY <1>1 DEF Moved
  <2> QED BY <2>1, <2>2 DEF Memory
<1>7. ASSUME NEW p \in from .. n - 1, NEW x, Holds(cells, w, p, x) PROVE Holds(new, w, p - from + to, x)
  <2>1. p \in Nat /\ p - from + to \in Nat
    BY SMTT(30)
  <2>2. PICK q : q = p - from + to
    OBVIOUS
  <2>3. q \in Nat /\ w * q = w * p - f + t /\ w * p \in Nat /\ w * p >= f /\ w * p + w <= m
    BY SMTT(30), <1>3, <2>1, <2>2 DEF In!Widths
  <2>4. ASSUME NEW k \in 0 .. w - 1 PROVE new[w * q + k] = cells[w * p + k]
    <3>1. PICK i : i = w * q + k
      OBVIOUS
    <3>2. w \in Nat
      BY SMTT(30) DEF In!Widths
    <3>3. i \in 0 .. size - 1 /\ i >= t /\ i < t + (m - f) /\ i + (f - t) = w * p + k
      BY SMTT(30), <1>4, <2>3, <3>1, <3>2
    <3> QED BY <1>5, <3>1, <3>3
  <2> QED BY <1>7, <2>1, <2>2, <2>3, <2>4, Copied
<1>8. ASSUME NEW p \in Nat, NEW x, p < to, p < n, Holds(cells, w, p, x) PROVE Holds(new, w, p, x)
  <2>1. w * p \in Nat /\ w * p + w <= t /\ w * p + w <= m
    BY SMTT(30), <1>3, <1>8 DEF In!Widths
  <2>2. ASSUME NEW k \in 0 .. w - 1 PROVE new[w * p + k] = cells[w * p + k]
    <3>1. PICK i : i = w * p + k
      OBVIOUS
    <3>2. w \in Nat
      BY SMTT(30) DEF In!Widths
    <3>3. i \in 0 .. size - 1 /\ i < t
      BY SMTT(30), <1>4, <2>1, <3>1, <3>2
    <3> QED BY <1>5, <3>1, <3>3
  <2> QED BY <1>8, <2>2, Copied
<1> QED BY <1>6, <1>7, <1>8

(* memmove moves a tail. *)
LEMMA MoveTailOk ==
  ASSUME NEW s, IsRecord(s), NEW from, NEW to
  PROVE  In!MoveTail(s, from, to) =
           [encoding |-> s.encoding, length |-> s.length,
            contents |-> Moved(s.contents, s.encoding, s.length, from, to)]
BY SMTT(30) DEF In!MoveTail, Moved, IsRecord

(* A value that is written leaves the others. *)
LEMMA SetKeeps ==
  ASSUME NEW size \in Nat, NEW cells \in Memory(size), NEW w \in In!Widths, NEW pos \in Nat,
         w * pos + w <= size, NEW v \in Int, NEW q \in Nat, NEW x, Holds(cells, w, q, x), q # pos,
         w * q + w <= size
  PROVE  Holds(In!Set(cells, pos, w, v), w, q, x)
<1>1. PICK new : new = In!Set(cells, pos, w, v)
  OBVIOUS
<1>2. \A i \in 0 .. size - 1 : i < w * pos \/ i >= w * pos + w => new[i] = cells[i]
  BY SMTT(30), <1>1, SetOk
<1>3. q < pos \/ pos < q
  BY SMTT(30)
<1>4. w * q + w <= w * pos \/ w * pos + w <= w * q
  BY <1>3, Apart
<1>5. w * q \in Nat /\ w * pos \in Nat /\ w \in Nat
  BY SMTT(30), Apart DEF In!Widths
<1>6. ASSUME NEW k \in 0 .. w - 1 PROVE new[w * q + k] = cells[w * q + k]
  BY SMTT(30), <1>2, <1>4, <1>5
<1> QED BY <1>1, <1>6, Copied

(* An array put together. *)
LEMMA MakeArray ==
  ASSUME NEW w \in In!Widths, NEW n \in Nat, NEW c \in Memory(n * w), NEW b \in [0 .. n - 1 -> In!Fits(w)],
         Ascending(b, n), \A p \in 0 .. n - 1 : Holds(c, w, p, b[p]),
         NEW s, s = [encoding |-> w, length |-> n, contents |-> c]
  PROVE  IsArray(s, b) /\ s.length = n
<1>1. s.encoding = w /\ s.length = n /\ s.contents = c
  OBVIOUS
<1> QED BY <1>1 DEF IsArray, Ascending

(* What there is to say of an intset and its integers. *)
LEMMA TakeArray ==
  ASSUME NEW s, NEW a, IsArray(s, a)
  PROVE  /\ IsRecord(s) /\ s.encoding \in In!Widths /\ s.length \in Nat
            /\ s.contents \in Memory(s.length * s.encoding)
         /\ a \in [0 .. s.length - 1 -> In!Fits(s.encoding)] /\ Ascending(a, s.length)
         /\ \A p \in 0 .. s.length - 1 : Holds(s.contents, s.encoding, p, a[p])
BY DEF IsArray, IsRecord, Ascending

(* A value written where there is room for it. *)
LEMMA PlaceOk ==
  ASSUME NEW w \in In!Widths, NEW n \in Nat, NEW T, T = In!Fits(w), NEW a, NEW pos, NEW v,
         HasRoom(a, n, T, pos, v),
         NEW g \in Memory((n + 1) * w),
         \A p \in 0 .. n - 1 : p < pos => Holds(g, w, p, a[p]),
         \A p \in 0 .. n - 1 : p >= pos => Holds(g, w, p + 1, a[p]),
         NEW d, d = In!Set(g, pos, w, v), NEW t, t = [encoding |-> w, length |-> n + 1, contents |-> d]
  PROVE  /\ \E b : IsArray(t, b) /\ t.length = n + 1 /\ Members(b, n + 1) = Members(a, n) \cup {v}
         /\ v \notin Members(a, n)
<1>1. pos \in 0 .. n /\ v \in Int
  BY DEF HasRoom
<1>2. (n + 1) * w \in Nat /\ (n + 1) * w = w * n + w /\ w \in Nat /\ w * n \in Nat
  BY SMTT(30) DEF In!Widths
<1>3. w * pos + w <= (n + 1) * w /\ pos \in Nat
  BY SMTT(30), <1>1, <1>2, Apart
<1>4. d \in Memory((n + 1) * w) /\ Holds(d, w, pos, v)
  BY <1>1, <1>2, <1>3, SetOk
<1>5. ASSUME NEW q \in 0 .. n, NEW x, q # pos, Holds(g, w, q, x) PROVE Holds(d, w, q, x)
  <2>1. q \in Nat /\ w * q + w <= (n + 1) * w
    BY SMTT(30), <1>2, Apart
  <2> QED BY <1>1, <1>2, <1>3, <1>5, <2>1, SetKeeps
<1>6. PICK b : b = Inserted(a, n, pos, v)
  OBVIOUS
<1>7. Grown(a, n, T, pos, v, b)
  BY <1>6, InsertedOk, Zenon
<1>8. /\ b \in [0 .. n -> T] /\ Ascending(b, n + 1) /\ Members(b, n + 1) = Members(a, n) \cup {v}
      /\ v \notin Members(a, n) /\ b[pos] = v
      /\ \A p \in 0 .. n - 1 : (p < pos => b[p] = a[p]) /\ (p >= pos => b[p + 1] = a[p])
  BY <1>7 DEF Grown
<1>9. ASSUME NEW q \in 0 .. n PROVE Holds(d, w, q, b[q])
  <2>1. CASE q = pos
    BY <1>4, <1>8, <2>1
  <2>2. CASE q < pos
    <3>1. q \in 0 .. n - 1 /\ q # pos
      BY SMTT(30), <1>1, <2>2
    <3> QED BY <1>5, <1>8, <2>2, <3>1
  <2>3. CASE q > pos
    <3>1. PICK p : p = q - 1
      OBVIOUS
    <3>2. p \in 0 .. n - 1 /\ p >= pos /\ p + 1 = q /\ q # pos
      BY SMTT(30), <1>1, <2>3, <3>1
    <3> QED BY <1>5, <1>8, <3>2
  <2> QED BY SMTT(30), <1>1, <2>1, <2>2, <2>3
<1>10. n + 1 \in Nat /\ (n + 1) - 1 = n
  BY SMTT(30)
<1>11. IsArray(t, b) /\ t.length = n + 1
  BY <1>4, <1>8, <1>9, <1>10, MakeArray
<1> QED BY <1>8, <1>11

(* A value that fits, and is not there, is inserted where the search says. *)
LEMMA InsertOk ==
  ASSUME NEW s, NEW a, IsArray(s, a), NEW v \in In!Fits(4), In!ValueEncoding(v) <= s.encoding,
         ~In!Search(s, v).found
  PROVE  /\ \E b : /\ IsArray(In!Added(s, v), b) /\ In!Added(s, v).length = s.length + 1
                   /\ Members(b, s.length + 1) = Members(a, s.length) \cup {v}
         /\ v \notin Members(a, s.length)
<1>1. PICK n, w, r : n = s.length /\ w = s.encoding /\ r = In!Search(s, v)
  OBVIOUS
<1>2. /\ IsRecord(s) /\ w \in In!Widths /\ n \in Nat /\ s.contents \in Memory(n * w)
      /\ a \in [0 .. n - 1 -> In!Fits(w)] /\ Ascending(a, n)
         /\ \A p \in 0 .. n - 1 : Holds(s.contents, w, p, a[p])
  BY <1>1, TakeArray
<1>3. v \in Int /\ In!ValueEncoding(v) \in In!Widths /\ (w < In!ValueEncoding(v) <=> v \notin In!Fits(w))
  BY <1>2, EncodingOk
<1>4. v \in In!Fits(w) /\ ~(In!ValueEncoding(v) > w)
  BY SMTT(30), <1>1, <1>2, <1>3 DEF In!Widths
<1>5. Located(a, n, v, r)
  BY <1>1, <1>3, SearchOk
<1>6. PICK pos : pos = r.pos
  OBVIOUS
<1>7. pos \in 0 .. n /\ Belongs(a, n, pos, v)
  BY <1>1, <1>5, <1>6 DEF Located, Belongs
<1>8. n * w \in Nat /\ (n + 1) * w \in Nat /\ n * w <= (n + 1) * w /\ n * w = w * n
      /\ (n + 1) * w = w * n + w /\ w \in Nat
  BY SMTT(30), <1>2 DEF In!Widths
<1>9. PICK c \in Memory((n + 1) * w) :
        /\ In!Resize(s, n + 1) = [encoding |-> w, length |-> n, contents |-> c]
        /\ \A i \in 0 .. n * w - 1 : i < (n + 1) * w => c[i] = s.contents[i]
  <2>1. n + 1 \in Nat
    BY SMTT(30), <1>2
  <2>2. PICK size : size = n * w
    OBVIOUS
  <2>3. size \in Nat /\ s.contents \in Memory(size) /\ s.encoding \in In!Widths
    BY <1>1, <1>2, <1>8, <2>2
  <2>4. \E c \in Memory((n + 1) * s.encoding) :
          /\ In!Resize(s, n + 1) = [encoding |-> s.encoding, length |-> s.length, contents |-> c]
          /\ \A i \in 0 .. size - 1 : i < (n + 1) * s.encoding => c[i] = s.contents[i]
    BY <1>2, <2>1, <2>3, ResizeOk
  <2> QED BY <1>1, <2>2, <2>4, Zenon
<1>10. ASSUME NEW p \in 0 .. n - 1 PROVE Holds(c, w, p, a[p])
  <2>1. p \in Nat /\ w * p \in Nat /\ w * p + w <= n * w
    BY SMTT(30), <1>2, <1>8, Apart
  <2>2. ASSUME NEW k \in 0 .. w - 1 PROVE c[w * p + k] = s.contents[w * p + k]
    <3>1. w * p + k \in 0 .. n * w - 1 /\ w * p + k < (n + 1) * w
      BY SMTT(30), <1>8, <2>1
    <3> QED BY <1>9, <3>1
  <2> QED BY <1>2, <2>1, <2>2, Copied
<1>11. PICK big : big = In!Resize(s, n + 1)
  OBVIOUS
<1>12. IsRecord(big) /\ big.encoding = w /\ big.length = n /\ big.contents = c
  BY SMTT(30), <1>9, <1>11 DEF IsRecord
<1>13. PICK gap : gap = IF pos < n THEN In!MoveTail(big, pos, pos + 1) ELSE big
  OBVIOUS
<1>14. PICK g \in Memory((n + 1) * w) :
         /\ gap = [encoding |-> w, length |-> n, contents |-> g]
         /\ \A p \in 0 .. n - 1 : p < pos => Holds(g, w, p, a[p])
         /\ \A p \in 0 .. n - 1 : p >= pos => Holds(g, w, p + 1, a[p])
  <2>1. CASE pos < n
    <3>1. PICK g : g = Moved(c, w, n, pos, pos + 1)
      OBVIOUS
    <3>2. gap = [encoding |-> w, length |-> n, contents |-> g]
      BY <1>12, <1>13, <2>1, <3>1, MoveTailOk
    <3>3. pos + 1 \in Nat /\ n - pos + (pos + 1) = n + 1 /\ pos \in 0 .. n
      BY SMTT(30), <1>2, <1>7
    <3>4. /\ g \in Memory((n + 1) * w)
          /\ \A p \in pos .. n - 1 : \A x : Holds(c, w, p, x) => Holds(g, w, p - pos + (pos + 1), x)
          /\ \A p \in Nat : \A x : p < pos + 1 /\ p < n /\ Holds(c, w, p, x) => Holds(g, w, p, x)
      <4>1. PICK size, to : size = (n + 1) * w /\ to = pos + 1
        OBVIOUS
      <4>2. size \in Nat /\ to \in Nat /\ n * w <= size /\ (n - pos + to) * w <= size /\ c \in Memory(size)
        BY SMTT(30), <1>8, <1>9, <3>3, <4>1
      <4>3. g = Moved(c, w, n, pos, to)
        BY <3>1, <4>1
      <4>4. /\ g \in Memory(size)
            /\ \A p \in pos .. n - 1 : \A x : Holds(c, w, p, x) => Holds(g, w, p - pos + to, x)
            /\ \A p \in Nat : \A x : p < to /\ p < n /\ Holds(c, w, p, x) => Holds(g, w, p, x)
        BY SMTT(30), <1>2, <3>3, <4>2, <4>3, MovedOk
      <4> QED BY <4>1, <4>4, Zenon
    <3>5. ASSUME NEW p \in 0 .. n - 1, p < pos PROVE Holds(g, w, p, a[p])
      <4>1. p \in Nat /\ p < pos + 1 /\ p < n
        BY SMTT(30), <1>2, <1>7, <3>5
      <4> QED BY <1>10, <3>4, <4>1
    <3>6. ASSUME NEW p \in 0 .. n - 1, p >= pos PROVE Holds(g, w, p + 1, a[p])
      <4>1. p \in pos .. n - 1 /\ p - pos + (pos + 1) = p + 1
        BY SMTT(30), <1>2, <1>7, <3>6
      <4> QED BY <1>10, <3>4, <4>1
    <3> QED BY <3>2, <3>4, <3>5, <3>6
  <2>2. CASE ~(pos < n)
    <3>1. gap = [encoding |-> w, length |-> n, contents |-> c]
      BY <1>9, <1>11, <1>13, <2>2
    <3>2. ASSUME NEW p \in 0 .. n - 1 PROVE ~(p >= pos)
      BY SMTT(30), <1>2, <1>7, <2>2
    <3> QED BY <1>10, <3>1, <3>2
  <2> QED BY <2>1, <2>2
<1>15. PICK d : d = In!Set(g, pos, w, v)
  OBVIOUS
<1>16. In!Added(s, v) = [encoding |-> w, length |-> n + 1, contents |-> d]
  <2>1. In!Added(s, v) = [gap EXCEPT !.contents = In!Set(@, pos, w, v), !.length = @ + 1]
    BY <1>1, <1>4, <1>6, <1>11, <1>13, Zenon DEF In!Added
  <2>2. gap.contents = g /\ gap.length = n
    BY <1>14
  <2>3. PICK m, t : m = n + 1 /\ t = In!Added(s, v)
    OBVIOUS
  <2>4. t = Assigned(gap, d, m)
    BY <1>15, <2>1, <2>2, <2>3, Zenon DEF Assigned
  <2>5. gap = [encoding |-> w, length |-> n, contents |-> g]
    BY <1>14
  <2>6. t = [encoding |-> w, length |-> m, contents |-> d]
    BY SMTT(30), <2>4, <2>5, TwoFields
  <2> QED BY <2>3, <2>6
<1>17. PICK T : T = In!Fits(w)
  OBVIOUS
<1>18. T \subseteq Int
  BY SMTT(30), <1>2, <1>17, FitsOk DEF In!Widths
<1>19. HasRoom(a, n, T, pos, v)
  BY <1>2, <1>4, <1>7, <1>17, <1>18, Zenon DEF HasRoom
<1>20. PICK t : t = In!Added(s, v)
  OBVIOUS
<1>21. /\ \E b : IsArray(t, b) /\ t.length = n + 1 /\ Members(b, n + 1) = Members(a, n) \cup {v}
       /\ v \notin Members(a, n)
  BY SMTT(30), <1>2, <1>14, <1>15, <1>16, <1>17, <1>19, <1>20, PlaceOk
<1> QED BY <1>1, <1>20, <1>21

(* A value that does not fit: it belongs at one of the ends, and the values *)
(* that are widened in place make room for it there.                       *)
LEMMA UpgradeOk ==
  ASSUME NEW s, NEW a, IsArray(s, a), NEW v \in In!Fits(4), In!ValueEncoding(v) > s.encoding
  PROVE  /\ \E b : /\ IsArray(In!Added(s, v), b) /\ In!Added(s, v).length = s.length + 1
                   /\ Members(b, s.length + 1) = Members(a, s.length) \cup {v}
         /\ v \notin Members(a, s.length)
<1>1. PICK n, w, u : n = s.length /\ w = s.encoding /\ u = In!ValueEncoding(v)
  OBVIOUS
<1>2. /\ IsRecord(s) /\ w \in In!Widths /\ n \in Nat /\ s.contents \in Memory(n * w)
      /\ a \in [0 .. n - 1 -> In!Fits(w)] /\ Ascending(a, n)
         /\ \A p \in 0 .. n - 1 : Holds(s.contents, w, p, a[p])
  BY <1>1, TakeArray
<1>3. v \in Int /\ u \in In!Widths /\ v \in In!Fits(u) /\ (w < u <=> v \notin In!Fits(w))
  BY <1>1, <1>2, EncodingOk
<1>4. w < u /\ v \notin In!Fits(w)
  BY <1>1, <1>2, <1>3 DEF In!Widths
<1>5. PICK pos, shift : pos = (IF v < 0 THEN 0 ELSE n) /\ shift = (IF v < 0 THEN 1 ELSE 0)
  OBVIOUS
<1>6. shift \in {0, 1} /\ pos \in 0 .. n /\ (shift = 1 => pos = 0) /\ (shift = 0 => pos = n)
  BY SMTT(30), <1>2, <1>5
<1>7. In!Fits(w) \subseteq Int /\ In!Fits(w) \subseteq In!Fits(u) /\ IntsetHalf[w] \in Nat
      /\ IntsetHalf[u] \in Nat /\ In!Fits(u) \subseteq Int
  BY SMTT(30), <1>2, <1>3, <1>4, FitsOk DEF In!Widths
<1>8. Belongs(a, n, pos, v)
  <2>1. PICK h : h = IntsetHalf[w]
    OBVIOUS
  <2>2. h \in Nat /\ ~(v >= -h /\ v <= h - 1)
    BY SMTT(30), <1>3, <1>4, <1>7, <2>1 DEF In!Fits
  <2>3. ASSUME NEW p \in 0 .. n - 1 PROVE a[p] \in Int /\ a[p] >= -h /\ a[p] <= h - 1
    BY SMTT(30), <1>2, <1>7, <2>1 DEF In!Fits
  <2>4. ASSUME NEW p \in 0 .. n - 1 PROVE (p < pos => a[p] < v) /\ (p >= pos => a[p] > v)
    <3>1. a[p] \in Int /\ a[p] >= -h /\ a[p] <= h - 1
      BY <2>3
    <3>2. CASE v < 0
      <4>1. a[p] > v /\ pos = 0
        BY SMTT(30), <1>3, <1>5, <2>2, <3>1, <3>2
      <4> QED BY SMTT(30), <4>1
    <3>3. CASE ~(v < 0)
      <4>1. a[p] < v /\ pos = n
        BY SMTT(30), <1>3, <1>5, <2>2, <3>1, <3>3
      <4> QED BY SMTT(30), <1>2, <4>1
    <3> QED BY <3>2, <3>3
  <2> QED BY <2>4 DEF Belongs
<1>9. PICK e : e = [s EXCEPT !.encoding = u]
  OBVIOUS
<1>10. IsRecord(e) /\ e.encoding = u /\ e.length = n /\ e.contents = s.contents
  BY <1>1, <1>2, <1>9 DEF IsRecord
<1>11. /\ n * w \in Nat /\ (n + 1) * u \in Nat /\ n * w <= (n + 1) * u /\ w \in Nat /\ u \in Nat
       /\ u * (n + shift) <= (n + 1) * u /\ n + 1 \in Nat
  <2>1. n * u \in Nat /\ (n + 1) * u = n * u + u /\ u * (n + 1) = n * u + u /\ u * (n + 0) = n * u
        /\ n * w \in Nat
        /\ w \in Nat /\ u \in Nat /\ n * w <= n * u /\ n + 1 \in Nat
    BY SMTT(30), <1>2, <1>3, <1>4 DEF In!Widths
  <2> QED BY SMTT(30), <1>6, <2>1
<1>12. PICK size : size = (n + 1) * u
  OBVIOUS
<1>13. PICK c \in Memory(size) :
         /\ In!Resize(e, n + 1) = [encoding |-> u, length |-> n, contents |-> c]
         /\ \A i \in 0 .. n * w - 1 : i < size => c[i] = s.contents[i]
  <2>1. PICK old : old = n * w
    OBVIOUS
  <2>2. old \in Nat /\ e.contents \in Memory(old) /\ e.encoding \in In!Widths /\ n + 1 \in Nat
    BY <1>2, <1>3, <1>10, <1>11, <2>1
  <2>3. \E c \in Memory((n + 1) * e.encoding) :
          /\ In!Resize(e, n + 1) = [encoding |-> e.encoding, length |-> e.length, contents |-> c]
          /\ \A i \in 0 .. old - 1 : i < (n + 1) * e.encoding => c[i] = e.contents[i]
    BY <1>10, <2>2, ResizeOk
  <2>4. PICK c \in Memory((n + 1) * e.encoding) :
          /\ In!Resize(e, n + 1) = [encoding |-> e.encoding, length |-> e.length, contents |-> c]
          /\ \A i \in 0 .. old - 1 : i < (n + 1) * e.encoding => c[i] = e.contents[i]
    BY <2>3
  <2>5. c \in Memory(size)
    BY SMTT(30), <1>10, <1>12, <2>4
  <2>6. In!Resize(e, n + 1) = [encoding |-> u, length |-> n, contents |-> c]
    BY SMTT(30), <1>10, <2>4
  <2>7. \A i \in 0 .. n * w - 1 : i < size => c[i] = s.contents[i]
    BY SMTT(30), <1>10, <1>12, <2>1, <2>4
  <2> QED BY SMTT(30), <2>5, <2>6, <2>7
<1>14. ASSUME NEW p \in 0 .. n - 1 PROVE Holds(c, w, p, a[p])
  <2>1. p \in Nat /\ w * p \in Nat /\ w * p + w <= n * w
    <3>1. p \in Nat /\ p < n
      BY SMTT(30), <1>2
    <3> QED BY <1>2, <3>1, Apart
  <2>2. ASSUME NEW k \in 0 .. w - 1 PROVE c[w * p + k] = s.contents[w * p + k]
    <3>1. w * p + k \in 0 .. n * w - 1 /\ w * p + k < size
      BY SMTT(30), <1>11, <1>12, <2>1
    <3> QED BY <1>13, <3>1
  <2> QED BY <1>2, <2>1, <2>2, Copied
<1>15. PICK g : g = In!Widen(c, n, w, u, shift)
  OBVIOUS
<1>16. g \in Memory(size) /\ \A p \in 0 .. n - 1 : Holds(g, u, p + shift, a[p])
  <2>1. a \in [0 .. n - 1 -> Int] /\ w <= u /\ size \in Nat /\ u * (n + shift) <= size
    BY SMTT(30), <1>2, <1>3, <1>4, <1>7, <1>11, <1>12
  <2> QED BY <1>2, <1>3, <1>6, <1>13, <1>14, <1>15, <2>1, WidenOk
<1>17. /\ \A p \in 0 .. n - 1 : p < pos => Holds(g, u, p, a[p])
       /\ \A p \in 0 .. n - 1 : p >= pos => Holds(g, u, p + 1, a[p])
  <2>1. ASSUME NEW p \in 0 .. n - 1 PROVE (p < pos => p + shift = p) /\ (p >= pos => p + shift = p + 1)
    BY SMTT(30), <1>2, <1>6
  <2> QED BY <1>16, <2>1
<1>18. PICK d, big, t, m : d = In!Set(g, pos, u, v) /\ big = In!Resize(e, n + 1) /\ t = In!Added(s, v)
       /\ m = n + 1
  OBVIOUS
<1>19. t = [encoding |-> u, length |-> m, contents |-> d]
  <2>1. big = [encoding |-> u, length |-> n, contents |-> c]
    BY <1>13, <1>18
  <2>2. big.contents = c /\ big.length = n
    BY <2>1
  <2>3. t = In!UpgradeAndAdd(s, v)
    BY <1>1, <1>18, Zenon DEF In!Added
  <2>4. In!UpgradeAndAdd(s, v) =
          [big EXCEPT !.contents = In!Set(In!Widen(big.contents, n, w, u, shift), pos, u, v), !.length = @ + 1]
    BY <1>1, <1>5, <1>9, <1>18, Zenon DEF In!UpgradeAndAdd
  <2>5. t = Assigned(big, d, m)
    BY <1>15, <1>18, <2>2, <2>3, <2>4, Zenon DEF Assigned
  <2> QED BY SMTT(30), <2>1, <2>5, TwoFields
<1>20. PICK T : T = In!Fits(u)
  OBVIOUS
<1>21. HasRoom(a, n, T, pos, v)
  <2>1. a \in [0 .. n - 1 -> T] /\ T \subseteq Int /\ v \in T
    BY <1>2, <1>3, <1>7, <1>20
  <2> QED BY <1>2, <1>6, <1>8, <2>1, Zenon DEF HasRoom
<1>22. /\ \E b : IsArray(t, b) /\ t.length = n + 1 /\ Members(b, n + 1) = Members(a, n) \cup {v}
       /\ v \notin Members(a, n)
  <2>1. g \in Memory((n + 1) * u) /\ t = [encoding |-> u, length |-> n + 1, contents |-> d]
        /\ d = In!Set(g, pos, u, v)
    BY <1>12, <1>16, <1>18, <1>19, Zenon
  <2> QED BY SMTT(30), <1>2, <1>3, <1>17, <1>20, <1>21, <2>1, PlaceOk
<1> QED BY <1>1, <1>18, <1>22

(* A value that is found is the member that is removed: the tail behind it *)
(* closes the gap before the memory shrinks.                               *)
LEMMA RemoveOk ==
  ASSUME NEW s, NEW a, IsArray(s, a), NEW v \in Int, In!Find(s, v)
  PROVE  /\ \E b : /\ IsArray(In!Removed(s, v), b) /\ In!Removed(s, v).length = s.length - 1
                   /\ Members(b, s.length - 1) = Members(a, s.length) \ {v}
         /\ v \in Members(a, s.length)
<1>1. PICK n, w, r : n = s.length /\ w = s.encoding /\ r = In!Search(s, v)
  OBVIOUS
<1>2. /\ IsRecord(s) /\ w \in In!Widths /\ n \in Nat /\ s.contents \in Memory(n * w)
      /\ a \in [0 .. n - 1 -> In!Fits(w)] /\ Ascending(a, n)
         /\ \A p \in 0 .. n - 1 : Holds(s.contents, w, p, a[p])
  BY <1>1, TakeArray
<1>3. Located(a, n, v, r) /\ r.found
  BY <1>1, SearchOk DEF In!Find
<1>4. PICK pos : pos = r.pos
  OBVIOUS
<1>5. pos \in 0 .. n - 1 /\ a[pos] = v
  BY <1>3, <1>4 DEF Located
<1>6. /\ n - 1 \in Nat /\ n * w \in Nat /\ (n - 1) * w \in Nat /\ (n - 1) * w <= n * w /\ w \in Nat
      /\ (n - 1) * w = w * (n - 1)
  BY SMTT(30), <1>2, <1>5 DEF In!Widths
<1>7. PICK closed : closed = IF pos < n - 1 THEN In!MoveTail(s, pos + 1, pos) ELSE s
  OBVIOUS
<1>8. PICK g \in Memory(n * w) :
        /\ closed = [encoding |-> w, length |-> n, contents |-> g]
        /\ \A p \in 0 .. n - 2 : p < pos => Holds(g, w, p, a[p])
        /\ \A p \in 0 .. n - 2 : p >= pos => Holds(g, w, p, a[p + 1])
  <2>1. CASE pos < n - 1
    <3>1. PICK g, from, size : g = Moved(s.contents, w, n, from, pos) /\ from = pos + 1 /\ size = n * w
      OBVIOUS
    <3>2. closed = [encoding |-> w, length |-> n, contents |-> g]
      BY <1>1, <1>2, <1>7, <2>1, <3>1, MoveTailOk
    <3>3. from \in 0 .. n /\ pos \in Nat /\ n - from + pos = n - 1
      BY SMTT(30), <1>2, <1>5, <3>1
    <3>4. size \in Nat /\ n * w <= size /\ (n - from + pos) * w <= size /\ s.contents \in Memory(size)
      BY SMTT(30), <1>2, <1>6, <3>1, <3>3
    <3>5. PICK c : c = s.contents
      OBVIOUS
    <3>6. c \in Memory(size) /\ g = Moved(c, w, n, from, pos)
      BY <3>1, <3>4, <3>5
    <3>7. /\ g \in Memory(size)
          /\ \A p \in from .. n - 1 : \A x : Holds(c, w, p, x) => Holds(g, w, p - from + pos, x)
          /\ \A p \in Nat : \A x : p < pos /\ p < n /\ Holds(c, w, p, x) => Holds(g, w, p, x)
      BY SMTT(30), <1>2, <3>3, <3>4, <3>6, MovedOk
    <3>8. ASSUME NEW p \in 0 .. n - 2, p < pos PROVE Holds(g, w, p, a[p])
      <4>1. p \in Nat /\ p < n /\ p \in 0 .. n - 1
        BY SMTT(30), <1>2
      <4> QED BY <1>2, <3>5, <3>7, <3>8, <4>1
    <3>9. ASSUME NEW p \in 0 .. n - 2, p >= pos PROVE Holds(g, w, p, a[p + 1])
      <4>1. PICK q : q = p + 1
        OBVIOUS
      <4>2. q \in from .. n - 1 /\ q \in 0 .. n - 1 /\ q - from + pos = p
        BY SMTT(30), <1>2, <1>5, <3>1, <3>9, <4>1
      <4> QED BY <1>2, <3>5, <3>7, <4>1, <4>2
    <3> QED BY <3>1, <3>2, <3>7, <3>8, <3>9
  <2>2. CASE ~(pos < n - 1)
    <3>1. closed = [encoding |-> w, length |-> n, contents |-> s.contents]
      BY <1>1, <1>2, <1>7, <2>2 DEF IsRecord
    <3>2. ASSUME NEW p \in 0 .. n - 2 PROVE ~(p >= pos) /\ p \in 0 .. n - 1
      BY SMTT(30), <1>2, <1>5, <2>2
    <3> QED BY <1>2, <3>1, <3>2
  <2> QED BY <2>1, <2>2
<1>9. IsRecord(closed) /\ closed.encoding = w /\ closed.length = n /\ closed.contents = g
  <2>1. closed = [encoding |-> w, length |-> n, contents |-> g]
    BY <1>8
  <2> QED BY <2>1 DEF IsRecord
<1>10. PICK m : m = n - 1
  OBVIOUS
<1>11. PICK d \in Memory(m * w) :
         /\ In!Resize(closed, m) = [encoding |-> w, length |-> n, contents |-> d]
         /\ \A i \in 0 .. n * w - 1 : i < m * w => d[i] = g[i]
  <2>1. PICK old : old = n * w
    OBVIOUS
  <2>2. old \in Nat /\ closed.contents \in Memory(old) /\ closed.encoding \in In!Widths /\ m \in Nat
    BY <1>2, <1>6, <1>8, <1>9, <1>10, <2>1
  <2>3. \E c \in Memory(m * closed.encoding) :
          /\ In!Resize(closed, m) = [encoding |-> closed.encoding, length |-> closed.length, contents |-> c]
          /\ \A i \in 0 .. old - 1 : i < m * closed.encoding => c[i] = closed.contents[i]
    BY <1>9, <2>2, ResizeOk
  <2> QED BY <1>9, <2>1, <2>3, Zenon
<1>12. ASSUME NEW p \in 0 .. m - 1, NEW x, Holds(g, w, p, x) PROVE Holds(d, w, p, x)
  <2>1. p \in Nat /\ w * p \in Nat /\ w * p + w <= m * w
    <3>1. p \in Nat /\ p < m /\ m \in Nat
      BY SMTT(30), <1>6, <1>10
    <3> QED BY <1>2, <3>1, Apart
  <2>2. ASSUME NEW k \in 0 .. w - 1 PROVE d[w * p + k] = g[w * p + k]
    <3>1. w * p + k \in 0 .. n * w - 1 /\ w * p + k < m * w
      BY SMTT(30), <1>6, <1>10, <2>1
    <3> QED BY <1>11, <3>1
  <2> QED BY <1>2, <1>12, <2>1, <2>2, Copied
<1>13. PICK t, less : t = In!Removed(s, v) /\ less = In!Resize(closed, m)
  OBVIOUS
<1>14. t = [encoding |-> w, length |-> m, contents |-> d]
  <2>1. less = [encoding |-> w, length |-> n, contents |-> d]
    BY <1>11, <1>13
  <2>2. less.length = n
    BY <2>1
  <2>3. t = [less EXCEPT !.length = @ - 1]
    BY <1>1, <1>4, <1>7, <1>10, <1>13, Zenon DEF In!Removed
  <2>4. t = [less EXCEPT !.length = m]
    BY <1>10, <2>2, <2>3, Zenon
  <2> QED BY <2>1, <2>4
<1>15. PICK b, T : b = Deleted(a, n, pos) /\ T = In!Fits(w)
  OBVIOUS
<1>16. T \subseteq Int /\ a \in [0 .. n - 1 -> T]
  BY SMTT(30), <1>2, <1>15, FitsOk DEF In!Widths
<1>17. Shrunk(a, n, T, pos, b)
  BY <1>2, <1>5, <1>15, <1>16, DeletedOk
<1>18. /\ b \in [0 .. n - 2 -> T] /\ Ascending(b, m) /\ Members(b, m) = Members(a, n) \ {v}
       /\ \A p \in 0 .. n - 2 : (p < pos => b[p] = a[p]) /\ (p >= pos => b[p] = a[p + 1])
  BY <1>5, <1>10, <1>17 DEF Shrunk
<1>19. m \in Nat /\ m - 1 = n - 2
  BY SMTT(30), <1>2, <1>6, <1>10
<1>20. ASSUME NEW p \in 0 .. m - 1 PROVE Holds(d, w, p, b[p])
  <2>1. p \in 0 .. n - 2 /\ (p < pos \/ p >= pos)
    BY SMTT(30), <1>5, <1>19
  <2>2. Holds(g, w, p, b[p])
    BY <1>8, <1>18, <2>1
  <2> QED BY <1>12, <2>2
<1>21. IsArray(t, b) /\ t.length = m
  BY <1>2, <1>11, <1>14, <1>15, <1>18, <1>19, <1>20, MakeArray
<1>22. v \in Members(a, n)
  BY <1>5 DEF Members
<1> QED BY <1>1, <1>10, <1>13, <1>18, <1>21, <1>22

(* The search finds the members. *)
LEMMA FindOk ==
  ASSUME NEW s, NEW a, IsArray(s, a), NEW v \in In!Fits(4)
  PROVE  /\ In!Find(s, v) <=> v \in Members(a, s.length)
         /\ v \in Members(a, s.length) => In!ValueEncoding(v) <= s.encoding
<1>1. PICK n, w, r : n = s.length /\ w = s.encoding /\ r = In!Search(s, v)
  OBVIOUS
<1>2. w \in In!Widths /\ n \in Nat /\ a \in [0 .. n - 1 -> In!Fits(w)]
  BY <1>1, TakeArray
<1>3. v \in Int /\ In!ValueEncoding(v) \in In!Widths /\ (w < In!ValueEncoding(v) <=> v \notin In!Fits(w))
  BY <1>2, EncodingOk
<1>4. Located(a, n, v, r)
  BY <1>1, <1>3, SearchOk
<1>5. ASSUME v \in Members(a, n) PROVE In!ValueEncoding(v) <= w /\ r.found
  <2>1. PICK p \in 0 .. n - 1 : v = a[p]
    BY <1>5 DEF Members
  <2>2. v \in In!Fits(w)
    BY <1>2, <2>1
  <2>3. In!ValueEncoding(v) <= w
    BY SMTT(30), <1>2, <1>3, <2>2 DEF In!Widths
  <2>4. ASSUME ~r.found PROVE FALSE
    <3>1. r.pos \in 0 .. n /\ (p < r.pos => a[p] < v) /\ (p >= r.pos => a[p] > v)
      BY <1>4, <2>4 DEF Located
    <3>2. p < r.pos \/ p >= r.pos
      BY SMTT(30), <3>1
    <3> QED BY SMTT(30), <1>3, <2>1, <3>1, <3>2
  <2> QED BY <2>3, <2>4
<1>6. r.found => v \in Members(a, n)
  BY <1>4 DEF Located, Members
<1> QED BY <1>1, <1>5, <1>6 DEF In!Find

-----------------------------------------------------------------------------
(* The invariant *)

(* The array has exactly the members, in order and each in cells of its    *)
(* own; members is what the calls left.                                    *)
IntsetInv ==
  /\ \E a : IsArray(iIs, a) /\ iMembers = Members(a, iIs.length)
  /\ IsFiniteSet(iMembers) /\ iIs.length = Cardinality(iMembers)

(* An addition. *)
LEMMA AddKeeps ==
  ASSUME IntsetInv, NEW v \in IntsetValues, In!Add(v)
  PROVE  IntsetInv'
<1>1. PICK a : IsArray(iIs, a) /\ iMembers = Members(a, iIs.length)
  BY DEF IntsetInv
<1>2. PICK s, n, t : s = iIs /\ n = iIs.length /\ t = In!Added(s, v)
  OBVIOUS
<1>3. iIs' = t /\ iMembers' = iMembers \cup {v} /\ v \in In!Fits(4)
  BY <1>2, IntsetAssumption DEF In!Add
<1>4. IsArray(s, a) /\ iMembers = Members(a, n) /\ n = s.length /\ n \in Nat /\ s.encoding \in In!Widths
  BY <1>1, <1>2, TakeArray
<1>5. IsFiniteSet(iMembers) /\ n = Cardinality(iMembers)
  BY <1>2 DEF IntsetInv
<1>6. ASSUME \E b : IsArray(t, b) /\ t.length = n + 1 /\ Members(b, n + 1) = Members(a, n) \cup {v},
             v \notin Members(a, n)
      PROVE  IntsetInv'
  <2>1. PICK b : IsArray(t, b) /\ t.length = n + 1 /\ Members(b, n + 1) = Members(a, n) \cup {v}
    BY <1>6
  <2>2. iIs'.length = n + 1 /\ IsArray(iIs', b) /\ iMembers' = Members(b, iIs'.length)
    BY <1>3, <1>4, <2>1
  <2>3. IsFiniteSet(iMembers') /\ Cardinality(iMembers') = n + 1
    BY SMTT(30), <1>3, <1>4, <1>5, <1>6, FS_AddElement
  <2> QED BY <2>2, <2>3 DEF IntsetInv
<1>7. CASE In!ValueEncoding(v) > s.encoding
  BY SMTT(30), <1>2, <1>3, <1>4, <1>6, <1>7, UpgradeOk
<1>8. CASE ~(In!ValueEncoding(v) > s.encoding) /\ ~In!Search(s, v).found
  <2>1. In!ValueEncoding(v) <= s.encoding
    BY SMTT(30), <1>3, <1>4, <1>8, EncodingOk DEF In!Widths
  <2> QED BY SMTT(30), <1>2, <1>3, <1>4, <1>6, <1>8, <2>1, InsertOk
<1>9. CASE ~(In!ValueEncoding(v) > s.encoding) /\ In!Search(s, v).found
  <2>1. In!ValueEncoding(v) <= s.encoding
    BY SMTT(30), <1>3, <1>4, <1>9, EncodingOk DEF In!Widths
  <2>2. v \in iMembers
    BY <1>3, <1>4, <1>9, <2>1, FindOk DEF In!Find
  <2>3. t = s
    BY <1>2, <1>9, Zenon DEF In!Added
  <2>4. iIs' = iIs /\ iMembers' = iMembers
    BY <1>2, <1>3, <2>2, <2>3
  <2> QED BY <2>4 DEF IntsetInv
<1> QED BY <1>7, <1>8, <1>9

(* A removal. *)
LEMMA RemoveKeeps ==
  ASSUME IntsetInv, NEW v \in IntsetValues, In!Remove(v)
  PROVE  IntsetInv'
<1>1. PICK a : IsArray(iIs, a) /\ iMembers = Members(a, iIs.length)
  BY DEF IntsetInv
<1>2. PICK s, n, t : s = iIs /\ n = iIs.length /\ t = In!Removed(s, v)
  OBVIOUS
<1>3. iIs' = t /\ iMembers' = iMembers \ {v} /\ v \in In!Fits(4)
  BY <1>2, IntsetAssumption DEF In!Remove
<1>4. IsArray(s, a) /\ iMembers = Members(a, n) /\ n = s.length /\ n \in Nat
  BY <1>1, <1>2, TakeArray
<1>5. IsFiniteSet(iMembers) /\ n = Cardinality(iMembers)
  BY <1>2 DEF IntsetInv
<1>6. In!Find(s, v) <=> v \in iMembers
  BY <1>3, <1>4, FindOk
<1>7. CASE In!Find(s, v)
  <2>1. v \in Int
    BY <1>3, EncodingOk
  <2>2. PICK b : IsArray(t, b) /\ t.length = n - 1 /\ Members(b, n - 1) = Members(a, n) \ {v}
    <3>1. \E b : /\ IsArray(In!Removed(s, v), b) /\ In!Removed(s, v).length = s.length - 1
                 /\ Members(b, s.length - 1) = Members(a, s.length) \ {v}
      BY <1>4, <1>7, <2>1, RemoveOk
    <3> QED BY <1>2, <1>4, <3>1, Zenon
  <2>3. iIs'.length = n - 1 /\ IsArray(iIs', b) /\ iMembers' = Members(b, iIs'.length)
    BY <1>3, <1>4, <2>2
  <2>4. IsFiniteSet(iMembers') /\ Cardinality(iMembers') = n - 1
    BY <1>3, <1>5, <1>6, <1>7, FS_RemoveElement
  <2> QED BY <2>3, <2>4 DEF IntsetInv
<1>8. CASE ~In!Find(s, v)
  <2>1. t = s
    BY <1>2, <1>8, Zenon DEF In!Removed
  <2>2. iIs' = iIs /\ iMembers' = iMembers
    BY <1>2, <1>3, <1>6, <1>8, <2>1
  <2> QED BY <2>2 DEF IntsetInv
<1> QED BY <1>7, <1>8

(* The cardinality that Intset takes from FiniteSets is this module's. *)
LEMMA SameCardinality ==
  ASSUME NEW T
  PROVE  In!Cardinality(T) = Cardinality(T)
BY DEF In!Cardinality, Cardinality

(* The invariant is what the reader of the set sees. *)
LEMMA IntsetSeen == IntsetInv => HoldsMembers
<1> SUFFICES ASSUME IntsetInv PROVE HoldsMembers
  OBVIOUS
<1>1. PICK a : IsArray(iIs, a) /\ iMembers = Members(a, iIs.length)
  BY DEF IntsetInv
<1>2. \A p \in 0 .. iIs.length - 1 : In!Get(iIs, p) = a[p]
  BY <1>1, GetOk
<1>3. {In!Get(iIs, pos) : pos \in 0 .. iIs.length - 1} = iMembers
  BY <1>1, <1>2 DEF Members
<1>4. \A p, q \in 0 .. iIs.length - 1 : p < q => In!Get(iIs, p) < In!Get(iIs, q)
  <2>1. Ascending(a, iIs.length)
    BY <1>1, TakeArray
  <2> QED BY <1>2, <2>1 DEF Ascending
<1>5. \A v \in IntsetValues : In!Find(iIs, v) <=> v \in iMembers
  BY <1>1, FindOk, IntsetAssumption
<1> QED BY <1>3, <1>4, <1>5, SameCardinality DEF IntsetInv, HoldsMembers, In!HoldsMembers

(* An integer set of any integers and of any widths of them (intsetAdd,    *)
(* intsetRemove, intsetFind): whatever is added and removed, the array     *)
(* holds exactly the members, in order, and the binary search finds        *)
(* exactly them.                                                           *)
THEOREM IntsetExact == In!Spec => []HoldsMembers
<1>1. In!Init => IntsetInv
  <2> SUFFICES ASSUME In!Init PROVE IntsetInv
    OBVIOUS
  <2>1. PICK c : c = [i \in 0 .. -1 |-> In!Garbage]
    OBVIOUS
  <2>2. iIs = [encoding |-> 1, length |-> 0, contents |-> c] /\ iMembers = {}
    BY <2>1 DEF In!Init
  <2>3. In!Garbage \in Cell
    BY SMTT(30) DEF In!Garbage, Cell
  <2>4. PICK w, n, b : w = 1 /\ n = 0 /\ b = [p \in 0 .. -1 |-> 0]
    OBVIOUS
  <2>5. w \in In!Widths /\ n \in Nat /\ n * w = 0 /\ 0 .. n - 1 = {} /\ 0 .. -1 = {} /\ 0 .. 0 - 1 = {}
    BY SMTT(30), <2>4 DEF In!Widths
  <2>6. c \in Memory(n * w) /\ b \in [0 .. n - 1 -> In!Fits(w)]
    BY <2>1, <2>4, <2>5 DEF Memory
  <2>7. IsArray(iIs, b) /\ iIs.length = 0
    <3>1. Ascending(b, n) /\ \A p \in 0 .. n - 1 : Holds(c, w, p, b[p])
      BY <2>5 DEF Ascending
    <3>2. iIs = [encoding |-> w, length |-> n, contents |-> c]
      BY <2>2, <2>4
    <3>3. IsArray(iIs, b) /\ iIs.length = n
      BY SMTT(30), <2>5, <2>6, <3>1, <3>2, MakeArray
    <3> QED BY <2>4, <3>3
  <2>8. Members(b, 0) = {}
    BY SMTT(30) DEF Members
  <2>9. IsFiniteSet({}) /\ Cardinality({}) = 0
    BY FS_EmptySet
  <2> QED BY <2>2, <2>7, <2>8, <2>9 DEF IntsetInv
<1>2. IntsetInv /\ [In!Next]_In!vars => IntsetInv'
  <2> SUFFICES ASSUME IntsetInv, [In!Next]_In!vars PROVE IntsetInv'
    OBVIOUS
  <2>1. CASE In!Next
    BY <2>1, AddKeeps, RemoveKeeps DEF In!Next
  <2>2. CASE UNCHANGED In!vars
    BY <2>2 DEF In!vars, IntsetInv
  <2> QED BY <2>1, <2>2
<1> QED BY <1>1, <1>2, IntsetSeen, PTL DEF In!Spec

=============================================================================
