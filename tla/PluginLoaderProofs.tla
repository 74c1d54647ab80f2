------------------------- MODULE PluginLoaderProofs --------------------------
(***************************************************************************)
(* Proofs about PluginLoader for any number of clients, keys and threads,  *)
(* however late the threads wake up: the lease count is exact, and so a    *)
(* leased class loader is never destroyed.  The timer version is not       *)
(* needed for that; it is what lets a class loader linger.                 *)
(***************************************************************************)
EXTENDS PluginLoader, FiniteSetTheorems, TLAPS

IInv == TypeOK /\ LeasedIsLoaded /\ CountIsExact

LEMMA HoldersFinite ==
  \A k : IsFiniteSet(Holders(k)) /\ Cardinality(Holders(k)) \in Nat
<1> TAKE k
<1>1. Holders(k) \subseteq Client
  BY DEF Holders
<1> QED BY <1>1, FS_Subset, FS_CardinalityType, PluginLoaderConstants

\* The bookkeeping of get() counts one lease more, that of release() one less.
LEMMA HoldersGet ==
  ASSUME TypeOK, NEW c \in Client, NEW k \in Key, lease[c] = NoLease,
         NEW l \in ClassLoader, lease' = [lease EXCEPT ![c] = [key |-> k, loader |-> l]]
  PROVE  /\ Cardinality(Holders(k))' = Cardinality(Holders(k)) + 1
         /\ \A j \in Key \ {k} : Holders(j)' = Holders(j)
<1>1. /\ \A d \in Client : d # c => lease'[d] = lease[d]
      /\ lease'[c].key = k /\ lease[c].key = None /\ k # None
  BY PluginLoaderConstants DEF TypeOK, NoLease
<1>2. \A j \in Key, d \in Client :
        lease'[d].key = j <=> (lease[d].key = j \/ (d = c /\ j = k))
  BY <1>1, PluginLoaderConstants
<1>3. Holders(k)' = Holders(k) \cup {c}
  BY <1>2 DEF Holders
<1>4. \A j \in Key \ {k} : Holders(j)' = Holders(j)
  BY <1>2 DEF Holders
<1>5. c \notin Holders(k)
  BY <1>1 DEF Holders
<1>6. Cardinality(Holders(k) \cup {c}) = Cardinality(Holders(k)) + 1
  BY <1>5, HoldersFinite, FS_AddElement
<1>7. Cardinality(Holders(k))' = Cardinality(Holders(k) \cup {c})
  BY <1>3
<1> QED BY <1>4, <1>6, <1>7

LEMMA HoldersRelease ==
  ASSUME TypeOK, NEW c \in Client, NEW k \in Key, lease[c].key = k,
         lease' = [lease EXCEPT ![c] = NoLease]
  PROVE  /\ Cardinality(Holders(k))' = Cardinality(Holders(k)) - 1
         /\ \A j \in Key \ {k} : Holders(j)' = Holders(j)
<1>1. /\ \A d \in Client : d # c => lease'[d] = lease[d]
      /\ lease'[c].key = None /\ k # None
  BY PluginLoaderConstants DEF TypeOK, NoLease
<1>2. \A j \in Key, d \in Client :
        lease'[d].key = j <=> (lease[d].key = j /\ d # c)
  BY <1>1, PluginLoaderConstants
<1>3. Holders(k)' = Holders(k) \ {c}
  BY <1>2 DEF Holders
<1>4. \A j \in Key \ {k} : Holders(j)' = Holders(j)
  BY <1>1, <1>2 DEF Holders
<1>5. c \in Holders(k)
  BY DEF Holders
<1>6. Cardinality(Holders(k) \ {c}) = Cardinality(Holders(k)) - 1
  BY <1>5, HoldersFinite, FS_RemoveElement
<1>7. Cardinality(Holders(k))' = Cardinality(Holders(k) \ {c})
  BY <1>3
<1> QED BY <1>4, <1>6, <1>7

LEMMA StartTimerType ==
  ASSUME TypeOK, NEW k \in Key, StartTimer(k) PROVE timer' \in SUBSET Thread
<1>1. PICK t \in Timer : timer' = timer \cup
        {[id |-> t, key |-> k, version |-> timerVersion[k], sleep |-> Linger]}
  BY DEF StartTimer
<1>2. [id |-> t, key |-> k, version |-> timerVersion[k], sleep |-> Linger] \in Thread
  BY PluginLoaderConstants DEF TypeOK, Thread
<1> QED BY <1>1, <1>2 DEF TypeOK

LEMMA Step == IInv /\ [Next]_vars => IInv'
<1>a. SUFFICES ASSUME IInv, [Next]_vars PROVE IInv'
  OBVIOUS
<1>t. TypeOK /\ LeasedIsLoaded /\ CountIsExact
  BY <1>a DEF IInv
<1>n. None \notin ClassLoader /\ None \notin Key /\ Linger \in Nat /\ VersionBound \in Nat
  BY PluginLoaderConstants
<1>o. overslept' \in BOOLEAN
  <2>1. ASSUME NEW c \in Client, NEW k \in Key, Get(c, k) \/ Release(c, k)
        PROVE  overslept' \in BOOLEAN
    BY <1>t, <2>1 DEF TypeOK, Get, Release
  <2>2. ASSUME NEW s \in timer, WakeUp(s) PROVE overslept' \in BOOLEAN
    BY <2>2 DEF WakeUp
  <2>3. CASE Tick
    BY <2>3 DEF Tick
  <2>4. CASE UNCHANGED vars
    BY <1>t, <2>4 DEF vars, TypeOK
  <2> QED BY <1>a, <2>1, <2>2, <2>3, <2>4 DEF Next
<1>1. ASSUME NEW c \in Client, NEW k \in Key, Get(c, k) PROVE IInv'
  <2>1. PICK l \in ClassLoader :
          /\ classLoader[k] = None \/ classLoader[k] = l
          /\ classLoader' = [classLoader EXCEPT ![k] = l]
          /\ lease' = [lease EXCEPT ![c] = [key |-> k, loader |-> l]]
    BY <1>1, <1>t DEF Get, FreshLoaders, TypeOK
  <2>2. /\ lease[c] = NoLease
        /\ leaseCount' = [leaseCount EXCEPT ![k] = @ + 1]
    BY <1>1 DEF Get
  <2>3. CountIsExact'
    <3>1. /\ Cardinality(Holders(k))' = Cardinality(Holders(k)) + 1
          /\ \A j \in Key \ {k} : Holders(j)' = Holders(j)
      BY <1>t, <2>1, <2>2, HoldersGet
    <3> QED BY <1>t, <2>2, <3>1 DEF CountIsExact, TypeOK
  <2>4. LeasedIsLoaded'
    BY <1>t, <1>n, <2>1, <2>2 DEF LeasedIsLoaded, TypeOK, NoLease, Lease
  <2>5. TypeOK'
    BY <1>1, <1>t, <1>n, <1>o, <2>1, <2>2 DEF Get, TypeOK, Lease
  <2> QED BY <2>3, <2>4, <2>5 DEF IInv
<1>2. ASSUME NEW c \in Client, NEW k \in Key, Release(c, k) PROVE IInv'
  <2>1. /\ lease[c].key = k
        /\ lease' = [lease EXCEPT ![c] = NoLease]
        /\ leaseCount' = [leaseCount EXCEPT ![k] = @ - 1]
        /\ classLoader' = classLoader /\ timerVersion' = timerVersion
    BY <1>2 DEF Release
  <2>2. CountIsExact'
    <3>1. /\ Cardinality(Holders(k))' = Cardinality(Holders(k)) - 1
          /\ \A j \in Key \ {k} : Holders(j)' = Holders(j)
      BY <1>t, <2>1, HoldersRelease
    <3> QED BY <1>t, <2>1, <3>1 DEF CountIsExact, TypeOK
  <2>3. LeasedIsLoaded'
    BY <1>t, <1>n, <2>1 DEF LeasedIsLoaded, TypeOK, NoLease
  <2>4. TypeOK'
    <3>1. timer' \in SUBSET Thread /\ idle' \in [Key -> 0 .. Linger]
      BY <1>2, <1>t, <1>n, StartTimerType DEF Release, TypeOK
    <3>2. leaseCount' \in [Key -> Nat]
      <4>1. \A j \in Key : leaseCount'[j] = Cardinality(Holders(j))'
        BY <2>2 DEF CountIsExact
      <4>2. \A j \in Key : Cardinality(Holders(j))' \in Nat
        <5> TAKE j \in Key
        <5>1. Holders(j)' \subseteq Client
          BY DEF Holders
        <5> QED BY <5>1, FS_Subset, FS_CardinalityType, PluginLoaderConstants
      <4> QED BY <1>t, <2>1, <4>1, <4>2 DEF TypeOK
    <3> QED BY <1>t, <1>o, <2>1, <3>1, <3>2 DEF TypeOK
  <2> QED BY <2>2, <2>3, <2>4 DEF IInv
<1>3. ASSUME NEW s \in timer, WakeUp(s) PROVE IInv'
  <2>1. CASE Expired(s)
    <3>1. /\ s.key \in Key /\ leaseCount[s.key] = 0
          /\ classLoader' = [classLoader EXCEPT ![s.key] = None]
          /\ timerVersion' = [timerVersion EXCEPT ![s.key] = 0]
          /\ leaseCount' = leaseCount /\ lease' = lease /\ idle' = idle
          /\ timer' \in SUBSET Thread
      BY <1>3, <1>t, <2>1 DEF WakeUp, Expired, TypeOK, Thread
    <3>2. Holders(s.key) = {}
      BY <1>t, <3>1, HoldersFinite, FS_EmptySet DEF CountIsExact
    <3>3. TypeOK'
      BY <1>t, <1>n, <1>o, <3>1 DEF TypeOK
    <3>4. LeasedIsLoaded'
      BY <1>t, <3>1, <3>2 DEF LeasedIsLoaded, Holders, TypeOK, Lease
    <3>5. CountIsExact'
      BY <1>t, <3>1 DEF CountIsExact, Holders
    <3> QED BY <3>3, <3>4, <3>5 DEF IInv
  <2>2. CASE ~Expired(s)
    BY <1>3, <1>t, <1>o, <2>2 DEF WakeUp, IInv, TypeOK, LeasedIsLoaded, CountIsExact, Holders
  <2> QED BY <2>1, <2>2
<1>4. CASE Tick
  <2>1. timer' \in SUBSET Thread
    BY <1>4, <1>t, <1>n DEF Tick, TypeOK, Thread
  <2>2. idle' \in [Key -> 0 .. Linger]
    BY <1>4, <1>t, <1>n DEF Tick, TypeOK
  <2> QED BY <1>4, <1>t, <1>o, <2>1, <2>2 DEF Tick, IInv, TypeOK, LeasedIsLoaded, CountIsExact, Holders
<1>5. CASE UNCHANGED vars
  BY <1>5, <1>t DEF vars, IInv, TypeOK, LeasedIsLoaded, CountIsExact, Holders
<1> QED BY <1>a, <1>1, <1>2, <1>3, <1>4, <1>5 DEF Next

LEMMA Invariance == Spec => []IInv
<1>1. Init => IInv
  <2> SUFFICES ASSUME Init PROVE IInv
    OBVIOUS
  <2>1. \A k \in Key : Holders(k) = {}
    BY PluginLoaderConstants DEF Init, Holders, NoLease
  <2>2. CountIsExact
    BY <2>1, FS_EmptySet DEF Init, CountIsExact
  <2>3. overslept \in BOOLEAN
    BY DEF Init
  <2>4. TypeOK
    <3>1. /\ classLoader \in [Key -> ClassLoader \cup {None}]
          /\ leaseCount \in [Key -> Nat]
          /\ timerVersion \in [Key -> 0 .. VersionBound]
          /\ idle \in [Key -> 0 .. Linger]
      BY PluginLoaderConstants DEF Init
    <3>2. lease \in [Client -> Lease \cup {NoLease}] /\ timer \in SUBSET Thread
      BY DEF Init
    <3> QED BY <2>3, <3>1, <3>2 DEF TypeOK
  <2>5. LeasedIsLoaded
    BY DEF Init, LeasedIsLoaded
  <2> QED BY <2>2, <2>4, <2>5 DEF IInv
<1> QED BY <1>1, Step, PTL DEF Spec

\* The lease count never underflows, nor does any variable leave its type.
THEOREM TypeCorrect == Spec => []TypeOK
BY Invariance, PTL DEF IInv

\* The lease count is the number of leases: none is counted twice or not at all.
THEOREM CountIsExactAlways == Spec => []CountIsExact
BY Invariance, PTL DEF IInv

\* However late a thread wakes up, and whichever entry it finds by then, it never
\* destroys a class loader that somebody holds a lease of.
THEOREM LeasedIsLoadedAlways == Spec => []LeasedIsLoaded
BY Invariance, PTL DEF IInv
-----------------------------------------------------------------------------
\* How long a class loader lingers.  Until a thread has woken up late or out of turn
\* the threads asleep are those of the entry that is in the table now, each with
\* a version of its own, the later the longer to sleep, and only the one with
\* the version of the entry, of which there is one if nobody has leased the entry
\* since, has slept as long as the entry is idle.
InTurn ==
  \A s \in timer :
    /\ classLoader[s.key] # None
    /\ s.version <= timerVersion[s.key]
    /\ s.version = timerVersion[s.key] =>
         leaseCount[s.key] = 0 /\ idle[s.key] + s.sleep >= Linger
    /\ \A r \in timer : r.key = s.key /\ r # s =>
         r.version # s.version /\ (r.version < s.version => r.sleep <= s.sleep)

LingerInv == ~overslept => InTurn

LEMMA LingerStep == IInv /\ LingerInv /\ [Next]_vars => LingerInv'
<1> SUFFICES ASSUME IInv, LingerInv, [Next]_vars, ~overslept' PROVE InTurn'
  BY DEF LingerInv
<1>t. TypeOK /\ LeasedIsLoaded
  BY DEF IInv
<1>n. None \notin ClassLoader /\ None \notin Key /\ Linger \in Nat /\ VersionBound \in Nat
  BY PluginLoaderConstants
<1>s. ASSUME NEW s \in timer
      PROVE  /\ s \in Thread /\ s.key \in Key
             /\ s.version \in Nat /\ s.sleep \in 0 .. Linger
  BY <1>t DEF TypeOK, Thread
<1>k. ASSUME NEW k \in Key
      PROVE  timerVersion[k] \in Nat /\ idle[k] \in 0 .. Linger /\ leaseCount[k] \in Nat
  BY <1>t DEF TypeOK
<1>1. ASSUME NEW c \in Client, NEW k \in Key, Get(c, k) PROVE InTurn'
  <2>1. PICK l \in ClassLoader : classLoader' = [classLoader EXCEPT ![k] = l]
    BY <1>1, <1>t DEF Get, FreshLoaders, TypeOK
  <2>2. /\ timerVersion' = [timerVersion EXCEPT ![k] = @ + 1]
        /\ timer' = timer /\ idle' = idle
        /\ leaseCount' = [leaseCount EXCEPT ![k] = @ + 1]
    BY <1>1 DEF Get
  <2>3. InTurn
    BY <1>1 DEF Get, LingerInv
  <2> SUFFICES ASSUME NEW s \in timer
               PROVE  /\ classLoader'[s.key] # None
                      /\ s.version <= timerVersion'[s.key]
                      /\ s.version = timerVersion'[s.key] =>
                           leaseCount'[s.key] = 0 /\ idle[s.key] + s.sleep >= Linger
    BY <2>2, <2>3 DEF InTurn
  <2>4. CASE s.key = k
    BY <1>s, <1>k, <1>n, <1>t, <2>1, <2>2, <2>3, <2>4 DEF InTurn, TypeOK
  <2>5. CASE s.key # k
    BY <1>s, <1>t, <2>1, <2>2, <2>3, <2>5 DEF InTurn, TypeOK
  <2> QED BY <2>4, <2>5
<1>2. ASSUME NEW c \in Client, NEW k \in Key, Release(c, k) PROVE InTurn'
  <2>1. /\ lease[c].key = k /\ classLoader' = classLoader /\ timerVersion' = timerVersion
        /\ leaseCount' = [leaseCount EXCEPT ![k] = @ - 1]
        /\ leaseCount[k] # 1 => timer' = timer /\ idle' = idle
        /\ leaseCount[k] = 1 => StartTimer(k) /\ idle' = [idle EXCEPT ![k] = 0]
    BY <1>2 DEF Release
  <2>2. classLoader[k] # None
    BY <1>t, <1>n, <2>1 DEF LeasedIsLoaded, TypeOK, NoLease, Lease
  <2>3. InTurn
    BY <1>2 DEF Release, LingerInv
  <2>4. leaseCount[k] # 0
    <3>1. Holders(k) # {} /\ leaseCount[k] = Cardinality(Holders(k))
      BY <2>1 DEF Holders, IInv, CountIsExact
    <3> QED BY <3>1, HoldersFinite, FS_EmptySet
  <2>5. \A s \in timer : s.key = k => s.version < timerVersion[k]
    BY <1>s, <1>k, <2>3, <2>4 DEF InTurn
  <2>6. CASE leaseCount[k] # 1
    <3>1. \A s \in timer : s.key # k => leaseCount'[s.key] = leaseCount[s.key]
      BY <1>s, <1>t, <2>1 DEF TypeOK
    <3> QED BY <1>s, <1>k, <2>1, <2>3, <2>5, <2>6, <3>1 DEF InTurn
  <2>7. CASE leaseCount[k] = 1
    <3>1. PICK t \in Timer : timer' = timer \cup
            {[id |-> t, key |-> k, version |-> timerVersion[k], sleep |-> Linger]}
      BY <2>1, <2>7 DEF StartTimer
    <3> DEFINE new == [id |-> t, key |-> k, version |-> timerVersion[k], sleep |-> Linger]
    <3>2. /\ new.key = k /\ new.version = timerVersion[k] /\ new.sleep = Linger
          /\ timer' = timer \cup {new}
      BY <3>1
    <3> HIDE DEF new
    <3>3. leaseCount'[k] = 0 /\ idle'[k] = 0
      BY <1>t, <2>1, <2>7 DEF TypeOK
    <3>4. \A j \in Key \ {k} : leaseCount'[j] = leaseCount[j] /\ idle'[j] = idle[j]
      BY <1>t, <2>1, <2>7 DEF TypeOK
    <3>5. ASSUME NEW s \in timer'
          PROVE  /\ classLoader[s.key] # None
                 /\ s.version <= timerVersion[s.key]
                 /\ s.version = timerVersion[s.key] =>
                      leaseCount'[s.key] = 0 /\ idle'[s.key] + s.sleep >= Linger
      <4>1. CASE s = new
        BY <1>k, <1>n, <2>2, <3>2, <3>3, <4>1
      <4>2. CASE s \in timer /\ s.key = k
        BY <1>s, <1>k, <2>2, <2>5, <4>2
      <4>3. CASE s \in timer /\ s.key # k
        BY <1>s, <2>3, <3>4, <4>3 DEF InTurn
      <4> QED BY <3>2, <4>1, <4>2, <4>3
    <3>6. ASSUME NEW s \in timer', NEW r \in timer', r.key = s.key, r # s
          PROVE  r.version # s.version /\ (r.version < s.version => r.sleep <= s.sleep)
      <4>1. CASE s = new
        BY <1>s, <1>k, <2>5, <3>2, <3>6, <4>1
      <4>2. CASE r = new
        BY <1>s, <1>k, <2>5, <3>2, <3>6, <4>2
      <4>3. CASE s \in timer /\ r \in timer
        BY <2>3, <3>6, <4>3 DEF InTurn
      <4> QED BY <3>2, <4>1, <4>2, <4>3
    <3> QED BY <2>1, <3>5, <3>6 DEF InTurn
  <2> QED BY <2>6, <2>7
<1>3. ASSUME NEW s \in timer, WakeUp(s) PROVE InTurn'
  <2>1. /\ s.sleep = 0 /\ timer' = timer \ {s} /\ leaseCount' = leaseCount /\ idle' = idle
        /\ ~overslept
        /\ ~\E r \in timer : r.key = s.key /\ r.sleep = 0 /\ r.version < s.version
    BY <1>3 DEF WakeUp
  <2>2. InTurn
    BY <2>1 DEF LingerInv
  <2>3. CASE Expired(s)
    <3>1. /\ classLoader' = [classLoader EXCEPT ![s.key] = None]
          /\ timerVersion' = [timerVersion EXCEPT ![s.key] = 0]
          /\ timerVersion[s.key] = s.version
      BY <1>3, <2>3 DEF WakeUp, Expired
    <3>2. \A r \in timer' : r.key # s.key
      <4> SUFFICES ASSUME NEW r \in timer', r.key = s.key PROVE FALSE
        OBVIOUS
      <4>1. r \in timer /\ r # s /\ r.version <= s.version /\ r.version # s.version
        BY <2>1, <2>2, <3>1 DEF InTurn
      <4>2. r.version < s.version /\ r.sleep <= s.sleep
        BY <1>s, <2>2, <4>1 DEF InTurn
      <4> QED BY <1>s, <2>1, <4>1, <4>2
    <3>3. \A r \in timer' : /\ r \in timer
                             /\ classLoader'[r.key] = classLoader[r.key]
                             /\ timerVersion'[r.key] = timerVersion[r.key]
      BY <1>s, <1>t, <2>1, <3>1, <3>2 DEF TypeOK
    <3> QED BY <2>1, <2>2, <3>3 DEF InTurn
  <2>4. CASE ~Expired(s)
    BY <1>3, <2>1, <2>2, <2>4 DEF WakeUp, InTurn
  <2> QED BY <2>3, <2>4
<1>4. CASE Tick
  <2>1. /\ \A s \in timer : s.sleep # 0
        /\ ~overslept
    BY <1>4 DEF Tick
  <2>2. InTurn
    BY <2>1 DEF LingerInv
  <2>3. \A k \in Key : /\ leaseCount'[k] = leaseCount[k]
                       /\ timerVersion'[k] = timerVersion[k]
                       /\ classLoader'[k] = classLoader[k]
                       /\ leaseCount[k] = 0 => idle'[k] = Linger \/ idle'[k] = idle[k] + 1
    BY <1>4, <1>k, <1>n DEF Tick
  <2>4. ASSUME NEW s \in timer'
        PROVE  \E u \in timer : /\ s.key = u.key /\ s.version = u.version
                                /\ s.sleep = u.sleep - 1 /\ s = [u EXCEPT !.sleep = u.sleep - 1]
    <3>1. PICK u \in timer : s = [u EXCEPT !.sleep = IF u.sleep > 0 THEN u.sleep - 1 ELSE 0]
      BY <1>4 DEF Tick
    <3>2. u.sleep > 0 /\ u \in Thread
      BY <1>s, <2>1
    <3> QED BY <3>1, <3>2 DEF Thread
  <2>5. ASSUME NEW s \in timer'
        PROVE  /\ classLoader'[s.key] # None
               /\ s.version <= timerVersion'[s.key]
               /\ s.version = timerVersion'[s.key] =>
                    leaseCount'[s.key] = 0 /\ idle'[s.key] + s.sleep >= Linger
    <3>1. PICK u \in timer : s.key = u.key /\ s.version = u.version /\ s.sleep = u.sleep - 1
      BY <2>4
    <3>2. /\ u.key \in Key /\ u.sleep - 1 \in Nat /\ idle[u.key] \in Nat
      BY <1>s, <1>k, <2>1
    <3>3. /\ classLoader[u.key] # None
          /\ u.version <= timerVersion[u.key]
          /\ u.version = timerVersion[u.key] =>
               leaseCount[u.key] = 0 /\ idle[u.key] + u.sleep >= Linger
      BY <2>2 DEF InTurn
    <3>4. u.version = timerVersion[u.key] => idle'[u.key] + (u.sleep - 1) >= Linger
      BY <1>s, <1>n, <2>3, <3>2, <3>3
    <3> QED BY <2>3, <3>1, <3>2, <3>3, <3>4
  <2>6. ASSUME NEW s \in timer', NEW r \in timer', r.key = s.key, r # s
        PROVE  r.version # s.version /\ (r.version < s.version => r.sleep <= s.sleep)
    <3>1. PICK u \in timer : /\ s.key = u.key /\ s.version = u.version
                             /\ s.sleep = u.sleep - 1 /\ s = [u EXCEPT !.sleep = u.sleep - 1]
      BY <2>4
    <3>2. PICK v \in timer : /\ r.key = v.key /\ r.version = v.version
                             /\ r.sleep = v.sleep - 1 /\ r = [v EXCEPT !.sleep = v.sleep - 1]
      BY <2>4
    <3>3. u # v
      BY <2>6, <3>1, <3>2
    <3>4. v.version # u.version /\ (v.version < u.version => v.sleep <= u.sleep)
      BY <2>2, <2>6, <3>1, <3>2, <3>3 DEF InTurn
    <3> QED BY <1>s, <3>1, <3>2, <3>4
  <2> QED BY <2>5, <2>6 DEF InTurn
<1>5. CASE UNCHANGED vars
  BY <1>5 DEF vars, InTurn, LingerInv
<1> QED BY <1>1, <1>2, <1>3, <1>4, <1>5 DEF Next

\* As long as threads wake up on time and in turn, a class loader goes only after it has not
\* been used for the whole time to linger, whatever versions older threads have captured.
THEOREM UnusedLingersAlways == Spec => UnusedLingers
<1> DEFINE Lingers ==
      \A k \in Key : classLoader[k] # None /\ classLoader'[k] = None /\ ~overslept' => idle[k] = Linger
<1>1. Init => LingerInv
  BY DEF Init, LingerInv, InTurn
<1>2. IInv /\ LingerInv /\ [Next]_vars => [Lingers]_vars
  <2> SUFFICES ASSUME IInv, LingerInv, Next, NEW k \in Key,
                      classLoader[k] # None, classLoader'[k] = None, ~overslept'
               PROVE  idle[k] = Linger
    OBVIOUS
  <2>1. \A c \in Client, j \in Key : ~Get(c, j) /\ ~Release(c, j)
    BY PluginLoaderConstants DEF Get, Release, FreshLoaders, IInv, TypeOK
  <2>2. ~Tick
    BY DEF Tick
  <2>3. PICK s \in timer : WakeUp(s)
    BY <2>1, <2>2 DEF Next
  <2>4. s.key = k /\ timerVersion[k] = s.version /\ s.sleep = 0 /\ ~overslept
    BY <2>3 DEF WakeUp, Expired, IInv, TypeOK
  <2> QED BY <2>4, PluginLoaderConstants DEF LingerInv, InTurn, IInv, TypeOK
<1>3. Spec => []LingerInv
  BY <1>1, LingerStep, Invariance, PTL DEF Spec
<1> QED BY <1>2, <1>3, Invariance, PTL DEF Spec, UnusedLingers

-----------------------------------------------------------------------------
\* What UnusedIsUnloaded rests on: an entry without leases is not forgotten, because
\* a thread is asleep that has captured its version.
UnusedIsWatched ==
  \A k \in Key : classLoader[k] # None /\ leaseCount[k] = 0 =>
    \E s \in timer : s.key = k /\ s.version = timerVersion[k]

LEMMA WatchStep == IInv /\ UnusedIsWatched /\ [Next]_vars => UnusedIsWatched'
<1> SUFFICES ASSUME IInv, UnusedIsWatched, [Next]_vars, NEW k \in Key,
                    classLoader'[k] # None, leaseCount'[k] = 0
             PROVE  \E s \in timer' : s.key = k /\ s.version = timerVersion'[k]
  BY DEF UnusedIsWatched
<1>t. TypeOK /\ leaseCount[k] \in Nat
  BY DEF IInv, TypeOK
<1>1. ASSUME NEW c \in Client, NEW j \in Key, Get(c, j)
      PROVE  \E s \in timer' : s.key = k /\ s.version = timerVersion'[k]
  <2>1. j # k
    BY <1>1, <1>t DEF Get, TypeOK
  <2>2. classLoader'[k] = classLoader[k] /\ leaseCount'[k] = leaseCount[k]
        /\ timerVersion'[k] = timerVersion[k] /\ timer' = timer
    BY <1>1, <1>t, <2>1 DEF Get, TypeOK
  <2> QED BY <2>2 DEF UnusedIsWatched
<1>2. ASSUME NEW c \in Client, NEW j \in Key, Release(c, j)
      PROVE  \E s \in timer' : s.key = k /\ s.version = timerVersion'[k]
  <2>1. /\ classLoader' = classLoader /\ timerVersion' = timerVersion
        /\ leaseCount' = [leaseCount EXCEPT ![j] = @ - 1]
        /\ leaseCount[j] = 1 => StartTimer(j)
        /\ timer \subseteq timer'
    BY <1>2 DEF Release, StartTimer
  <2>2. CASE j = k
    <3>1. leaseCount[k] = 1
      BY <1>t, <2>1, <2>2 DEF TypeOK
    <3>2. PICK t \in Timer : timer' = timer \cup
            {[id |-> t, key |-> k, version |-> timerVersion[k], sleep |-> Linger]}
      BY <2>1, <2>2, <3>1 DEF StartTimer
    <3> DEFINE new == [id |-> t, key |-> k, version |-> timerVersion[k], sleep |-> Linger]
    <3>3. new.key = k /\ new.version = timerVersion'[k] /\ new \in timer'
      BY <2>1, <3>2
    <3> QED BY <3>3
  <2>3. CASE j # k
    BY <1>t, <2>1, <2>3 DEF UnusedIsWatched, TypeOK
  <2> QED BY <2>2, <2>3
<1>3. ASSUME NEW s \in timer, WakeUp(s)
      PROVE  \E r \in timer' : r.key = k /\ r.version = timerVersion'[k]
  <2>1. s.key \in Key /\ leaseCount' = leaseCount /\ timer' = timer \ {s}
    BY <1>3, <1>t DEF WakeUp, TypeOK, Thread
  <2>2. CASE Expired(s)
    <3>1. s.key # k /\ classLoader'[k] = classLoader[k] /\ timerVersion'[k] = timerVersion[k]
      BY <1>3, <1>t, <2>1, <2>2 DEF WakeUp, TypeOK
    <3> QED BY <2>1, <3>1 DEF UnusedIsWatched
  <2>3. CASE ~Expired(s)
    <3>1. classLoader' = classLoader /\ timerVersion' = timerVersion
      BY <1>3, <2>3 DEF WakeUp
    <3>2. PICK r \in timer : r.key = k /\ r.version = timerVersion[k]
      BY <2>1, <3>1 DEF UnusedIsWatched
    <3>3. r # s
      BY <2>1, <2>3, <3>1, <3>2 DEF Expired
    <3> QED BY <2>1, <3>1, <3>2, <3>3
  <2> QED BY <2>2, <2>3
<1>4. CASE Tick
  <2>1. PICK r \in timer : r.key = k /\ r.version = timerVersion[k]
    BY <1>4 DEF Tick, UnusedIsWatched
  <2> DEFINE slept == [r EXCEPT !.sleep = IF @ > 0 THEN @ - 1 ELSE 0]
  <2>2. slept \in timer' /\ r \in Thread
    BY <1>4, <1>t DEF Tick, TypeOK
  <2>3. slept.key = k /\ slept.version = timerVersion'[k]
    BY <1>4, <2>1, <2>2 DEF Tick, Thread
  <2> QED BY <2>2, <2>3
<1>5. CASE UNCHANGED vars
  BY <1>5 DEF vars, UnusedIsWatched
<1> QED BY <1>1, <1>2, <1>3, <1>4, <1>5 DEF Next

\* However late threads wake up, and although versions begin anew with every entry, there is
\* one that will look at an entry nobody has a lease of.
THEOREM UnusedIsWatchedAlways == Spec => []UnusedIsWatched
<1>1. Init => UnusedIsWatched
  BY DEF Init, UnusedIsWatched
<1> QED BY <1>1, WatchStep, Invariance, PTL DEF Spec

=============================================================================
