---------------------------- MODULE PluginLoader -----------------------------
(***************************************************************************)
(* sfg_pluginlib::PluginLoader: class loaders shared by all that lease     *)
(* them, and kept for a while after the last lease has ended.  A lease     *)
(* holds a bare pointer into the table: nothing but the lease count keeps  *)
(* the class loader alive.  Every access holds s_mutex.  Time passes in    *)
(* ticks.                                                                  *)
(***************************************************************************)
EXTENDS Integers, FiniteSets

CONSTANTS
  Client,         \* holders of leases
  Key,            \* package|base_class
  ClassLoader,    \* identities of class loaders, reused once nothing refers to them
  Timer,          \* identities of the detached threads
  Linger,         \* ticks such a thread sleeps: five seconds
  VersionBound,   \* bound of the model on m_timer_version
  None            \* no class loader

ASSUME PluginLoaderConstants ==
  /\ IsFiniteSet(Client)
  /\ None \notin ClassLoader /\ None \notin Key
  /\ Linger \in Nat /\ VersionBound \in Nat

VARIABLES
  classLoader,   \* s_instances: m_class_loader by key, None without an entry
  leaseCount,    \* s_instances: m_lease_count
  timerVersion,  \* s_instances: m_timer_version
  lease,         \* what each client holds: a key and the class loader pointed to
  timer,         \* sleeping threads, with the key and the version they captured
  idle,          \* history: ticks since the lease count fell to zero, up to Linger
  overslept      \* history: some thread has woken up late or out of turn

instanceVars == <<classLoader, leaseCount, timerVersion>>
vars == <<classLoader, leaseCount, timerVersion, lease, timer, idle, overslept>>

NoLease == [key |-> None, loader |-> None]
Lease == [key : Key, loader : ClassLoader]
Thread == [id : Timer, key : Key, version : 0 .. VersionBound, sleep : 0 .. Linger]

TypeOK ==
  /\ classLoader \in [Key -> ClassLoader \cup {None}]
  /\ leaseCount \in [Key -> Nat]
  /\ timerVersion \in [Key -> 0 .. VersionBound]
  /\ lease \in [Client -> Lease \cup {NoLease}]
  /\ timer \in SUBSET Thread
  /\ idle \in [Key -> 0 .. Linger]
  /\ overslept \in BOOLEAN

Init ==
  /\ classLoader = [k \in Key |-> None]
  /\ leaseCount = [k \in Key |-> 0]
  /\ timerVersion = [k \in Key |-> 0]
  /\ lease = [c \in Client |-> NoLease]
  /\ timer = {}
  /\ idle = [k \in Key |-> 0]
  /\ overslept = FALSE

Holders(k) == {c \in Client : lease[c].key = k}

\* A class loader just made is none that anything refers to.
FreshLoaders ==
  {l \in ClassLoader : /\ \A k \in Key : classLoader[k] # l
                       /\ \A c \in Client : lease[c].loader # l}

-----------------------------------------------------------------------------
\* Mutant: a lease of a class loader that is there is not counted.
GetUncounted(c, k) ==
  /\ lease[c] = NoLease
  /\ timerVersion[k] < VersionBound
  /\ \E l \in IF classLoader[k] = None THEN FreshLoaders ELSE {classLoader[k]} :
       /\ classLoader' = [classLoader EXCEPT ![k] = l]
       /\ lease' = [lease EXCEPT ![c] = [key |-> k, loader |-> l]]
  /\ leaseCount' = [leaseCount EXCEPT ![k] = IF classLoader[k] = None THEN 1 ELSE @]
  /\ timerVersion' = [timerVersion EXCEPT ![k] = @ + 1]
  /\ UNCHANGED <<timer, idle, overslept>>

\* Mutant: the timer is not told of the new lease.
GetWithoutVersion(c, k) ==
  /\ lease[c] = NoLease
  /\ \E l \in IF classLoader[k] = None THEN FreshLoaders ELSE {classLoader[k]} :
       /\ classLoader' = [classLoader EXCEPT ![k] = l]
       /\ lease' = [lease EXCEPT ![c] = [key |-> k, loader |-> l]]
  /\ leaseCount' = [leaseCount EXCEPT ![k] = @ + 1]
  /\ UNCHANGED <<timerVersion, timer, idle, overslept>>

Get(c, k) ==
  /\ lease[c] = NoLease
  /\ timerVersion[k] < VersionBound
  /\ \E l \in IF classLoader[k] = None THEN FreshLoaders ELSE {classLoader[k]} :
       /\ classLoader' = [classLoader EXCEPT ![k] = l]
       /\ lease' = [lease EXCEPT ![c] = [key |-> k, loader |-> l]]
  /\ leaseCount' = [leaseCount EXCEPT ![k] = @ + 1]
  /\ timerVersion' = [timerVersion EXCEPT ![k] = @ + 1]
  /\ UNCHANGED <<timer, idle, overslept>>

\* A detached thread that will look at the entry in Linger ticks.
StartTimer(k) ==
  \E t \in Timer \ {s.id : s \in timer} :
    timer' = timer \cup
      {[id |-> t, key |-> k, version |-> timerVersion[k], sleep |-> Linger]}

\* Mutant: the count is compared before it is decremented.
ReleasePostDecrement(c, k) ==
  /\ lease[c].key = k
  /\ lease' = [lease EXCEPT ![c] = NoLease]
  /\ leaseCount' = [leaseCount EXCEPT ![k] = @ - 1]
  /\ IF leaseCount[k] = 0
       THEN StartTimer(k) /\ idle' = [idle EXCEPT ![k] = 0]
       ELSE UNCHANGED <<timer, idle>>
  /\ UNCHANGED <<classLoader, timerVersion, overslept>>

\* The last copy of the pointer goes, and its deleter calls release: the entry is
\* still there, as LeasedIsLoaded says.
Release(c, k) ==
  /\ lease[c].key = k
  /\ lease' = [lease EXCEPT ![c] = NoLease]
  /\ leaseCount' = [leaseCount EXCEPT ![k] = @ - 1]
  /\ IF leaseCount[k] = 1
       THEN StartTimer(k) /\ idle' = [idle EXCEPT ![k] = 0]
       ELSE UNCHANGED <<timer, idle>>
  /\ UNCHANGED <<classLoader, timerVersion, overslept>>

\* Mutant: a thread that wakes up does not look at the lease count.
ExpiredWhateverCount(s) ==
  classLoader[s.key] # None /\ timerVersion[s.key] = s.version

\* Nobody has leased the entry since the thread was started.
Expired(s) ==
  /\ classLoader[s.key] # None
  /\ leaseCount[s.key] = 0
  /\ timerVersion[s.key] = s.version

\* Erasing the entry destroys the class loader; an entry to come starts anew.
WakeUp(s) ==
  /\ s.sleep = 0
  /\ timer' = timer \ {s}
  /\ IF Expired(s)
       THEN /\ classLoader' = [classLoader EXCEPT ![s.key] = None]
            /\ timerVersion' = [timerVersion EXCEPT ![s.key] = 0]
       ELSE UNCHANGED <<classLoader, timerVersion>>
  /\ overslept' = (overslept \/ \E r \in timer : r.key = s.key /\ r.sleep = 0 /\ r.version < s.version)
  /\ UNCHANGED <<leaseCount, lease, idle>>

Tick ==
  /\ timer' = {[s EXCEPT !.sleep = IF @ > 0 THEN @ - 1 ELSE 0] : s \in timer}
  /\ idle' = [k \in Key |-> IF leaseCount[k] = 0 /\ idle[k] < Linger THEN idle[k] + 1 ELSE idle[k]]
  /\ overslept' = (overslept \/ \E s \in timer : s.sleep = 0)
  /\ UNCHANGED <<classLoader, leaseCount, timerVersion, lease>>

Next ==
  \/ \E c \in Client, k \in Key : Get(c, k) \/ Release(c, k)
  \/ \E s \in timer : WakeUp(s)
  \/ Tick

Spec == Init /\ [][Next]_vars

\* Fairness.  Every thread that sleeps wakes up in the end.
Fairness ==
  /\ WF_vars(Tick)
  /\ \A t \in Timer : WF_vars(\E s \in timer : s.id = t /\ WakeUp(s))
FairSpec == Spec /\ Fairness

-----------------------------------------------------------------------------
\* Properties.

\* Whoever holds a lease holds the class loader of the table: it has not been
\* destroyed by a thread that woke up, and all holders share it.
LeasedIsLoaded ==
  \A c \in Client : lease[c] # NoLease => classLoader[lease[c].key] = lease[c].loader

\* The lease count counts the leases, whatever threads are asleep.
CountIsExact ==
  \A k \in Key : leaseCount[k] = Cardinality(Holders(k))

\* As long as threads wake up on time and in turn, a class loader is destroyed only after
\* it has not been used for the whole time to linger: a new lease restarts it.
UnusedLingers ==
  [][\A k \in Key : classLoader[k] # None /\ classLoader'[k] = None /\ ~overslept'
       => idle[k] = Linger]_vars

\* A class loader that is not leased any more goes away in the end.
UnusedIsUnloaded ==
  \A k \in Key : <>[](Holders(k) = {}) => <>[](classLoader[k] = None)
=============================================================================
