--------------------------- MODULE ClusterConfigsProofs ---------------------------
(***************************************************************************)
(* Theorems about Clusters and the ClusterConfigs they refer to, for any   *)
(* number of both, any lists of references and contents, any number of     *)
(* failures and any environment.                                           *)
(***************************************************************************)
EXTENDS ClusterConfigs, TLAPS

-------------------------------------------------------------------------------
(***************************************************************************)
(* What the moves of the worker look like, field by field.                 *)
(***************************************************************************)
LEMMA FaultsType ==
  ASSUME faults \in 0..MaxFaults, Fault \/ NoFault
  PROVE  faults' \in 0..MaxFaults
  BY ConstantsAssumption DEF Fault, NoFault

LEMMA ExtensionsType ==
  /\ NoExtension \in Extensions /\ None \notin Extensions
  /\ \A f, g \in Extensions : Overlay(f, g) \in Extensions
  BY ConstantsAssumption DEF NoExtension, Extensions, Overlay

LEMMA IdleIs ==
  /\ Idle \in Worker
  /\ Idle.pc = "idle" /\ Idle.c = None /\ Idle.drop = {} /\ Idle.listed = Unlisted
  /\ Idle.i = 1 /\ Idle.ext = NoExtension
  BY ExtensionsType DEF Idle, Worker, Unlisted

\* The call that follows the reference at hand.
LEMMA NextFetchIs ==
  ASSUME NEW r \in Worker
  PROVE  /\ NextFetch(r) \in {"fetch", "hash", "write"}
         /\ NextFetch(r) = "fetch" <=> r.i \in DOMAIN r.refs
         /\ NextFetch(r) = "write" => r.refs = r.hash
  BY DEF NextFetch, AfterFetching

LEMMA FetchedIs ==
  ASSUME w \in Worker, w.pc \in {"fetch", "own"}, NEW x \in Extensions
  PROVE  LET r == Fetched(x)
         IN  /\ r \in Worker
             /\ r.pc \in {"fetch", "hash", "write"}
             /\ r.pc = "fetch" <=> w.i + 1 \in DOMAIN w.refs
             /\ r.pc = "write" => w.refs = w.hash
             /\ r.c = w.c /\ r.refs = w.refs /\ r.hash = w.hash /\ r.drop = w.drop
             /\ r.listed = Unlisted /\ r.i = w.i + 1 /\ r.ext = Overlay(w.ext, x)
<1> DEFINE o == Overlay(w.ext, x)
           r == [w EXCEPT !.i = @ + 1, !.ext = o, !.listed = Unlisted]
<1>1. /\ o \in Extensions /\ Unlisted \in [Configs -> SUBSET Clusters]
      /\ w.i + 1 \in Nat \ {0}
  BY ExtensionsType DEF Worker, Unlisted
<1> HIDE DEF o
<1>2. /\ r \in Worker /\ r.c = w.c /\ r.refs = w.refs /\ r.hash = w.hash /\ r.drop = w.drop
      /\ r.listed = Unlisted /\ r.i = w.i + 1 /\ r.ext = o
  BY <1>1 DEF Worker
<1>3. Fetched(x) = [r EXCEPT !.pc = NextFetch(r)]
  BY DEF Fetched, o
<1> HIDE DEF r
<1>4. /\ NextFetch(r) \in {"fetch", "hash", "write"}
      /\ NextFetch(r) = "fetch" <=> r.i \in DOMAIN r.refs
      /\ NextFetch(r) = "write" => r.refs = r.hash
  BY <1>2, NextFetchIs
<1> QED
  BY <1>2, <1>3, <1>4 DEF Worker, o

LEMMA DroppingIs ==
  ASSUME NEW r \in Worker, r.pc \in {"list", "drop", "listall", "dropall"}
  PROVE  LET d == Dropping(r)
         IN  /\ d \in Worker
             /\ d.c = r.c /\ d.refs = r.refs /\ d.hash = r.hash /\ d.drop = r.drop
             /\ d.i = r.i /\ d.ext = r.ext
             /\ r.drop # {} => /\ d.listed = r.listed
                               /\ d.pc = IF r.pc \in {"list", "drop"} THEN "drop" ELSE "dropall"
             /\ r.drop = {} => /\ d.listed = Unlisted
                               /\ d.pc = IF r.pc \in {"list", "drop"} THEN NextFetch(r)
                                                                     ELSE "release"
<1>1. CASE r.drop # {}
  <2>1. Dropping(r) = [r EXCEPT !.pc = IF @ \in {"list", "drop"} THEN "drop" ELSE "dropall"]
    BY <1>1 DEF Dropping
  <2> QED
    BY <1>1, <2>1 DEF Worker
<1>2. CASE r.drop = {}
  <2>1. Dropping(r) = [r EXCEPT !.listed = Unlisted,
                          !.pc = IF @ \in {"list", "drop"} THEN NextFetch(r) ELSE "release"]
    BY <1>2 DEF Dropping
  <2>2. NextFetch(r) \in {"fetch", "hash", "write"} /\ Unlisted \in [Configs -> SUBSET Clusters]
    BY NextFetchIs DEF Unlisted
  <2> QED
    BY <1>2, <2>1, <2>2 DEF Worker
<1> QED
  BY <1>1, <1>2

\* The same, as it is used below.
LEMMA DroppingOn ==
  ASSUME NEW r \in Worker, r.pc \in {"list", "drop", "listall", "dropall"}, r.drop # {},
         w' = Dropping(r)
  PROVE  /\ w'.c = r.c /\ w'.refs = r.refs /\ w'.hash = r.hash /\ w'.drop = r.drop
         /\ w'.i = r.i /\ w'.ext = r.ext /\ w'.listed = r.listed
         /\ r.pc \in {"list", "drop"} => w'.pc = "drop"
         /\ r.pc \in {"listall", "dropall"} => w'.pc = "dropall"
  BY DroppingIs

LEMMA DroppingDone ==
  ASSUME NEW r \in Worker, r.pc \in {"list", "drop", "listall", "dropall"}, r.drop = {},
         w' = Dropping(r)
  PROVE  /\ w'.c = r.c /\ w'.refs = r.refs /\ w'.hash = r.hash /\ w'.drop = {}
         /\ w'.i = r.i /\ w'.ext = r.ext /\ \A k \in Configs : w'.listed[k] = {}
         /\ r.pc \in {"list", "drop"} => /\ w'.pc = NextFetch(r)
                                       /\ w'.pc \in {"fetch", "hash", "write"}
         /\ r.pc \in {"listall", "dropall"} => w'.pc = "release"
  BY DroppingIs, NextFetchIs DEF Unlisted

\* A reconcile of a live Cluster begins with the lists as they are now.
LEMMA BeginIs ==
  ASSUME TypeOK, NEW c \in Clusters
  PROVE  LET b == Begin(c)
         IN  /\ b \in Worker /\ b.c = c /\ b.refs = refs[c] /\ b.hash = hash[c]
             /\ b.drop = {} /\ b.listed = Unlisted /\ b.i = 1 /\ b.ext = NoExtension
             /\ b.seen = shoot[c]
             /\ FirstCall(b) \in {"list", "fetch", "write"}
             /\ FirstCall(b) = "fetch" => 1 \in DOMAIN b.refs
             /\ FirstCall(b) = "write" => b.refs = b.hash /\ 1 \notin DOMAIN b.refs
<1>1. Begin(c) \in Worker
  BY IdleIs DEF Begin, Idle, Worker, TypeOK
<1>2. /\ Begin(c).c = c /\ Begin(c).refs = refs[c] /\ Begin(c).hash = hash[c]
      /\ Begin(c).drop = {} /\ Begin(c).listed = Unlisted /\ Begin(c).i = 1
      /\ Begin(c).ext = NoExtension /\ Begin(c).seen = shoot[c]
  BY DEF Begin, Idle
<1>3. /\ NextFetch(Begin(c)) \in {"fetch", "hash", "write"}
      /\ NextFetch(Begin(c)) = "fetch" <=> 1 \in DOMAIN refs[c]
      /\ NextFetch(Begin(c)) = "write" => refs[c] = hash[c]
  BY <1>1, <1>2, NextFetchIs
<1>4. refs[c] = hash[c] => NextFetch(Begin(c)) # "hash"
  BY <1>2 DEF NextFetch, AfterFetching
<1> QED
  BY <1>1, <1>2, <1>3, <1>4 DEF FirstCall

-------------------------------------------------------------------------------
(***************************************************************************)
(* Types.                                                                  *)
(***************************************************************************)
\* A move that keeps the worker well-formed.
WorkerOK ==
  /\ w \in Worker
  /\ w.pc = "idle" => w.c = None
  /\ w.pc # "idle" => w.c \in Clusters
  /\ w.pc \in {"fetch", "own"} => w.i \in DOMAIN w.refs

LEMMA EndType ==
  ASSUME TypeOK, w.pc # "idle", Done \/ Retry
  PROVE  WorkerOK' /\ queue' \in SUBSET Clusters
  BY IdleIs DEF TypeOK, WorkerOK, Done, Retry

LEMMA FetchedType ==
  ASSUME TypeOK, w.pc \in {"fetch", "own"}, NEW x \in Extensions, Go(Fetched(x))
  PROVE  WorkerOK' /\ queue' \in SUBSET Clusters
  BY FetchedIs DEF TypeOK, WorkerOK, Go

LEMMA AddFinalizerType ==
  ASSUME TypeOK, AddFinalizer
  PROVE  TypeOK'
<1> USE DEF TypeOK, configVars, shootVars
<1>1. faults' \in 0..MaxFaults
  BY FaultsType DEF AddFinalizer
<1>2. held' \in SUBSET Clusters
  BY DEF AddFinalizer
<1>3. WorkerOK' /\ queue' \in SUBSET Clusters
  <2>1. CASE Retry
    BY <2>1, EndType DEF AddFinalizer
  <2>2. CASE ~Retry
    <3> DEFINE r == [w EXCEPT !.refs = refs[w.c], !.hash = hash[w.c]]
    <3>1. Go([r EXCEPT !.pc = FirstCall(r)])
      BY <2>2 DEF AddFinalizer
    <3>2. r \in Worker /\ r.c = w.c /\ w.c \in Clusters /\ r.i = w.i
      BY DEF AddFinalizer, Worker
    <3> HIDE DEF r
    <3>3. /\ FirstCall(r) \in {"list", "fetch", "hash", "write"}
          /\ FirstCall(r) = "fetch" => r.i \in DOMAIN r.refs
      BY <3>2, NextFetchIs DEF FirstCall
    <3> QED
      BY <3>1, <3>2, <3>3 DEF Go, WorkerOK, Worker
  <2> QED
    BY <2>1, <2>2
<1> QED
  BY <1>1, <1>2, <1>3 DEF AddFinalizer, WorkerOK

LEMMA ListType ==
  ASSUME TypeOK, List
  PROVE  TypeOK'
<1> USE DEF TypeOK, clusterVars, configVars, shootVars
<1>1. faults' \in 0..MaxFaults
  BY FaultsType DEF List
<1>2. CASE Retry
  BY <1>1, <1>2, EndType DEF List, WorkerOK
<1>3. CASE ~Retry
  <2> DEFINE mine == {k \in Unwanted : content[k] # None /\ w.c \in owners[k]}
             r == [w EXCEPT !.drop = mine,
                     !.listed = [k \in Configs |-> IF k \in mine THEN owners[k] ELSE {}]]
  <2>1. Go(Dropping(r))
    BY <1>3 DEF List
  <2>2. mine \in SUBSET Configs
    BY DEF Unwanted
  <2>3. r \in Worker /\ r.pc = w.pc /\ r.c = w.c /\ r.pc \in {"list", "listall"}
    BY <2>2 DEF List, Worker
  <2> HIDE DEF r
  <2>4. Dropping(r) \in Worker /\ Dropping(r).c = w.c /\ Dropping(r).i = r.i
        /\ Dropping(r).refs = r.refs
        /\ Dropping(r).pc \in {"drop", "dropall", "release", NextFetch(r)}
    BY <2>3, DroppingIs
  <2>5. WorkerOK' /\ queue' = queue
    BY <2>1, <2>3, <2>4, NextFetchIs DEF Go, WorkerOK, List
  <2> QED
    BY <1>1, <2>5 DEF List, WorkerOK
<1> QED
  BY <1>2, <1>3

LEMMA DropOwnerType ==
  ASSUME TypeOK, DropOwner
  PROVE  TypeOK'
<1> USE DEF TypeOK, clusterVars, configVars, shootVars
<1>1. faults' \in 0..MaxFaults
  BY FaultsType DEF DropOwner
<1>2. owners' \in [Configs -> SUBSET Clusters]
  <2>1. PICK k \in w.drop : owners' = [owners EXCEPT ![k] = w.listed[k] \ {w.c}] \/ UNCHANGED owners
    BY DEF DropOwner
  <2>2. k \in Configs /\ w.listed[k] \ {w.c} \in SUBSET Clusters
    BY DEF Worker
  <2> QED
    BY <2>1, <2>2
<1>3. CASE Retry
  BY <1>1, <1>2, <1>3, EndType DEF DropOwner, WorkerOK
<1>4. CASE ~Retry
  <2>1. PICK k \in w.drop : Go(Dropping([w EXCEPT !.drop = @ \ {k}]))
    BY <1>4 DEF DropOwner
  <2> DEFINE r == [w EXCEPT !.drop = @ \ {k}]
  <2>2. r \in Worker /\ r.pc = w.pc /\ r.c = w.c /\ r.pc \in {"drop", "dropall"}
    BY DEF DropOwner, Worker
  <2>3. Go(Dropping(r))
    BY <2>1
  <2> HIDE DEF r
  <2>4. Dropping(r) \in Worker /\ Dropping(r).c = w.c /\ Dropping(r).i = r.i
        /\ Dropping(r).refs = r.refs
        /\ Dropping(r).pc \in {"drop", "dropall", "release", NextFetch(r)}
    BY <2>2, DroppingIs
  <2>5. WorkerOK' /\ queue' = queue
    BY <2>2, <2>3, <2>4, NextFetchIs DEF Go, WorkerOK, DropOwner
  <2> QED
    BY <1>1, <1>2, <2>5 DEF DropOwner, WorkerOK
<1> QED
  BY <1>3, <1>4

LEMMA FetchType ==
  ASSUME TypeOK, Fetch
  PROVE  TypeOK'
<1> USE DEF TypeOK, clusterVars, configVars, shootVars
<1> DEFINE k == w.refs[w.i]
<1>1. faults' \in 0..MaxFaults
  BY FaultsType DEF Fetch
<1>2. w.pc = "fetch" /\ k \in Configs /\ w.c \in Clusters
  BY DEF Fetch, Worker
<1>3. CASE Retry
  BY <1>1, <1>2, <1>3, EndType DEF Fetch, WorkerOK
<1>4. CASE content[k] # None /\ Go(Fetched(content[k]))
  <2>1. content[k] \in Extensions
    BY <1>2, <1>4
  <2>2. WorkerOK' /\ queue' \in SUBSET Clusters
    BY <1>2, <1>4, <2>1, FetchedType
  <2> QED
    BY <1>1, <2>2 DEF Fetch, WorkerOK
<1>5. CASE Go([w EXCEPT !.pc = "own", !.listed[k] = owners[k]])
  <2> DEFINE l == [w.listed EXCEPT ![k] = owners[k]]
  <2>1. l \in [Configs -> SUBSET Clusters]
    BY <1>2 DEF Worker
  <2>2. w' = [w EXCEPT !.pc = "own", !.listed = l] /\ queue' = queue
    BY <1>5 DEF Go, Worker
  <2> HIDE DEF l
  <2>3. WorkerOK'
    BY <1>2, <2>1, <2>2 DEF Worker, WorkerOK
  <2> QED
    BY <1>1, <2>2, <2>3 DEF Fetch, WorkerOK
<1> QED
  BY <1>3, <1>4, <1>5 DEF Fetch

LEMMA AddOwnerType ==
  ASSUME TypeOK, AddOwner
  PROVE  TypeOK'
<1> USE DEF TypeOK, clusterVars, configVars, shootVars
<1> DEFINE k == w.refs[w.i]
<1>1. faults' \in 0..MaxFaults
  BY FaultsType DEF AddOwner
<1>2. w.pc = "own" /\ k \in Configs /\ w.c \in Clusters /\ w.listed[k] \cup {w.c} \in SUBSET Clusters
  BY DEF AddOwner, Worker
<1>3. owners' \in [Configs -> SUBSET Clusters]
  BY <1>2 DEF AddOwner
<1>4. CASE Retry
  BY <1>1, <1>2, <1>3, <1>4, EndType DEF AddOwner, WorkerOK
<1>5. CASE content[k] # None /\ Go(Fetched(content[k]))
  <2>1. content[k] \in Extensions
    BY <1>2, <1>5
  <2>2. WorkerOK' /\ queue' \in SUBSET Clusters
    BY <1>2, <1>5, <2>1, FetchedType
  <2> QED
    BY <1>1, <1>3, <2>2 DEF AddOwner, WorkerOK
<1> QED
  BY <1>4, <1>5 DEF AddOwner

LEMMA UpdateShootFieldsType ==
  ASSUME TypeOK
  PROVE  UpdateShootFields \in Extensions
<1>1. Merged(w.seen) \in Extensions
  BY ConstantsAssumption DEF Merged, TypeOK, Worker
<1>2. Overlay(Merged(w.seen), Enforced) \in Extensions
  BY <1>1, ExtensionsType, ConstantsAssumption
<1> QED
  BY <1>2, ExtensionsType DEF UpdateShootFields, TypeOK, Worker

LEMMA WriteType ==
  ASSUME TypeOK, WriteHash \/ WriteShoot
  PROVE  TypeOK'
<1> USE DEF TypeOK, clusterVars, configVars, shootVars
<1>1. faults' \in 0..MaxFaults
  BY FaultsType DEF WriteHash, WriteShoot
<1>2. w.pc \in {"hash", "write"} /\ w.c \in Clusters /\ w.refs \in Seq(Configs)
  BY DEF WriteHash, WriteShoot, Worker
<1>3. hash' \in [Clusters -> Seq(Configs)]
  BY <1>2 DEF WriteHash, WriteShoot
<1>4. shoot' \in [Clusters -> Extensions \cup {None}]
  BY <1>2, UpdateShootFieldsType DEF WriteHash, WriteShoot
<1>5. WorkerOK' /\ queue' \in SUBSET Clusters
  <2>1. CASE Done \/ Retry
    BY <1>2, <2>1, EndType
  <2>2. CASE Go([w EXCEPT !.pc = "write"])
    BY <1>2, <2>2 DEF Go, WorkerOK, Worker
  <2> QED
    BY <2>1, <2>2 DEF WriteHash, WriteShoot
<1> QED
  BY <1>1, <1>3, <1>4, <1>5 DEF WriteHash, WriteShoot, WorkerOK

LEMMA GoneType ==
  ASSUME TypeOK, NEW c \in Clusters, Gone(c)
  PROVE  /\ stage' \in [Clusters -> {"absent", "live", "deleting"}]
         /\ held' \in SUBSET Clusters
         /\ refs' \in [Clusters -> Seq(Configs)] /\ hash' \in [Clusters -> Seq(Configs)]
         /\ content' \in [Configs -> Extensions \cup {None}]
         /\ owners' \in [Configs -> SUBSET Clusters]
<1>1. <<>> \in Seq(Configs)
  OBVIOUS
<1> QED
  BY <1>1 DEF TypeOK, Gone

LEMMA DeletionType ==
  ASSUME TypeOK, DeleteShoot \/ Release
  PROVE  TypeOK'
<1> USE DEF TypeOK, clusterVars, configVars, shootVars
<1>1. faults' \in 0..MaxFaults
  BY FaultsType DEF DeleteShoot, Release
<1>2. w.pc \in {"deletion", "release"} /\ w.c \in Clusters
  BY DEF DeleteShoot, Release
<1>3. leaving' \in SUBSET Clusters
  BY DEF DeleteShoot, Release
<1>4. WorkerOK' /\ queue' \in SUBSET Clusters
  <2>1. CASE Done \/ Retry
    BY <1>2, <2>1, EndType
  <2>2. CASE Go([w EXCEPT !.pc = "listall"])
    BY <1>2, <2>2 DEF Go, WorkerOK, Worker
  <2> QED
    BY <2>1, <2>2 DEF DeleteShoot, Release
<1>5. CASE DeleteShoot
  BY <1>1, <1>3, <1>4, <1>5 DEF DeleteShoot, WorkerOK
<1>6. CASE Release
  BY <1>1, <1>2, <1>3, <1>4, <1>6, GoneType DEF Release, WorkerOK
<1> QED
  BY <1>5, <1>6

LEMMA StartType ==
  ASSUME TypeOK, NEW c \in Clusters, Start(c)
  PROVE  TypeOK'
<1> USE DEF TypeOK, clusterVars, configVars, shootVars
<1> DEFINE b == Begin(c)
           next == IF c \in held THEN FirstCall(b) ELSE "finalizer"
<1>1. faults' \in 0..MaxFaults /\ queue' \in SUBSET Clusters
  BY FaultsType DEF Start
<1>2. /\ b \in Worker /\ b.c = c /\ b.i = 1 /\ next \in {"list", "fetch", "write", "finalizer"}
      /\ next = "fetch" => 1 \in DOMAIN b.refs
  BY BeginIs
<1>3. w' = w \/ w' = [b EXCEPT !.pc = next] \/ w' = [b EXCEPT !.pc = "deletion"]
  BY DEF Start
<1> HIDE DEF b, next
<1>4. WorkerOK'
  <2>1. CASE w' = w
    BY <2>1 DEF WorkerOK
  <2>2. ASSUME NEW pc \in {"list", "fetch", "write", "finalizer", "deletion"},
               w' = [b EXCEPT !.pc = pc], pc = "fetch" => 1 \in DOMAIN b.refs
        PROVE  WorkerOK'
    <3>1. w' \in Worker /\ w'.pc = pc /\ w'.c = c /\ w'.i = 1 /\ w'.refs = b.refs
      BY <1>2, <2>2 DEF Worker
    <3> QED
      BY <2>2, <3>1 DEF WorkerOK
  <2> QED
    BY <1>2, <1>3, <2>1, <2>2
<1> QED
  BY <1>1, <1>4 DEF Start, WorkerOK

\* What users and Gardener do has its type.
LEMMA UsersType ==
  ASSUME TypeOK, Users \/ \E c \in Clusters : ShootGone(c)
  PROVE  TypeOK'
<1> USE DEF TypeOK, clusterVars, configVars, shootVars
<1>1. ASSUME NEW c \in Clusters, ShootGone(c) PROVE TypeOK'
  BY <1>1 DEF ShootGone
<1>2. ASSUME NEW c \in Clusters, CreateCluster(c) \/ ChangeRefs(c) PROVE TypeOK'
  <2>1. PICK l \in RefLists : refs' = [refs EXCEPT ![c] = l]
    BY <1>2 DEF CreateCluster, ChangeRefs
  <2>2. refs' \in [Clusters -> Seq(Configs)]
    BY <2>1, ConstantsAssumption
  <2>3. stage' \in [Clusters -> {"absent", "live", "deleting"}] /\ queue' \in SUBSET Clusters
    BY <1>2 DEF CreateCluster, ChangeRefs
  <2> QED
    BY <1>2, <2>2, <2>3 DEF CreateCluster, ChangeRefs
<1>3. ASSUME NEW c \in Clusters, DeleteCluster(c) PROVE TypeOK'
  BY <1>3, GoneType DEF DeleteCluster
<1>4. ASSUME NEW k \in Configs, CreateConfig(k) \/ ChangeConfig(k) \/ DeleteConfig(k)
      PROVE  TypeOK'
  <2>1. ContentsOf[k] \subseteq Extensions
    BY ConstantsAssumption
  <2>2. owners[k] \subseteq Clusters
    OBVIOUS
  <2> QED
    BY <1>4, <2>1, <2>2 DEF CreateConfig, ChangeConfig, DeleteConfig, ConfigEvent
<1> QED
  BY <1>1, <1>2, <1>3, <1>4 DEF Users

LEMMA TypeNext ==
  ASSUME TypeOK, [Next]_vars
  PROVE  TypeOK'
<1>1. CASE Crash
  BY <1>1, FaultsType, IdleIs DEF Crash, TypeOK, clusterVars, configVars, shootVars
<1>2. CASE UNCHANGED vars
  BY <1>2 DEF vars, TypeOK, clusterVars, configVars, shootVars
<1> QED
  BY <1>1, <1>2, StartType, UsersType, AddFinalizerType, ListType, DropOwnerType, FetchType,
     AddOwnerType, WriteType, DeletionType DEF Next, Step

\* Every variable has its type in every reachable state, and a worker about to
\* read or patch a ClusterConfig has a reference to it.
THEOREM ConfigsTypes == Spec => []TypeOK
<1>1. Init => TypeOK
  <2>1. <<>> \in Seq(Configs)
    OBVIOUS
  <2> QED
    BY <2>1, ConstantsAssumption, IdleIs DEF Init, TypeOK
<1> QED
  BY <1>1, TypeNext, PTL DEF Spec

-------------------------------------------------------------------------------
(***************************************************************************)
(* Owners hold the finalizer, and none of them is forgotten.               *)
(***************************************************************************)
\* The part of OwnersAreHeld that is not about the worker.
StateIsHeld ==
  /\ \A c \in Clusters : /\ stage[c] = "deleting" => c \in held
                         /\ stage[c] = "absent" => c \notin held
  /\ \A k \in Configs : owners[k] \subseteq held /\ (content[k] = None => owners[k] = {})

LEMMA IdleOwnership ==
  ASSUME StateIsHeld', w' = Idle
  PROVE  OwnersAreHeld' /\ NoOwnerForgotten'
<1>1. /\ w'.pc = "idle" /\ w'.drop = {} /\ w'.listed = Unlisted
  BY IdleIs
<1> QED
  BY <1>1 DEF StateIsHeld, OwnersAreHeld, NoOwnerForgotten, Unlisted, Referencing, Releasing

\* A worker that has nothing to drop and no owners to patch.
LEMMA CleanOwnership ==
  ASSUME StateIsHeld', w'.drop = {}, \A k \in Configs : w'.listed[k] \subseteq held',
         w'.pc \notin {"drop", "dropall", "own"},
         w'.pc \in {"list", "fetch", "hash", "write"} => w'.c \in held',
         w'.pc \in {"deletion", "listall", "release"} => stage'[w'.c] = "deleting",
         w'.pc = "release" => \A k \in Configs : w'.c \notin owners'[k]
  PROVE  OwnersAreHeld' /\ NoOwnerForgotten'
  BY DEF StateIsHeld, OwnersAreHeld, NoOwnerForgotten, Referencing, Releasing

LEMMA StartOwnership ==
  ASSUME TypeOK, OwnersAreHeld, NoOwnerForgotten, NEW c \in Clusters, Start(c)
  PROVE  OwnersAreHeld' /\ NoOwnerForgotten'
<1> USE DEF TypeOK, clusterVars, configVars, shootVars
<1> DEFINE b == Begin(c)
           next == IF c \in held THEN FirstCall(b) ELSE "finalizer"
<1>1. StateIsHeld' /\ UNCHANGED <<stage, held, owners, content>>
  BY DEF Start, OwnersAreHeld, StateIsHeld
<1>2. /\ b \in Worker /\ b.c = c /\ b.drop = {} /\ \A k \in Configs : b.listed[k] = {}
      /\ next \in {"list", "fetch", "write", "finalizer"}
      /\ next # "finalizer" => c \in held
  BY BeginIs DEF Unlisted
<1>3. \/ w' = w \/ w' = [b EXCEPT !.pc = next]
      \/ w' = [b EXCEPT !.pc = "deletion"] /\ stage[c] = "deleting"
  BY DEF Start
<1> HIDE DEF b, next
<1>4. CASE w' = w
  BY <1>1, <1>4 DEF OwnersAreHeld, NoOwnerForgotten
<1>5. CASE w' = [b EXCEPT !.pc = next]
  <2>1. w'.drop = {} /\ w'.listed = b.listed /\ w'.c = c /\ w'.pc = next
    BY <1>2, <1>5 DEF Worker
  <2> QED
    BY <1>1, <1>2, <2>1, CleanOwnership
<1>6. CASE w' = [b EXCEPT !.pc = "deletion"] /\ stage[c] = "deleting"
  <2>1. w'.drop = {} /\ w'.listed = b.listed /\ w'.c = c /\ w'.pc = "deletion"
    BY <1>2, <1>6 DEF Worker
  <2> QED
    BY <1>1, <1>2, <1>6, <2>1, CleanOwnership
<1> QED
  BY <1>3, <1>4, <1>5, <1>6

LEMMA EndIs ==
  ASSUME Done \/ Retry
  PROVE  w' = Idle
  BY DEF Done, Retry

LEMMA AddFinalizerOwnership ==
  ASSUME TypeOK, OwnersAreHeld, NoOwnerForgotten, AddFinalizer
  PROVE  OwnersAreHeld' /\ NoOwnerForgotten'
<1> USE DEF TypeOK, configVars, shootVars
<1>1. /\ w.pc = "finalizer" /\ w.c \in Clusters /\ w.drop = {}
      /\ \A k \in Configs : w.listed[k] \subseteq held
      /\ UNCHANGED <<stage, owners, content>>
  BY DEF AddFinalizer, OwnersAreHeld, NoOwnerForgotten
<1>2. held' = held \/ (held' = held \cup {w.c} /\ stage[w.c] = "live")
  BY DEF AddFinalizer
<1>3. StateIsHeld'
  BY <1>1, <1>2 DEF OwnersAreHeld, StateIsHeld
<1>4. CASE Retry
  BY <1>3, <1>4, EndIs, IdleOwnership
<1>5. CASE ~Retry
  <2> DEFINE r == [w EXCEPT !.refs = refs[w.c], !.hash = hash[w.c]]
  <2>1. Go([r EXCEPT !.pc = FirstCall(r)]) /\ held' = held \cup {w.c}
    BY <1>5 DEF AddFinalizer
  <2>2. r \in Worker /\ r.c = w.c /\ r.drop = w.drop /\ r.listed = w.listed
    BY <1>1 DEF Worker
  <2> HIDE DEF r
  <2>3. FirstCall(r) \in {"list", "fetch", "hash", "write"}
    BY <2>2, NextFetchIs DEF FirstCall
  <2>4. w'.pc = FirstCall(r) /\ w'.c = w.c /\ w'.drop = w.drop /\ w'.listed = w.listed
    BY <2>1, <2>2 DEF Go, Worker
  <2> QED
    BY <1>1, <1>3, <2>1, <2>3, <2>4, CleanOwnership
<1> QED
  BY <1>4, <1>5

LEMMA ListOwnership ==
  ASSUME TypeOK, OwnersAreHeld, NoOwnerForgotten, List
  PROVE  OwnersAreHeld' /\ NoOwnerForgotten'
<1> USE DEF TypeOK, clusterVars, configVars, shootVars
<1>1. /\ w.pc \in {"list", "listall"} /\ w.c \in Clusters
      /\ UNCHANGED <<stage, held, owners, content>>
      /\ w.pc = "list" => w.c \in held
      /\ w.pc = "listall" => stage[w.c] = "deleting"
  BY DEF List, OwnersAreHeld, Referencing, Releasing
<1>2. StateIsHeld'
  BY <1>1 DEF OwnersAreHeld, StateIsHeld
<1>3. CASE Retry
  BY <1>2, <1>3, EndIs, IdleOwnership
<1>4. CASE ~Retry
  <2> DEFINE mine == {k \in Unwanted : content[k] # None /\ w.c \in owners[k]}
             l == [k \in Configs |-> IF k \in mine THEN owners[k] ELSE {}]
             r == [w EXCEPT !.drop = mine, !.listed = l]
  <2>1. w' = Dropping(r)
    BY <1>4 DEF List, Go
  <2>2. mine \in SUBSET Configs /\ l \in [Configs -> SUBSET Clusters]
    BY DEF Unwanted
  <2>3. \A k \in Configs : l[k] \subseteq held' /\ (k \in mine => owners'[k] \subseteq l[k])
    BY <1>1, <1>2 DEF StateIsHeld
  <2>4. w.pc = "listall" => \A k \in Configs : w.c \in owners'[k] => k \in mine
    BY <1>1, <1>2 DEF StateIsHeld, Unwanted
  <2> HIDE DEF mine, l
  <2>5. r \in Worker /\ r.pc = w.pc /\ r.c = w.c /\ r.drop = mine /\ r.listed = l
    BY <2>2 DEF Worker
  <2> HIDE DEF r
  <2>6. CASE mine # {}
    <3>1. /\ w'.listed = l /\ w'.c = w.c /\ w'.drop = mine
          /\ w.pc = "list" => w'.pc = "drop"
          /\ w.pc = "listall" => w'.pc = "dropall"
      BY <1>1, <2>1, <2>5, <2>6, DroppingOn
    <3> QED
      BY <1>1, <1>2, <2>3, <2>4, <3>1
      DEF OwnersAreHeld, NoOwnerForgotten, StateIsHeld, Referencing, Releasing
  <2>7. CASE mine = {}
    <3>1. /\ w'.c = w.c /\ w'.drop = {} /\ \A k \in Configs : w'.listed[k] = {}
          /\ w.pc = "list" => w'.pc \in {"fetch", "hash", "write"}
          /\ w.pc = "listall" => w'.pc = "release"
      BY <1>1, <2>1, <2>5, <2>7, DroppingDone
    <3> QED
      BY <1>1, <1>2, <2>4, <2>7, <3>1, CleanOwnership
  <2> QED
    BY <2>6, <2>7
<1> QED
  BY <1>3, <1>4

LEMMA DropOwnerOwnership ==
  ASSUME TypeOK, OwnersAreHeld, NoOwnerForgotten, DropOwner
  PROVE  OwnersAreHeld' /\ NoOwnerForgotten'
<1> USE DEF TypeOK, clusterVars, configVars, shootVars
<1>1. /\ w.pc \in {"drop", "dropall"} /\ w.c \in Clusters /\ w.drop \in SUBSET Configs
      /\ UNCHANGED <<stage, held, content>>
      /\ \A k \in Configs : w.listed[k] \subseteq held
      /\ w.pc = "drop" => w.c \in held
      /\ w.pc = "dropall" => stage[w.c] = "deleting"
  BY DEF DropOwner, OwnersAreHeld, Referencing, Releasing, Worker
<1>2. PICK k \in w.drop :
        \/ /\ content[k] # None
           /\ owners' = [owners EXCEPT ![k] = w.listed[k] \ {w.c}]
           /\ Go(Dropping([w EXCEPT !.drop = @ \ {k}])) \/ Retry
        \/ Retry /\ UNCHANGED owners
  BY DEF DropOwner
<1>3. StateIsHeld'
  <2>1. \A q \in Configs : owners'[q] = owners[q] \/ (q = k /\ owners'[q] = w.listed[k] \ {w.c})
    BY <1>1, <1>2
  <2> QED
    BY <1>1, <1>2, <2>1 DEF OwnersAreHeld, StateIsHeld
<1>4. CASE Retry
  BY <1>3, <1>4, EndIs, IdleOwnership
<1>5. CASE ~Retry
  <2> DEFINE r == [w EXCEPT !.drop = @ \ {k}]
  <2>1. owners' = [owners EXCEPT ![k] = w.listed[k] \ {w.c}] /\ w' = Dropping(r)
    BY <1>2, <1>5 DEF Go
  <2>2. /\ r \in Worker /\ r.pc = w.pc /\ r.c = w.c /\ r.drop = w.drop \ {k}
        /\ r.listed = w.listed
    BY DEF Worker
  <2> HIDE DEF r
  <2>3. \A q \in Configs : q \in r.drop => owners'[q] \subseteq w.listed[q]
    BY <1>1, <2>1, <2>2 DEF NoOwnerForgotten
  <2>4. w.pc = "dropall" => \A q \in Configs : w.c \in owners'[q] => q \in r.drop
    BY <1>1, <2>1, <2>2 DEF NoOwnerForgotten
  <2>5. CASE r.drop # {}
    <3>1. /\ w'.listed = w.listed /\ w'.c = w.c /\ w'.drop = r.drop
          /\ w'.pc = w.pc
      BY <1>1, <2>1, <2>2, <2>5, DroppingOn
    <3> QED
      BY <1>1, <1>3, <2>3, <2>4, <3>1
      DEF OwnersAreHeld, NoOwnerForgotten, StateIsHeld, Referencing, Releasing
  <2>6. CASE r.drop = {}
    <3>1. /\ w'.c = w.c /\ w'.drop = {} /\ \A q \in Configs : w'.listed[q] = {}
          /\ w.pc = "drop" => w'.pc \in {"fetch", "hash", "write"}
          /\ w.pc = "dropall" => w'.pc = "release"
      BY <1>1, <2>1, <2>2, <2>6, DroppingDone
    <3> QED
      BY <1>1, <1>3, <2>4, <2>6, <3>1, CleanOwnership
  <2> QED
    BY <2>5, <2>6
<1> QED
  BY <1>4, <1>5

LEMMA FetchOwnership ==
  ASSUME TypeOK, OwnersAreHeld, NoOwnerForgotten, Fetch
  PROVE  OwnersAreHeld' /\ NoOwnerForgotten'
<1> USE DEF TypeOK, clusterVars, configVars, shootVars
<1> DEFINE k == w.refs[w.i]
<1>1. /\ w.pc = "fetch" /\ k \in Configs /\ w.c \in Clusters /\ w.drop = {} /\ w.c \in held
      /\ UNCHANGED <<stage, held, owners, content>>
  BY DEF Fetch, Worker, OwnersAreHeld, NoOwnerForgotten, Referencing
<1>2. StateIsHeld'
  BY <1>1 DEF OwnersAreHeld, StateIsHeld
<1>3. CASE Retry
  BY <1>2, <1>3, EndIs, IdleOwnership
<1>4. CASE content[k] # None /\ Go(Fetched(content[k]))
  <2>1. content[k] \in Extensions
    BY <1>1, <1>4
  <2>2. /\ w'.pc \in {"fetch", "hash", "write"} /\ w'.c = w.c /\ w'.drop = {}
        /\ w'.listed = Unlisted
    BY <1>1, <1>4, <2>1, FetchedIs DEF Go
  <2> QED
    BY <1>1, <1>2, <2>2, CleanOwnership DEF Unlisted
<1>5. CASE Go([w EXCEPT !.pc = "own", !.listed[k] = owners[k]])
  <2> DEFINE l == [w.listed EXCEPT ![k] = owners[k]]
  <2>1. l \in [Configs -> SUBSET Clusters] /\ l[k] = owners[k]
    BY <1>1 DEF Worker
  <2>2. \A q \in Configs : l[q] \subseteq held'
    BY <1>1, <1>2 DEF OwnersAreHeld, StateIsHeld, Worker
  <2>3. w' = [w EXCEPT !.pc = "own", !.listed = l]
    BY <1>5 DEF Go, Worker
  <2> HIDE DEF l
  <2>4. /\ w'.pc = "own" /\ w'.c = w.c /\ w'.drop = {} /\ w'.listed = l
        /\ w'.refs[w'.i] = k
    BY <1>1, <2>3 DEF Worker
  <2> QED
    BY <1>1, <1>2, <2>1, <2>2, <2>4
    DEF OwnersAreHeld, NoOwnerForgotten, StateIsHeld, Referencing, Releasing
<1> QED
  BY <1>3, <1>4, <1>5 DEF Fetch

LEMMA AddOwnerOwnership ==
  ASSUME TypeOK, OwnersAreHeld, NoOwnerForgotten, AddOwner
  PROVE  OwnersAreHeld' /\ NoOwnerForgotten'
<1> USE DEF TypeOK, clusterVars, configVars, shootVars
<1> DEFINE k == w.refs[w.i]
<1>1. /\ w.pc = "own" /\ k \in Configs /\ w.c \in Clusters /\ w.drop = {} /\ w.c \in held
      /\ UNCHANGED <<stage, held, content>>
  BY DEF AddOwner, Worker, OwnersAreHeld, NoOwnerForgotten, Referencing
<1>2. \/ UNCHANGED owners
      \/ content[k] # None /\ owners' = [owners EXCEPT ![k] = w.listed[k] \cup {w.c}]
  BY DEF AddOwner
<1>3. StateIsHeld'
  <2>1. CASE UNCHANGED owners
    BY <1>1, <2>1 DEF OwnersAreHeld, StateIsHeld
  <2>2. CASE content[k] # None /\ owners' = [owners EXCEPT ![k] = w.listed[k] \cup {w.c}]
    <3>1. /\ \A q \in Configs : q # k => owners'[q] = owners[q]
          /\ owners'[k] = w.listed[k] \cup {w.c}
      BY <1>1, <2>2
    <3> HIDE DEF k
    <3> QED
      BY <1>1, <2>2, <3>1 DEF OwnersAreHeld, StateIsHeld
  <2> QED
    BY <1>2, <2>1, <2>2
<1>4. CASE Retry
  BY <1>3, <1>4, EndIs, IdleOwnership
<1>5. CASE content[k] # None /\ Go(Fetched(content[k]))
  <2>1. content[k] \in Extensions
    BY <1>1, <1>5
  <2>2. /\ w'.pc \in {"fetch", "hash", "write"} /\ w'.c = w.c /\ w'.drop = {}
        /\ w'.listed = Unlisted
    BY <1>1, <1>5, <2>1, FetchedIs DEF Go
  <2> QED
    BY <1>1, <1>3, <2>2, CleanOwnership DEF Unlisted
<1> QED
  BY <1>4, <1>5 DEF AddOwner

LEMMA WriteOwnership ==
  ASSUME TypeOK, OwnersAreHeld, NoOwnerForgotten, WriteHash \/ WriteShoot
  PROVE  OwnersAreHeld' /\ NoOwnerForgotten'
<1> USE DEF clusterVars, configVars, shootVars
<1>1. /\ w.pc \in {"hash", "write"} /\ w.drop = {} /\ w.c \in held
      /\ UNCHANGED <<stage, held, owners, content>>
      /\ \A k \in Configs : w.listed[k] \subseteq held
  BY DEF WriteHash, WriteShoot, OwnersAreHeld, NoOwnerForgotten, Referencing
<1>2. StateIsHeld'
  BY <1>1 DEF OwnersAreHeld, StateIsHeld
<1>3. CASE Done \/ Retry
  BY <1>2, <1>3, EndIs, IdleOwnership
<1>4. CASE Go([w EXCEPT !.pc = "write"])
  <2>1. w'.pc = "write" /\ w'.c = w.c /\ w'.drop = w.drop /\ w'.listed = w.listed
    BY <1>4 DEF Go, Worker, TypeOK
  <2> QED
    BY <1>1, <1>2, <2>1, CleanOwnership
<1> QED
  BY <1>3, <1>4 DEF WriteHash, WriteShoot

\* When a Cluster goes that is owner of nothing, nothing else is lost.
LEMMA GoneOwnership ==
  ASSUME TypeOK, StateIsHeld, NEW c \in Clusters, Gone(c), \A k \in Configs : c \notin owners[k]
  PROVE  StateIsHeld' /\ content' = content /\ owners' = owners
<1>1. content' = content /\ owners' = owners
  BY DEF Gone, TypeOK
<1>2. held' = held \ {c} /\ stage' = [stage EXCEPT ![c] = "absent"]
  BY DEF Gone
<1> QED
  BY <1>1, <1>2 DEF StateIsHeld, TypeOK

LEMMA DeletionOwnership ==
  ASSUME TypeOK, OwnersAreHeld, NoOwnerForgotten, DeleteShoot \/ Release
  PROVE  OwnersAreHeld' /\ NoOwnerForgotten'
<1> USE DEF clusterVars, configVars, shootVars
<1>1. /\ w.pc \in {"deletion", "release"} /\ w.drop = {} /\ w.c \in Clusters
      /\ stage[w.c] = "deleting" /\ StateIsHeld
      /\ \A k \in Configs : w.listed[k] \subseteq held
      /\ w.pc = "release" => \A k \in Configs : w.c \notin owners[k]
  BY DEF DeleteShoot, Release, OwnersAreHeld, StateIsHeld, NoOwnerForgotten, Releasing, TypeOK
<1>2. CASE DeleteShoot
  <2>1. StateIsHeld' /\ UNCHANGED <<stage, held, owners, content>>
    BY <1>1, <1>2 DEF DeleteShoot, StateIsHeld
  <2>2. CASE Done \/ Retry
    BY <2>1, <2>2, EndIs, IdleOwnership
  <2>3. CASE Go([w EXCEPT !.pc = "listall"])
    <3>1. w'.pc = "listall" /\ w'.c = w.c /\ w'.drop = w.drop /\ w'.listed = w.listed
      BY <2>3 DEF Go, Worker, TypeOK
    <3> QED
      BY <1>1, <2>1, <3>1, CleanOwnership
  <2> QED
    BY <1>2, <2>2, <2>3 DEF DeleteShoot
<1>3. CASE Release
  <2>1. StateIsHeld'
    <3>1. CASE Gone(w.c)
      BY <1>1, <1>3, <3>1, GoneOwnership DEF Release
    <3>2. CASE UNCHANGED <<clusterVars, configVars>>
      BY <1>1, <3>2 DEF StateIsHeld
    <3> QED
      BY <1>3, <3>1, <3>2 DEF Release
  <2>2. Done \/ Retry
    BY <1>3 DEF Release
  <2> QED
    BY <2>1, <2>2, EndIs, IdleOwnership
<1> QED
  BY <1>2, <1>3

LEMMA UsersOwnership ==
  ASSUME TypeOK, OwnersAreHeld, NoOwnerForgotten, Users \/ \E c \in Clusters : ShootGone(c)
  PROVE  OwnersAreHeld' /\ NoOwnerForgotten'
<1> USE DEF clusterVars, configVars, shootVars
<1>1. /\ w' = w
      /\ w.pc # "idle" => w.c \in Clusters
      /\ w.pc = "own" => w.refs[w.i] \in Configs
  BY DEF Users, CreateCluster, ChangeRefs, DeleteCluster, CreateConfig, ChangeConfig, DeleteConfig,
         ShootGone, TypeOK, Worker
<1>2. CASE /\ UNCHANGED held
           /\ \A k \in Configs : owners'[k] = owners[k] \/ owners'[k] = {}
           /\ \A k \in Configs : content'[k] = None => owners'[k] = {}
           /\ \A c \in Clusters : \/ stage'[c] = stage[c]
                                  \/ stage[c] = "absent" /\ stage'[c] = "live"
                                  \/ stage'[c] = "deleting" /\ c \in held
  <2>1. StateIsHeld'
    BY <1>2 DEF OwnersAreHeld, StateIsHeld
  <2>2. w.pc \in Releasing => stage'[w.c] = "deleting"
    BY <1>1, <1>2 DEF OwnersAreHeld, Releasing
  <2> QED
    BY <1>1, <1>2, <2>1, <2>2 DEF OwnersAreHeld, NoOwnerForgotten, StateIsHeld, Releasing, Referencing
<1>3. ASSUME NEW c \in Clusters, ShootGone(c) \/ CreateCluster(c) \/ ChangeRefs(c)
      PROVE  OwnersAreHeld' /\ NoOwnerForgotten'
  BY <1>2, <1>3 DEF ShootGone, CreateCluster, ChangeRefs, TypeOK, OwnersAreHeld
<1>4. ASSUME NEW k \in Configs, CreateConfig(k) \/ ChangeConfig(k) \/ DeleteConfig(k)
      PROVE  OwnersAreHeld' /\ NoOwnerForgotten'
  <2>1. \A x \in ContentsOf[k] : x # None
    BY ExtensionsType, ConstantsAssumption
  <2> QED
    BY <1>2, <1>4, <2>1
    DEF CreateConfig, ChangeConfig, DeleteConfig, TypeOK, OwnersAreHeld
<1>5. ASSUME NEW c \in Clusters, DeleteCluster(c)
      PROVE  OwnersAreHeld' /\ NoOwnerForgotten'
  <2>1. CASE c \in held
    BY <1>2, <1>5, <2>1 DEF DeleteCluster, TypeOK, OwnersAreHeld
  <2>2. CASE c \notin held
    <3>1. StateIsHeld /\ Gone(c) /\ \A k \in Configs : c \notin owners[k] /\ c \notin w.listed[k]
      BY <1>5, <2>2 DEF DeleteCluster, OwnersAreHeld, StateIsHeld
    <3>2. StateIsHeld' /\ UNCHANGED <<content, owners>>
      BY <3>1, GoneOwnership
    <3>3. held' = held \ {c} /\ \A d \in Clusters \ {c} : stage'[d] = stage[d]
      BY <3>1 DEF Gone, TypeOK
    <3>4. /\ w.pc \in Referencing => w.c \in held'
          /\ w.pc \in Releasing => stage'[w.c] = "deleting"
      BY <1>1, <1>5, <2>2, <3>3 DEF OwnersAreHeld, Releasing, DeleteCluster
    <3> QED
      BY <1>1, <3>1, <3>2, <3>3, <3>4 DEF OwnersAreHeld, NoOwnerForgotten, StateIsHeld
  <2> QED
    BY <2>1, <2>2
<1> QED
  BY <1>3, <1>4, <1>5 DEF Users

LEMMA OwnershipNext ==
  ASSUME TypeOK, OwnersAreHeld, NoOwnerForgotten, [Next]_vars
  PROVE  OwnersAreHeld' /\ NoOwnerForgotten'
<1>1. CASE Crash
  <2>1. w' = Idle /\ StateIsHeld'
    BY <1>1 DEF Crash, OwnersAreHeld, StateIsHeld, clusterVars, configVars
  <2> QED
    BY <2>1, IdleOwnership
<1>2. CASE UNCHANGED vars
  BY <1>2 DEF vars, clusterVars, configVars, OwnersAreHeld, NoOwnerForgotten
<1> QED
  BY <1>1, <1>2, StartOwnership, UsersOwnership, AddFinalizerOwnership, ListOwnership,
     DropOwnerOwnership, FetchOwnership, AddOwnerOwnership, WriteOwnership, DeletionOwnership
  DEF Next, Step

LEMMA OwnershipInvariant == Spec => [](OwnersAreHeld /\ NoOwnerForgotten)
<1>1. Init => OwnersAreHeld /\ NoOwnerForgotten
  BY IdleIs DEF Init, OwnersAreHeld, NoOwnerForgotten, Unlisted, Referencing, Releasing
<1> QED
  BY <1>1, OwnershipNext, ConfigsTypes, PTL DEF Spec

\* No ClusterConfig is collected because a Cluster goes, whatever failed while its
\* owner references were written and whoever else referred to it.
THEOREM ConfigsAreNotCollected == Spec => ConfigsOutliveClusters
<1>1. ASSUME TypeOK, OwnersAreHeld, NoOwnerForgotten, [Next]_vars,
             NEW c \in Clusters, stage[c] # "absent", stage'[c] = "absent"
      PROVE  content' = content
  <2>1. CASE Release
    <3>1. w.c \in Clusters /\ StateIsHeld /\ \A k \in Configs : w.c \notin owners[k]
      BY <1>1, <2>1 DEF Release, TypeOK, OwnersAreHeld, StateIsHeld, NoOwnerForgotten
    <3> QED
      BY <1>1, <2>1, <3>1, GoneOwnership DEF Release, configVars
  <2>2. ASSUME NEW d \in Clusters, DeleteCluster(d) PROVE content' = content
    <3>1. CASE d \notin held
      <4>1. StateIsHeld /\ Gone(d) /\ \A k \in Configs : d \notin owners[k]
        BY <1>1, <2>2, <3>1 DEF DeleteCluster, OwnersAreHeld, StateIsHeld
      <4> QED
        BY <1>1, <4>1, GoneOwnership
    <3>2. CASE d \in held
      BY <2>2, <3>2 DEF DeleteCluster, configVars
    <3> QED
      BY <3>1, <3>2
  <2>3. CASE \/ AddFinalizer \/ List \/ DropOwner \/ Fetch \/ AddOwner \/ WriteHash \/ WriteShoot
             \/ DeleteShoot \/ Crash \/ UNCHANGED vars
    BY <1>1, <2>3 DEF AddFinalizer, List, DropOwner, Fetch, AddOwner, WriteHash, WriteShoot,
       DeleteShoot, Crash, vars, clusterVars
  <2>4. ASSUME NEW d \in Clusters, Start(d) \/ ShootGone(d) \/ CreateCluster(d) \/ ChangeRefs(d)
        PROVE  content' = content
    BY <2>4 DEF Start, ShootGone, CreateCluster, ChangeRefs, configVars
  <2>5. ASSUME NEW k \in Configs, CreateConfig(k) \/ ChangeConfig(k) \/ DeleteConfig(k)
        PROVE  content' = content
    BY <1>1, <2>5 DEF CreateConfig, ChangeConfig, DeleteConfig, clusterVars
  <2> QED
    BY <1>1, <2>1, <2>2, <2>3, <2>4, <2>5 DEF Next, Step, Users
<1>2. TypeOK /\ OwnersAreHeld /\ NoOwnerForgotten /\ [Next]_vars =>
        ((\E c \in Clusters : stage[c] # "absent" /\ stage'[c] = "absent") => content' = content)
  BY <1>1
<1> QED
  BY <1>2, OwnershipInvariant, ConfigsTypes, PTL DEF Spec, ConfigsOutliveClusters

-------------------------------------------------------------------------------
(***************************************************************************)
(* What references say of an extension.                                    *)
(***************************************************************************)
LEMMA SaysNothing ==
  ASSUME NEW f, NEW l, NEW e
  PROVE  Says(f, l, 0, e, None)
  BY DEF Says, Mentions

\* One reference more: it says what it mentions, and leaves the rest as it was.
LEMMA SaysNext ==
  ASSUME NEW f, NEW l, NEW n \in Nat, NEW e, NEW v, f[l[n + 1]] # None, Says(f, l, n, e, v)
  PROVE  Says(f, l, n + 1, e, IF f[l[n + 1]][e] # None THEN f[l[n + 1]][e] ELSE v)
<1>1. CASE f[l[n + 1]][e] # None
  <2>1. n + 1 \in Mentions(f, l, n + 1, e)
        /\ \A m \in Mentions(f, l, n + 1, e) : m <= n + 1
    BY <1>1 DEF Mentions
  <2> QED
    BY <1>1, <2>1 DEF Says
<1>2. CASE f[l[n + 1]][e] = None
  <2>1. Mentions(f, l, n, e) = Mentions(f, l, n + 1, e)
    BY <1>2 DEF Mentions
  <2> QED
    BY <1>2, <2>1 DEF Says
<1> QED
  BY <1>1, <1>2

\* Only the contents of the references count.
LEMMA SaysSame ==
  ASSUME NEW f, NEW g, NEW l, NEW n, NEW e, NEW v, \A j \in 1..n : f[l[j]] = g[l[j]],
         Says(f, l, n, e, v)
  PROVE  Says(g, l, n, e, v)
<1>1. Mentions(f, l, n, e) = Mentions(g, l, n, e)
  BY DEF Mentions
<1>2. \A j \in Mentions(f, l, n, e) : f[l[j]] = g[l[j]]
  BY DEF Mentions
<1> QED
  BY <1>1, <1>2 DEF Says

-------------------------------------------------------------------------------
(***************************************************************************)
(* What the worker has read, and what a Cluster at rest has.               *)
(***************************************************************************)
\* The content of a ClusterConfig counts for Cluster c only if c is an owner.
Undisturbed(c, k) ==
  c \in owners[k] => content'[k] = content[k] /\ c \in owners'[k]

\* SettledIsUpToDate, of one Cluster.
SettledOf(c) ==
  stage[c] = "live" /\ ~Pending(c) =>
    /\ hash[c] = refs[c]
    /\ shoot[c] # None
    /\ \A k \in Elems(refs[c]) : content[k] # None /\ c \in owners[k]
    /\ ShootDoesWhatIsSaid(c)

LEMMA SettledStays ==
  ASSUME TypeOK, NEW c \in Clusters, SettledOf(c), stage[c] = "live", ~Pending(c),
         refs'[c] = refs[c], hash'[c] = hash[c], shoot'[c] = shoot[c],
         \A k \in Configs : Undisturbed(c, k)
  PROVE  SettledOf(c)'
<1>1. \A j \in 1..Len(refs[c]) : refs[c][j] \in Elems(refs[c]) /\ refs[c][j] \in Configs
  BY DEF TypeOK, Elems
<1>2. \A k \in Elems(refs[c]) : k \in Configs /\ content[k] # None /\ c \in owners[k]
  BY DEF SettledOf, TypeOK, Elems
<1>3. \A k \in Elems(refs[c]) : content'[k] = content[k] /\ c \in owners'[k]
  BY <1>2 DEF Undisturbed
<1>4. ASSUME NEW e \in Exts, NEW v, Says(content, refs[c], Len(refs[c]), e, v)
      PROVE  Says(content', refs[c], Len(refs[c]), e, v)
  BY <1>1, <1>3, <1>4, SaysSame
<1>5. ShootDoesWhatIsSaid(c)'
  BY <1>4 DEF SettledOf, ShootDoesWhatIsSaid
<1> QED
  BY <1>2, <1>3, <1>5 DEF SettledOf

LEMMA ReadingStays ==
  ASSUME TypeOK, WorkerIsUpToDate, w' = w, queue \subseteq queue',
         \/ w.c \in queue'
         \/ /\ refs'[w.c] = refs[w.c] /\ hash'[w.c] = hash[w.c]
            /\ \A k \in Configs : Undisturbed(w.c, k)
  PROVE  WorkerIsUpToDate'
<1> SUFFICES ASSUME w.pc \in Referencing, w.c \notin queue'
             PROVE  /\ w.refs = refs'[w.c]
                    /\ hash'[w.c] = IF w.pc = "write" THEN w.refs ELSE w.hash
                    /\ \A j \in 1..(w.i - 1) :
                         content'[w.refs[j]] # None /\ w.c \in owners'[w.refs[j]]
                    /\ \A e \in Exts : Says(content', w.refs, w.i - 1, e, w.ext[e])
  BY DEF WorkerIsUpToDate
<1>1. /\ w.c \notin queue /\ refs'[w.c] = refs[w.c] /\ hash'[w.c] = hash[w.c]
      /\ \A k \in Configs : Undisturbed(w.c, k)
  OBVIOUS
<1>2. /\ w.refs = refs[w.c]
      /\ hash[w.c] = IF w.pc = "write" THEN w.refs ELSE w.hash
      /\ \A j \in 1..(w.i - 1) : content[w.refs[j]] # None /\ w.c \in owners[w.refs[j]]
      /\ \A e \in Exts : Says(content, w.refs, w.i - 1, e, w.ext[e])
  BY <1>1 DEF WorkerIsUpToDate
<1>3. w.i \in Nat /\ w.refs \in Seq(Configs) /\ w.i - 1 <= Len(w.refs)
  BY DEF TypeOK, Worker, WorkerIsUpToDate, Referencing
<1>4. \A j \in 1..(w.i - 1) : w.refs[j] \in Configs
  BY <1>3
<1>5. \A j \in 1..(w.i - 1) : /\ content'[w.refs[j]] = content[w.refs[j]]
                              /\ w.c \in owners'[w.refs[j]]
  BY <1>1, <1>2, <1>4 DEF Undisturbed
<1>6. \A e \in Exts : Says(content', w.refs, w.i - 1, e, w.ext[e])
  BY <1>2, <1>5, SaysSame
<1> QED
  BY <1>1, <1>2, <1>5, <1>6

\* A step that gives the worker another call.
Resting == w.pc \notin Referencing \cup {"finalizer"}

LEMMA RestingIsUpToDate ==
  ASSUME Resting'
  PROVE  WorkerIsUpToDate'
  BY DEF Resting, WorkerIsUpToDate, Referencing

LEMMA IdleRests ==
  ASSUME w' = Idle
  PROVE  Resting'
  BY IdleIs DEF Resting, Referencing

\* Steps that do not touch what the Cluster at hand refers to: everything written
\* so far stands, and the worker goes on from the beginning of the list.
LEMMA StartReads ==
  ASSUME TypeOK, WorkerIsUpToDate, NEW c \in Clusters, Start(c)
  PROVE  WorkerIsUpToDate'
<1> DEFINE b == Begin(c)
<1>1. /\ b \in Worker /\ b.c = c /\ b.refs = refs[c] /\ b.hash = hash[c] /\ b.i = 1
      /\ b.ext = NoExtension
      /\ FirstCall(b) \in {"list", "fetch", "write"}
      /\ FirstCall(b) = "write" => b.refs = b.hash /\ 1 \notin DOMAIN b.refs
  BY BeginIs
<1>2. \A e \in Exts : Says(content, refs[c], 0, e, NoExtension[e])
  BY SaysNothing DEF NoExtension
<1>3. \/ w' = w
      \/ \E p \in {"finalizer", "deletion", FirstCall(b)} : w' = [b EXCEPT !.pc = p]
  BY DEF Start
<1>4. UNCHANGED <<refs, hash, content, owners>> /\ w.pc = "idle"
  BY DEF Start, clusterVars, configVars
<1> HIDE DEF b
<1>5. CASE w' = w
  BY <1>4, <1>5, RestingIsUpToDate DEF Resting, Referencing
<1>6. ASSUME NEW p \in {"finalizer", "deletion", FirstCall(b)}, w' = [b EXCEPT !.pc = p]
      PROVE  WorkerIsUpToDate'
  <2>1. /\ w'.pc = p /\ w'.c = c /\ w'.refs = refs[c] /\ w'.hash = hash[c] /\ w'.i = 1
        /\ w'.ext = NoExtension
    BY <1>1, <1>6 DEF Worker
  <2>2. p = "write" => refs[c] = hash[c] /\ 1 = Len(refs[c]) + 1
    BY <1>1 DEF TypeOK
  <2>3. p # "hash"
    BY <1>1
  <2> QED
    BY <1>2, <1>4, <2>1, <2>2, <2>3 DEF WorkerIsUpToDate, Referencing
<1> QED
  BY <1>3, <1>5, <1>6

LEMMA AddFinalizerReads ==
  ASSUME TypeOK, WorkerIsUpToDate, AddFinalizer
  PROVE  WorkerIsUpToDate'
<1> DEFINE r == [w EXCEPT !.refs = refs[w.c], !.hash = hash[w.c]]
<1>1. CASE Retry
  BY <1>1, EndIs, IdleRests, RestingIsUpToDate
<1>2. CASE Go([r EXCEPT !.pc = FirstCall(r)])
  <2>1. w.c \in Clusters /\ refs[w.c] \in Seq(Configs) /\ hash[w.c] \in Seq(Configs)
    BY DEF TypeOK, AddFinalizer
  <2>2. /\ r \in Worker /\ r.c = w.c /\ r.refs = refs[w.c] /\ r.hash = hash[w.c]
        /\ r.i = 1 /\ r.ext = NoExtension
    BY <2>1 DEF TypeOK, Worker, WorkerIsUpToDate, AddFinalizer
  <2> HIDE DEF r
  <2>3. /\ FirstCall(r) \in {"list", "fetch", "write"}
        /\ FirstCall(r) = "write" => refs[w.c] = hash[w.c] /\ 1 = Len(refs[w.c]) + 1
    BY <2>1, <2>2 DEF FirstCall, NextFetch, AfterFetching
  <2>4. /\ w'.pc = FirstCall(r) /\ w'.c = w.c /\ w'.refs = refs[w.c] /\ w'.hash = hash[w.c]
        /\ w'.i = 1 /\ w'.ext = NoExtension
    BY <1>2, <2>2, <2>3 DEF Worker, Go
  <2>5. \A e \in Exts : Says(content, refs[w.c], 0, e, NoExtension[e])
    BY SaysNothing DEF NoExtension
  <2>6. UNCHANGED <<refs, hash, content, owners>>
    BY DEF AddFinalizer, configVars
  <2> QED
    BY <2>3, <2>4, <2>5, <2>6 DEF WorkerIsUpToDate, Referencing
<1> QED
  BY <1>1, <1>2 DEF AddFinalizer

\* Giving up ClusterConfigs ends where the list of references begins.
LEMMA DroppingReads ==
  ASSUME TypeOK, WorkerIsUpToDate, NEW r \in Worker, w.pc \in {"list", "drop"}, r.pc = w.pc,
         r.c = w.c, r.refs = w.refs, r.hash = w.hash, r.i = w.i, r.ext = w.ext,
         w' = Dropping(r), UNCHANGED <<refs, hash, content, queue>>
  PROVE  WorkerIsUpToDate'
<1>1. w.i = 1 /\ w.ext = NoExtension /\ w.refs \in Seq(Configs)
  BY DEF WorkerIsUpToDate, TypeOK, Worker
<1>2. /\ w'.c = w.c /\ w'.refs = w.refs /\ w'.hash = w.hash /\ w'.i = 1
      /\ w'.ext = NoExtension
      /\ w'.pc \in {"drop", "fetch", "hash", "write"}
      /\ w'.pc \in {"hash", "write"} => 1 \notin DOMAIN w.refs
      /\ w'.pc = "write" => w.refs = w.hash
  BY <1>1, DroppingIs, NextFetchIs
<1>3. w'.pc \in {"hash", "write"} => 1 = Len(w.refs) + 1
  BY <1>1, <1>2
<1>4. \A e \in Exts : Says(content, w.refs, 0, e, NoExtension[e])
  BY SaysNothing DEF NoExtension
<1> QED
  BY <1>1, <1>2, <1>3, <1>4 DEF WorkerIsUpToDate, Referencing

LEMMA ListReads ==
  ASSUME TypeOK, WorkerIsUpToDate, List
  PROVE  WorkerIsUpToDate'
<1> DEFINE mine == {k \in Unwanted : content[k] # None /\ w.c \in owners[k]}
           listed == [k \in Configs |-> IF k \in mine THEN owners[k] ELSE {}]
           r == [w EXCEPT !.drop = mine, !.listed = listed]
<1>1. CASE Retry
  BY <1>1, EndIs, IdleRests, RestingIsUpToDate
<1>2. CASE Go(Dropping(r))
  <2>1. mine \in SUBSET Configs /\ listed \in [Configs -> SUBSET Clusters]
    BY DEF Unwanted, TypeOK
  <2> HIDE DEF mine, listed
  <2>2. /\ r \in Worker /\ r.pc = w.pc /\ r.c = w.c /\ r.refs = w.refs /\ r.hash = w.hash
        /\ r.i = w.i /\ r.ext = w.ext
    BY <2>1 DEF TypeOK, Worker
  <2> HIDE DEF r
  <2>3. w' = Dropping(r) /\ UNCHANGED <<refs, hash, content, queue>>
    BY <1>2 DEF List, Go, clusterVars, configVars
  <2>4. CASE w.pc = "list"
    BY <2>2, <2>3, <2>4, DroppingReads
  <2>5. CASE w.pc = "listall"
    <3>1. w'.pc \in {"dropall", "release"}
      BY <2>2, <2>3, <2>5, DroppingOn, DroppingDone
    <3> QED
      BY <3>1, RestingIsUpToDate DEF Resting, Referencing
  <2> QED
    BY <2>4, <2>5 DEF List
<1> QED
  BY <1>1, <1>2 DEF List

LEMMA DropOwnerReads ==
  ASSUME TypeOK, WorkerIsUpToDate, DropOwner
  PROVE  WorkerIsUpToDate'
<1>1. CASE Retry
  BY <1>1, EndIs, IdleRests, RestingIsUpToDate
<1>2. ASSUME NEW k \in w.drop, Go(Dropping([w EXCEPT !.drop = @ \ {k}]))
      PROVE  WorkerIsUpToDate'
  <2> DEFINE r == [w EXCEPT !.drop = @ \ {k}]
  <2>1. /\ r \in Worker /\ r.pc = w.pc /\ r.c = w.c /\ r.refs = w.refs /\ r.hash = w.hash
        /\ r.i = w.i /\ r.ext = w.ext
    BY DEF TypeOK, Worker
  <2> HIDE DEF r
  <2>2. w' = Dropping(r) /\ UNCHANGED <<refs, hash, content, queue>>
    BY <1>2 DEF DropOwner, Go, clusterVars, r
  <2>3. CASE w.pc = "drop"
    BY <2>1, <2>2, <2>3, DroppingReads
  <2>4. CASE w.pc = "dropall"
    <3>1. w'.pc \in {"dropall", "release"}
      BY <2>1, <2>2, <2>4, DroppingOn, DroppingDone
    <3> QED
      BY <3>1, RestingIsUpToDate DEF Resting, Referencing
  <2> QED
    BY <2>3, <2>4 DEF DropOwner
<1> QED
  BY <1>1, <1>2 DEF DropOwner

\* One more reference is read.
LEMMA FetchedReads ==
  ASSUME TypeOK, WorkerIsUpToDate, w.pc \in {"fetch", "own"}, NEW k \in Configs,
         k = w.refs[w.i], content[k] # None, Go(Fetched(content[k])), w.c \in owners'[k],
         \A d \in Configs : w.c \in owners[d] => w.c \in owners'[d],
         UNCHANGED <<refs, hash, content>>
  PROVE  WorkerIsUpToDate'
<1>1. /\ w.i \in Nat /\ w.refs \in Seq(Configs) /\ w.i \in DOMAIN w.refs
      /\ content[k] \in Extensions /\ w \in Worker
  BY DEF TypeOK, Worker
<1>2. /\ w'.pc \in {"fetch", "hash", "write"}
      /\ w'.pc = "fetch" <=> w.i + 1 \in DOMAIN w.refs
      /\ w'.pc = "write" => w.refs = w.hash
      /\ w'.c = w.c /\ w'.refs = w.refs /\ w'.hash = w.hash
      /\ w'.i = w.i + 1 /\ w'.ext = Overlay(w.ext, content[k])
  BY <1>1, FetchedIs DEF Go
<1>3. w'.pc \in {"hash", "write"} => w'.i = Len(w.refs) + 1
  BY <1>1, <1>2
<1> SUFFICES ASSUME w.c \notin queue
             PROVE  /\ w.refs = refs[w.c]
                    /\ hash[w.c] = w.hash
                    /\ \A j \in 1..w.i : content[w.refs[j]] # None /\ w.c \in owners'[w.refs[j]]
                    /\ \A e \in Exts : Says(content, w.refs, w.i, e, w'.ext[e])
  <2>1. w'.i - 1 = w.i /\ w'.pc \notin {"finalizer", "list", "drop"}
    BY <1>1, <1>2
  <2> QED
    BY <1>2, <1>3, <2>1 DEF WorkerIsUpToDate, Go
<1>4. /\ w.refs = refs[w.c] /\ hash[w.c] = w.hash
      /\ \A j \in 1..(w.i - 1) : content[w.refs[j]] # None /\ w.c \in owners[w.refs[j]]
      /\ \A e \in Exts : Says(content, w.refs, w.i - 1, e, w.ext[e])
  BY DEF WorkerIsUpToDate, Referencing
<1>5. \A j \in 1..w.i : content[w.refs[j]] # None /\ w.c \in owners'[w.refs[j]]
  <2> TAKE j \in 1..w.i
  <2>1. CASE j = w.i
    BY <2>1
  <2>2. CASE j # w.i
    <3>1. j \in 1..(w.i - 1) /\ w.refs[j] \in Configs
      BY <1>1, <2>2
    <3> QED
      BY <1>4, <3>1
  <2> QED
    BY <2>1, <2>2
<1>6. ASSUME NEW e \in Exts
      PROVE  Says(content, w.refs, w.i, e, w'.ext[e])
  <2>1. w'.ext[e] = IF content[k][e] # None THEN content[k][e] ELSE w.ext[e]
    BY <1>2 DEF Overlay
  <2> DEFINE n == w.i - 1
  <2>2. n \in Nat /\ n + 1 = w.i
    BY <1>1
  <2>3. content[w.refs[n + 1]] = content[k] /\ Says(content, w.refs, n, e, w.ext[e])
    BY <1>4, <2>2
  <2> HIDE DEF n
  <2>4. Says(content, w.refs, n + 1, e, IF content[w.refs[n + 1]][e] # None
                                        THEN content[w.refs[n + 1]][e] ELSE w.ext[e])
    BY <2>2, <2>3, SaysNext
  <2> QED
    BY <2>1, <2>2, <2>3, <2>4
<1> QED
  BY <1>4, <1>5, <1>6

LEMMA FetchReads ==
  ASSUME TypeOK, WorkerIsUpToDate, Fetch
  PROVE  WorkerIsUpToDate'
<1> DEFINE k == w.refs[w.i]
<1>1. k \in Configs
  BY DEF TypeOK, Worker, Fetch
<1>2. CASE Retry
  BY <1>2, EndIs, IdleRests, RestingIsUpToDate
<1>3. CASE content[k] # None /\ w.c \in owners[k] /\ Go(Fetched(content[k]))
  BY <1>1, <1>3, FetchedReads DEF Fetch, clusterVars, configVars
<1>4. CASE Go([w EXCEPT !.pc = "own", !.listed[k] = owners[k]])
  <2>1. /\ w'.pc = "own" /\ w'.c = w.c /\ w'.refs = w.refs /\ w'.hash = w.hash
        /\ w'.i = w.i /\ w'.ext = w.ext /\ w.pc = "fetch"
    BY <1>4 DEF Go, TypeOK, Worker, Fetch
  <2>2. UNCHANGED <<refs, hash, content, owners, queue>>
    BY <1>4 DEF Go, Fetch, clusterVars, configVars
  <2> QED
    BY <2>1, <2>2 DEF WorkerIsUpToDate, Referencing
<1> QED
  BY <1>2, <1>3, <1>4 DEF Fetch

LEMMA AddOwnerReads ==
  ASSUME TypeOK, NoOwnerForgotten, WorkerIsUpToDate, AddOwner
  PROVE  WorkerIsUpToDate'
<1> DEFINE k == w.refs[w.i]
<1>1. k \in Configs /\ owners[k] \subseteq w.listed[k]
  BY DEF TypeOK, Worker, AddOwner, NoOwnerForgotten
<1>2. CASE Retry
  BY <1>2, EndIs, IdleRests, RestingIsUpToDate
<1>3. CASE /\ content[k] # None /\ Go(Fetched(content[k]))
           /\ owners' = [owners EXCEPT ![k] = w.listed[k] \cup {w.c}]
  <2>1. w.c \in owners'[k] /\ \A d \in Configs : w.c \in owners[d] => w.c \in owners'[d]
    BY <1>1, <1>3 DEF TypeOK
  <2> QED
    BY <1>1, <1>3, <2>1, FetchedReads DEF AddOwner, clusterVars
<1> QED
  BY <1>2, <1>3 DEF AddOwner

LEMMA WriteReads ==
  ASSUME TypeOK, WorkerIsUpToDate, WriteHash \/ WriteShoot \/ DeleteShoot \/ Release
  PROVE  WorkerIsUpToDate'
<1>1. CASE Done \/ Retry
  BY <1>1, EndIs, IdleRests, RestingIsUpToDate
<1>2. CASE WriteHash /\ Go([w EXCEPT !.pc = "write"])
  <2>1. /\ w'.pc = "write" /\ w'.c = w.c /\ w'.refs = w.refs /\ w'.hash = w.hash
        /\ w'.i = w.i /\ w'.ext = w.ext /\ w.pc = "hash" /\ w.c \in Clusters
    BY <1>2 DEF Go, TypeOK, Worker, WriteHash
  <2>2. UNCHANGED <<refs, content, owners, queue>>
    BY <1>2 DEF Go, WriteHash, configVars
  <2>3. hash'[w.c] = w.refs
    BY <1>2, <2>1, EndIs, IdleIs DEF WriteHash, TypeOK, Retry, Go
  <2> QED
    BY <2>1, <2>2, <2>3 DEF WorkerIsUpToDate, Referencing
<1>3. CASE Go([w EXCEPT !.pc = "listall"])
  <2>1. w'.pc = "listall"
    BY <1>3 DEF Go, TypeOK, Worker
  <2> QED
    BY <2>1, RestingIsUpToDate DEF Resting, Referencing
<1> QED
  BY <1>1, <1>2, <1>3 DEF WriteHash, WriteShoot, DeleteShoot, Release

\* A user or Gardener changes what the worker has read only if its Cluster is
\* enqueued again, and what a Cluster at rest has only if it is enqueued.
LEMMA UsersKeep ==
  ASSUME TypeOK, OwnersAreHeld, NEW c \in Clusters,
         Users \/ \E d \in Clusters : ShootGone(d)
  PROVE  /\ w' = w /\ queue \subseteq queue'
         /\ c \notin queue' => /\ stage'[c] = stage[c] /\ refs'[c] = refs[c]
                               /\ hash'[c] = hash[c] /\ shoot'[c] = shoot[c]
                               /\ \A k \in Configs : Undisturbed(c, k)
<1> USE DEF Undisturbed, TypeOK, clusterVars, configVars, shootVars
<1>1. ASSUME NEW d \in Clusters, ShootGone(d) \/ CreateCluster(d) \/ ChangeRefs(d)
      PROVE  /\ w' = w /\ queue \subseteq queue'
             /\ c \notin queue' => /\ stage'[c] = stage[c] /\ refs'[c] = refs[c]
                                   /\ hash'[c] = hash[c] /\ shoot'[c] = shoot[c]
                                   /\ \A k \in Configs : Undisturbed(c, k)
  BY <1>1 DEF ShootGone, CreateCluster, ChangeRefs
<1>2. ASSUME NEW d \in Clusters, DeleteCluster(d)
      PROVE  /\ w' = w /\ queue \subseteq queue'
             /\ c \notin queue' => /\ stage'[c] = stage[c] /\ refs'[c] = refs[c]
                                   /\ hash'[c] = hash[c] /\ shoot'[c] = shoot[c]
                                   /\ \A k \in Configs : Undisturbed(c, k)
  BY <1>2 DEF DeleteCluster, Gone
<1>3. ASSUME NEW k \in Configs, CreateConfig(k)
      PROVE  /\ w' = w /\ queue \subseteq queue'
             /\ c \notin queue' => /\ stage'[c] = stage[c] /\ refs'[c] = refs[c]
                                   /\ hash'[c] = hash[c] /\ shoot'[c] = shoot[c]
                                   /\ \A d \in Configs : Undisturbed(c, d)
  <2>1. owners[k] = {}
    BY <1>3 DEF CreateConfig, OwnersAreHeld
  <2> QED
    BY <1>3, <2>1 DEF CreateConfig
<1>4. ASSUME NEW k \in Configs, ChangeConfig(k) \/ DeleteConfig(k)
      PROVE  /\ w' = w /\ queue \subseteq queue'
             /\ c \notin queue' => /\ stage'[c] = stage[c] /\ refs'[c] = refs[c]
                                   /\ hash'[c] = hash[c] /\ shoot'[c] = shoot[c]
                                   /\ \A d \in Configs : Undisturbed(c, d)
  BY <1>4 DEF ChangeConfig, DeleteConfig, ConfigEvent
<1> QED
  BY <1>1, <1>2, <1>3, <1>4 DEF Users

\* A step ends the reconcile or goes on with the same Cluster.
LEMMA GoingOn ==
  ASSUME TypeOK, Step
  PROVE  \/ Done /\ (WriteShoot \/ DeleteShoot \/ Release)
         \/ Retry
         \/ w'.c = w.c /\ UNCHANGED queue
<1>1. \A r \in Worker : Go(r) => w'.c = r.c /\ UNCHANGED queue
  BY DEF Go
<1>2. CASE AddFinalizer
  <2> DEFINE r == [w EXCEPT !.refs = refs[w.c], !.hash = hash[w.c]]
  <2>1. FirstCall(r) \in {"list", "fetch", "hash", "write"}
    BY DEF FirstCall, NextFetch, AfterFetching
  <2>2. w.c \in Clusters
    BY <1>2 DEF AddFinalizer, TypeOK
  <2>3. \/ \E p \in {"list", "fetch", "hash", "write"} :
             w' = [r EXCEPT !.pc = p] /\ UNCHANGED queue
        \/ Retry
    BY <1>2, <2>1 DEF AddFinalizer, Go
  <2>4. ASSUME NEW p \in {"list", "fetch", "hash", "write"}, w' = [r EXCEPT !.pc = p]
        PROVE  w'.c = w.c
    BY <2>2, <2>4 DEF Worker, TypeOK
  <2> HIDE DEF r
  <2> QED
    BY <2>3, <2>4
<1>3. CASE List
  <2> DEFINE mine == {k \in Unwanted : content[k] # None /\ w.c \in owners[k]}
             listed == [k \in Configs |-> IF k \in mine THEN owners[k] ELSE {}]
             r == [w EXCEPT !.drop = mine, !.listed = listed]
  <2>1. mine \in SUBSET Configs /\ listed \in [Configs -> SUBSET Clusters]
    BY DEF Unwanted, TypeOK
  <2> HIDE DEF mine, listed
  <2>2. r \in Worker /\ r.c = w.c /\ r.pc \in {"list", "listall"}
    BY <1>3, <2>1 DEF Worker, List, TypeOK
  <2> HIDE DEF r
  <2>3. Dropping(r) \in Worker /\ Dropping(r).c = w.c
    BY <2>2, DroppingIs
  <2>4. Go(Dropping(r)) \/ Retry
    BY <1>3 DEF List, r, mine, listed
  <2> QED
    BY <2>3, <2>4 DEF Go
<1>4. CASE DropOwner
  <2>1. ASSUME NEW k \in w.drop
        PROVE  LET d == Dropping([w EXCEPT !.drop = @ \ {k}]) IN d \in Worker /\ d.c = w.c
    <3> DEFINE r == [w EXCEPT !.drop = @ \ {k}]
    <3>1. r \in Worker /\ r.c = w.c /\ r.pc \in {"drop", "dropall"}
      BY <1>4 DEF Worker, DropOwner, TypeOK
    <3> HIDE DEF r
    <3>2. Dropping(r) \in Worker /\ Dropping(r).c = w.c
      BY <3>1, DroppingIs
    <3> QED
      BY <3>2 DEF r
  <2>2. (\E k \in w.drop : Go(Dropping([w EXCEPT !.drop = @ \ {k}]))) \/ Retry
    BY <1>4 DEF DropOwner
  <2> QED
    <3>1. CASE Retry
      BY <3>1
    <3>2. ASSUME NEW k \in w.drop, Go(Dropping([w EXCEPT !.drop = @ \ {k}]))
          PROVE  w'.c = w.c /\ UNCHANGED queue
      BY <2>1, <3>2 DEF Go
    <3> QED
      BY <2>2, <3>1, <3>2
<1>5. CASE Fetch \/ AddOwner
  <2> DEFINE k == w.refs[w.i]
  <2>1. k \in Configs /\ w.c \in Clusters
    BY <1>5 DEF Fetch, AddOwner, Worker, TypeOK
  <2>2. [w EXCEPT !.pc = "own", !.listed[k] = owners[k]] \in Worker
        /\ [w EXCEPT !.pc = "own", !.listed[k] = owners[k]].c = w.c
    BY <2>1 DEF Worker, TypeOK
  <2>3. content[k] # None => Fetched(content[k]) \in Worker /\ Fetched(content[k]).c = w.c
    BY <1>5, <2>1, FetchedIs DEF Fetch, AddOwner, TypeOK
  <2> QED
    BY <1>1, <1>5, <2>2, <2>3 DEF Fetch, AddOwner
<1>6. CASE WriteHash \/ WriteShoot \/ DeleteShoot \/ Release
  <2>1. \A p \in {"write", "listall"} : [w EXCEPT !.pc = p] \in Worker
                                        /\ [w EXCEPT !.pc = p].c = w.c
    BY DEF Worker, TypeOK
  <2> QED
    BY <1>1, <1>6, <2>1 DEF WriteHash, WriteShoot, DeleteShoot, Release
<1> QED
  BY <1>2, <1>3, <1>4, <1>5, <1>6 DEF Step

\* A step for one Cluster leaves what another one at rest has.
LEMMA StepKeeps ==
  ASSUME TypeOK, NoOwnerForgotten, Step, NEW c \in Clusters, c # w.c
  PROVE  /\ queue \subseteq queue' /\ w'.c \in {w.c, None}
         /\ stage'[c] = stage[c] /\ refs'[c] = refs[c] /\ hash'[c] = hash[c]
         /\ shoot'[c] = shoot[c] /\ \A k \in Configs : Undisturbed(c, k)
<1> USE DEF Undisturbed, TypeOK, clusterVars, configVars, shootVars
<1>1. queue \subseteq queue' /\ w'.c \in {w.c, None}
  BY GoingOn, EndIs, IdleIs DEF Done, Retry
<1>2. CASE AddFinalizer
  BY <1>1, <1>2 DEF AddFinalizer
<1>3. CASE List \/ Fetch
  BY <1>1, <1>3 DEF List, Fetch
<1>4. CASE DropOwner
  <2>1. \A k \in Configs : k \in w.drop => owners[k] \subseteq w.listed[k]
    BY DEF NoOwnerForgotten
  <2> QED
    BY <1>1, <1>4, <2>1 DEF DropOwner
<1>5. CASE AddOwner
  <2> DEFINE k == w.refs[w.i]
  <2>1. k \in Configs /\ owners[k] \subseteq w.listed[k]
    BY <1>5 DEF AddOwner, Worker, NoOwnerForgotten
  <2>2. owners' = owners \/ owners' = [owners EXCEPT ![k] = w.listed[k] \cup {w.c}]
    BY <1>5 DEF AddOwner
  <2>3. \A d \in Configs : c \in owners[d] => c \in owners'[d]
    BY <2>1, <2>2
  <2> QED
    BY <1>1, <1>5, <2>3 DEF AddOwner
<1>6. CASE WriteHash \/ WriteShoot \/ DeleteShoot \/ Release
  <2>1. w.c \in Clusters
    BY <1>6 DEF WriteHash, WriteShoot, DeleteShoot, Release
  <2> QED
    BY <1>1, <1>6, <2>1 DEF WriteHash, WriteShoot, DeleteShoot, Release, Gone
<1> QED
  BY <1>2, <1>3, <1>4, <1>5, <1>6 DEF Step

LEMMA ReadsNext ==
  ASSUME TypeOK, OwnersAreHeld, NoOwnerForgotten, WorkerIsUpToDate, [Next]_vars
  PROVE  WorkerIsUpToDate'
<1>1. CASE Crash
  BY <1>1, IdleRests, RestingIsUpToDate DEF Crash
<1>2. CASE UNCHANGED vars
  BY <1>2 DEF vars, clusterVars, configVars, WorkerIsUpToDate
<1>3. CASE Users \/ \E d \in Clusters : ShootGone(d)
  <2>1. CASE w.pc \in Referencing
    <3>1. w.c \in Clusters
      BY <2>1 DEF Referencing, TypeOK
    <3> QED
      BY <1>3, <3>1, UsersKeep, ReadingStays
  <2>2. CASE w.pc \notin Referencing
    <3>1. w' = w
      <4>1. \A c \in Clusters : ShootGone(c) \/ CreateCluster(c) \/ ChangeRefs(c)
                                \/ DeleteCluster(c) => w' = w
        BY DEF ShootGone, CreateCluster, ChangeRefs, DeleteCluster
      <4>2. \A k \in Configs : CreateConfig(k) \/ ChangeConfig(k) \/ DeleteConfig(k) => w' = w
        BY DEF CreateConfig, ChangeConfig, DeleteConfig
      <4> QED
        BY <1>3, <4>1, <4>2 DEF Users
    <3> QED
      BY <2>2, <3>1 DEF WorkerIsUpToDate, Referencing
  <2> QED
    BY <2>1, <2>2
<1> QED
  BY <1>1, <1>2, <1>3, StartReads, AddFinalizerReads, ListReads, DropOwnerReads, FetchReads,
     AddOwnerReads, WriteReads DEF Next, Step

\* The shoot written last has what the references say.
LEMMA WriteShootSettles ==
  ASSUME TypeOK, WorkerIsUpToDate, WriteShoot, NEW c \in Clusters, c = w.c,
         stage'[c] = "live", ~Pending(c)'
  PROVE  SettledOf(c)'
<1>1. w.pc = "write" /\ w.refs \in Seq(Configs) /\ w.ext \in Extensions
  BY DEF WriteShoot, TypeOK, Worker
<1>2. ~Retry
  BY DEF Pending, Retry
<1>3. /\ shoot' = [shoot EXCEPT ![c] = UpdateShootFields] /\ c \notin queue
      /\ UNCHANGED <<stage, refs, hash, content, owners>>
  BY <1>2 DEF WriteShoot, Done, Pending, clusterVars, configVars
<1>4. /\ w.i - 1 = Len(w.refs) /\ w.refs = refs[c] /\ hash[c] = w.refs
      /\ \A j \in 1..Len(w.refs) : content[w.refs[j]] # None /\ c \in owners[w.refs[j]]
      /\ \A e \in Exts : Says(content, w.refs, Len(w.refs), e, w.ext[e])
  BY <1>1, <1>3 DEF WorkerIsUpToDate, Referencing
<1>5. shoot'[c] = UpdateShootFields /\ UpdateShootFields \in Extensions
  BY <1>1, <1>3, UpdateShootFieldsType DEF TypeOK
<1>6. \A e \in Exts : w.ext[e] # None => UpdateShootFields[e] = w.ext[e]
  BY DEF UpdateShootFields, Overlay
<1>7. UpdateShootFields # None
  BY <1>5, ExtensionsType
<1>8. \A k \in Elems(refs[c]) : content[k] # None /\ c \in owners[k]
  BY <1>1, <1>4 DEF Elems
<1>9. \A e \in Exts : w.ext[e] \in {None, shoot'[c][e]}
  BY <1>5, <1>6
<1> QED
  BY <1>3, <1>4, <1>5, <1>7, <1>8, <1>9 DEF SettledOf, ShootDoesWhatIsSaid

LEMMA SettledNext ==
  ASSUME TypeOK, OwnersAreHeld, NoOwnerForgotten, WorkerIsUpToDate, SettledIsUpToDate,
         [Next]_vars, NEW c \in Clusters
  PROVE  SettledOf(c)'
<1> SUFFICES ASSUME stage'[c] = "live", ~Pending(c)'
             PROVE  SettledOf(c)'
  BY DEF SettledOf
<1>1. SettledOf(c)
  BY DEF SettledIsUpToDate, SettledOf
<1>2. c \notin queue' /\ w'.c # c
  BY DEF Pending
<1>3. CASE UNCHANGED vars
  BY <1>1, <1>3 DEF vars, clusterVars, configVars, shootVars, SettledOf, Pending,
     ShootDoesWhatIsSaid
<1>4. CASE Crash
  BY <1>2, <1>4 DEF Crash, clusterVars
<1>5. CASE Users \/ \E d \in Clusters : ShootGone(d)
  BY <1>1, <1>2, <1>5, UsersKeep, SettledStays DEF Pending
<1>6. ASSUME NEW d \in Clusters, Start(d) PROVE SettledOf(c)'
  <2>1. w.pc = "idle" /\ w.c = None
    BY <1>6 DEF Start, TypeOK
  <2>2. /\ UNCHANGED <<stage, refs, hash, content, owners, shoot>>
        /\ \A k \in Configs : Undisturbed(c, k)
    BY <1>6 DEF Start, clusterVars, configVars, shootVars, Undisturbed
  <2>3. c # None
    BY ConstantsAssumption
  <2>4. c \notin queue
    <3>1. stage[d] = "live" /\ d \notin queue' /\ d \in queue => w'.c = d
      BY <1>6, <2>1, BeginIs DEF Start, Worker
    <3> QED
      BY <1>2, <1>6, <2>2, <3>1 DEF Start
  <2> QED
    BY <1>1, <2>1, <2>2, <2>3, <2>4, SettledStays DEF Pending
<1>7. CASE Step /\ c # w.c
  BY <1>1, <1>2, <1>7, StepKeeps, SettledStays DEF Pending
<1>8. CASE Step /\ c = w.c
  <2>1. ~Retry /\ c \in Clusters
    BY <1>2, <1>8 DEF Retry
  <2>2. CASE WriteShoot
    BY <1>8, <2>2, WriteShootSettles
  <2>3. CASE Done /\ (DeleteShoot \/ Release)
    <3>1. stage[w.c] = "deleting"
      BY <2>3 DEF DeleteShoot, Release, OwnersAreHeld, Releasing
    <3>2. stage'[w.c] # "live"
      BY <1>8, <2>1, <2>3, <3>1 DEF DeleteShoot, Release, Gone, clusterVars, TypeOK, Retry
    <3> QED
      BY <1>8, <3>2
  <2>4. CASE w'.c = w.c
    BY <1>2, <1>8, <2>4
  <2> QED
    BY <1>8, <2>1, <2>2, <2>3, <2>4, GoingOn
<1> QED
  BY <1>3, <1>4, <1>5, <1>6, <1>7, <1>8 DEF Next

\* A settled live Cluster, and whatever the worker has read, are up to date.
THEOREM ConfigsInvariance == Spec => []ConfigsInv
<1>1. Init => WorkerIsUpToDate /\ SettledIsUpToDate
  BY IdleIs DEF Init, WorkerIsUpToDate, SettledIsUpToDate, Referencing
<1>2. TypeOK /\ OwnersAreHeld /\ NoOwnerForgotten /\ WorkerIsUpToDate /\ SettledIsUpToDate
        /\ [Next]_vars => WorkerIsUpToDate' /\ SettledIsUpToDate'
  <2> SUFFICES ASSUME TypeOK, OwnersAreHeld, NoOwnerForgotten, WorkerIsUpToDate,
                      SettledIsUpToDate, [Next]_vars
               PROVE  WorkerIsUpToDate' /\ SettledIsUpToDate'
    OBVIOUS
  <2>1. \A c \in Clusters : SettledOf(c)'
    BY SettledNext
  <2> QED
    BY <2>1, ReadsNext DEF SettledOf, SettledIsUpToDate
<1> QED
  BY <1>1, <1>2, ConfigsTypes, OwnershipInvariant, PTL DEF Spec, ConfigsInv

\* Without a reconcile to come, a live Cluster refers to ClusterConfigs that exist
\* and would wake it, and its shoot does what they say.
THEOREM SettledClustersAreUpToDate == Spec => []SettledIsUpToDate
<1>1. ConfigsInv => SettledIsUpToDate
  BY DEF ConfigsInv
<1> QED
  BY <1>1, ConfigsInvariance, PTL
===================================================================================
