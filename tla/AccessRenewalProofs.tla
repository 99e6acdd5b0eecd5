--------------------------- MODULE AccessRenewalProofs ---------------------------
(***************************************************************************)
(* No renewal is lost: AccessRequests at rest are granted, and those whose *)
(* token expires have a delayed request coming.                            *)
(***************************************************************************)
EXTENDS AccessRequestProofs

\* What the calls that change more of the worker than its next call make of it.
LEMMA ScheduleGoes ==
  ASSUME TypeOK, ScheduleRenewal
  PROVE  /\ w'.pc = "status" /\ w'.ar = w.ar /\ w'.gen = w.gen /\ w'.deleting = w.deleting
         /\ w'.granted = w.granted /\ w'.failed = w.failed
         /\ w'.timer <=> secret[w.ar] # "due"
<1>1. PICK b : w' = [w EXCEPT !.pc = "status", !.timer = b] /\ (b <=> secret[w.ar] # "due")
  BY DEF ScheduleRenewal
<1> QED
  BY <1>1 DEF TypeOK, Worker

LEMMA AccessGoes ==
  ASSUME TypeOK, GetShootAccess
  PROVE  \/ StatusError
         \/ /\ w'.pc = IF w.deleting THEN "cleanup" ELSE "ensure"
            /\ w'.ar = w.ar /\ w'.gen = w.gen /\ w'.deleting = w.deleting
            /\ w'.granted = w.granted /\ w'.failed = w.failed
<1>1. ASSUME NEW pc, NEW todo, w' = [w EXCEPT !.client = TRUE, !.pc = pc, !.todo = todo]
      PROVE  /\ w'.pc = pc /\ w'.ar = w.ar /\ w'.gen = w.gen /\ w'.deleting = w.deleting
             /\ w'.granted = w.granted /\ w'.failed = w.failed
  BY <1>1 DEF TypeOK, Worker
<1> QED
  BY <1>1 DEF GetShootAccess

LEMMA EnsureGoes ==
  ASSUME TypeOK,
         \E o \in Objects : \/ EnsureServiceAccount(o) \/ EnsureTokenPermission(o)
                           \/ EnsureOpenIDConnect(o) \/ EnsureOIDCPermission(o)
  PROVE  /\ w.pc = "ensure"
         /\ w'.pc = "ensure" \/ (w'.pc = "status" /\ w'.failed = TRUE)
         /\ w'.ar = w.ar /\ w'.gen = w.gen /\ w'.deleting = w.deleting
         /\ UNCHANGED <<requestVars, statusVars, secret, queueVars>>
<1>1. PICK o \in Objects :
        /\ Due(o)
        /\ \/ EnsureObject(o, Done(o), Abort)
           \/ EnsureObject(o, Done(o), GoOn(o))
           \/ EnsureObject(o, Done(o), [Done(o) EXCEPT !.failed = TRUE])
  BY DEF EnsureServiceAccount, EnsureTokenPermission, EnsureOpenIDConnect, EnsureOIDCPermission
<1>2. w.pc = "ensure" /\ UNCHANGED <<requestVars, statusVars, secret, queueVars>>
  BY <1>1 DEF EnsureObject, Due
<1>3. w' \in {Done(o), Abort, GoOn(o), [Done(o) EXCEPT !.failed = TRUE]}
  BY <1>1 DEF EnsureObject
<1>4. CASE w' = Done(o)
  BY <1>2, <1>4 DEF Done, TypeOK, Worker
<1>5. CASE w' = Abort
  BY <1>2, <1>5 DEF Abort, TypeOK, Worker
<1>6. CASE w' = GoOn(o)
  BY <1>2, <1>6 DEF GoOn, TypeOK, Worker
<1>7. CASE w' = [Done(o) EXCEPT !.failed = TRUE]
  BY <1>2, <1>7 DEF Done, TypeOK, Worker
<1> QED
  BY <1>2, <1>3, <1>4, <1>5, <1>6, <1>7

\* A request that was granted without a token gets one only for a newer generation.
LEMMA KindNext ==
  ASSUME AccessInv, RenewalInv, [Next]_vars
  PROVE  KindInv'
<1> USE DEF AccessInv, TypeOK, KindInv, NoToken, RenewalInv
<1>1. CASE UNCHANGED <<phase, observed, gen, secret>>
  BY <1>1
<1>2. ASSUME NEW r \in Requests, SecretDeleted(r) \/ TokenAges(r) PROVE KindInv'
  BY <1>2 DEF SecretDeleted, TokenAges, requestVars, statusVars
<1>3. ASSUME NEW r \in Requests, CreateRequest(r) \/ ChangeSpec(r) PROVE KindInv'
  BY <1>3 DEF CreateRequest, ChangeSpec, statusVars, RequestInv
<1>4. ASSUME NEW r \in Requests, DeleteRequest(r) PROVE KindInv'
  BY <1>4 DEF DeleteRequest, Remove, statusVars
<1>5. CASE RemoveFinalizer
  BY <1>5 DEF RemoveFinalizer, Remove, requestVars, statusVars
<1>6. CASE WriteTokenSecret
  <2>1. /\ w.ar \in held /\ w.ar \in Requests /\ w.gen \in Generations /\ WantedSpec.token
        /\ phase[w.ar] = "GRANTED" /\ observed[w.ar] = gen[w.ar] => w.gen = gen[w.ar]
    BY <1>6, AccessAssumption DEF WriteTokenSecret, WorkerInv, CallInv, ReadInv, Generations
  <2> QED
    BY <1>6, <2>1 DEF WriteTokenSecret, SecretWritten, WantedSpec, requestVars, statusVars
<1>7. CASE WriteOIDCSecret
  BY <1>7 DEF WriteOIDCSecret, SecretWritten, requestVars, statusVars
<1>8. CASE UpdateStatus
  <2>1. w.ar \in Requests /\ (w.failed \/ WantedSpec.token \/ NoToken(w.ar))
    BY <1>8 DEF UpdateStatus, WorkerInv, EndInv, RenewingInv, Granting
  <2>2. /\ UNCHANGED <<gen, secret>>
        /\ \/ UNCHANGED <<phase, observed>>
           \/ /\ phase' = [phase EXCEPT ![w.ar] = IF w.failed THEN "PENDING" ELSE "GRANTED"]
              /\ observed' = [observed EXCEPT ![w.ar] = w.gen]
    BY <1>8 DEF UpdateStatus, PhaseOf, requestVars, statusVars
  <2> QED
    BY <2>1, <2>2 DEF WantedSpec
<1> QED
  BY <1>1, <1>2, <1>3, <1>4, <1>5, <1>6, <1>7, <1>8
  DEF Next, Start, Skip, StartFails, Begin, RenewalDue, Step, GetClusterAndProfile,
      AddFinalizer, CheckGrant, ScheduleRenewal, GetShootAccess, PanicOnMissingClient,
      EnsureServiceAccount, EnsureTokenPermission, EnsureOpenIDConnect, EnsureOIDCPermission,
      EnsureObject, Ensured, CleanupKind, CleanedUp, Crash, RegistryChanges, Users, Annotate,
      ClusterChanges, ShootGone, requestVars, statusVars, vars

-------------------------------------------------------------------------------
(***************************************************************************)
(* Requests at rest.                                                       *)
(***************************************************************************)
\* Up to its last call a reconcile changes nothing of a request that AtRest looks at.
LEMMA GoingOn ==
  ASSUME AccessInv, Step
  PROVE  \/ PanicOnMissingClient \/ RemoveFinalizer \/ UpdateStatus
         \/ /\ w'.ar = w.ar /\ UNCHANGED <<stage, op, phase, timer>>
            /\ queue \subseteq queue' /\ held \subseteq held'
            /\ \A q \in Requests : q # w.ar => secret'[q] = secret[q]
<1> USE DEF AccessInv, TypeOK, requestVars, statusVars, queueVars
<1> DEFINE Same == /\ w'.ar = w.ar /\ UNCHANGED <<stage, op, phase, timer>>
                   /\ queue \subseteq queue' /\ held \subseteq held'
                   /\ \A q \in Requests : q # w.ar => secret'[q] = secret[q]
<1>1. StatusError \/ (\E pc \in Calls : Goto(pc)) => w'.ar = w.ar
  BY ErrorKeeps, GotoKeeps
<1>2. "check" \in Calls /\ "finalizer" \in Calls /\ "access" \in Calls /\ "release" \in Calls
      /\ "settled" \in Calls /\ "status" \in Calls /\ "secret" \in Calls /\ "cleanup" \in Calls
  BY DEF Calls
<1>3. CASE GetClusterAndProfile \/ CheckGrant
  BY <1>1, <1>2, <1>3 DEF GetClusterAndProfile, CheckGrant
<1>4. CASE AddFinalizer
  <2>1. w'.ar = w.ar
    BY <1>1, <1>4 DEF AddFinalizer, Worker
  <2> QED
    BY <1>4, <2>1 DEF AddFinalizer, Updated
<1>5. CASE ScheduleRenewal \/ GetShootAccess
  <2>1. w'.ar = w.ar
    BY <1>1, <1>5, ScheduleGoes, AccessGoes
  <2> QED
    BY <1>5, <2>1 DEF ScheduleRenewal, GetShootAccess
<1>6. CASE \E o \in Objects : \/ EnsureServiceAccount(o) \/ EnsureTokenPermission(o)
                             \/ EnsureOpenIDConnect(o) \/ EnsureOIDCPermission(o)
  BY <1>6, EnsureGoes
<1>7. CASE Ensured \/ CleanedUp
  BY <1>1, <1>2, <1>7 DEF Ensured, CleanedUp
<1>8. CASE WriteTokenSecret \/ WriteOIDCSecret
  <2>1. w' = [w EXCEPT !.pc = "cleanup", !.timer = TRUE] => w'.ar = w.ar
    BY DEF Worker
  <2>2. w'.ar = w.ar
    BY <1>1, <1>2, <1>8, <2>1 DEF WriteTokenSecret, WriteOIDCSecret
  <2> QED
    BY <1>8, <2>2 DEF WriteTokenSecret, WriteOIDCSecret, SecretWritten
<1>9. CASE CleanupKind
  <2>1. w'.ar = w.ar
    BY <1>1, <1>9 DEF CleanupKind, Worker
  <2> QED
    BY <1>9, <2>1 DEF CleanupKind
<1> QED
  BY <1>3, <1>4, <1>5, <1>6, <1>7, <1>8, <1>9 DEF Step

\* What RenewalIsAhead says of request r.
Renewed(r) ==
  AtRest(r) =>
    /\ stage[r] = "live" /\ r \in held /\ phase[r] = "GRANTED"
    /\ secret[r] # "none"
    /\ secret[r] # "static" => r \in timer

\* Users, delayed requests and everything else around the worker enqueue a request
\* before it is in need of a reconcile.
LEMMA RenewedWorld ==
  ASSUME AccessInv, RenewalInv, NEW r \in Requests,
         \/ \E q \in Requests : Start(q) \/ RenewalDue(q)
         \/ Crash \/ RegistryChanges \/ Users
         \/ \E c \in Clusters : ClusterChanges(c) \/ ShootGone(c)
  PROVE  Renewed(r)'
<1> USE DEF AccessInv, TypeOK, RenewalInv, RenewalIsAhead, Renewed, AtRest, requestVars,
            statusVars, queueVars
<1>1. ASSUME NEW q \in Requests, Skip(q) \/ StartFails(q) PROVE Renewed(r)'
  BY <1>1 DEF Skip, StartFails, Dequeue
<1>2. ASSUME NEW q \in Requests, Begin(q) PROVE Renewed(r)'
  <2>1. w'.ar = q /\ w.ar = None /\ None \notin Requests
    BY <1>2, AccessAssumption DEF Begin, Dequeue, Idle, RenewingInv
  <2> QED
    BY <1>2, <2>1 DEF Begin, Dequeue, Updated
<1>3. ASSUME NEW q \in Requests, RenewalDue(q) PROVE Renewed(r)'
  BY <1>3 DEF RenewalDue
<1>4. CASE Crash
  BY <1>4 DEF Crash
<1>5. CASE RegistryChanges
  BY <1>5 DEF RegistryChanges
<1>6. ASSUME NEW q \in Requests, CreateRequest(q) \/ ChangeSpec(q) PROVE Renewed(r)'
  BY <1>6 DEF CreateRequest, ChangeSpec, Updated
<1>7. ASSUME NEW q \in Requests, DeleteRequest(q) PROVE Renewed(r)'
  BY <1>7 DEF DeleteRequest, Remove
<1>8. ASSUME NEW q \in Requests, Annotate(q) PROVE Renewed(r)'
  BY <1>8 DEF Annotate
<1>9. ASSUME NEW q \in Requests, SecretDeleted(q) \/ TokenAges(q) PROVE Renewed(r)'
  BY <1>9 DEF SecretDeleted, TokenAges
<1>10. ASSUME NEW c \in Clusters, ClusterChanges(c) \/ ShootGone(c) PROVE Renewed(r)'
  <2>1. w'.ar = w.ar
    BY <1>10 DEF ClusterChanges, ShootGone, Worker
  <2> QED
    BY <1>10, <2>1 DEF ClusterChanges, ShootGone
<1> QED
  BY <1>1, <1>2, <1>3, <1>4, <1>5, <1>6, <1>7, <1>8, <1>9, <1>10 DEF Start, Users

\* A reconcile ends with the request granted and its renewal ahead, with the request
\* gone, or with the request queued again.
LEMMA RenewedStep ==
  ASSUME AccessInv, RenewalInv, NEW r \in Requests, Step
  PROVE  Renewed(r)'
<1> USE DEF AccessInv, TypeOK, RenewalInv, RenewalIsAhead, Renewed, AtRest, requestVars,
            statusVars, queueVars
<1>1. CASE /\ UNCHANGED <<stage, op, phase, timer>> /\ queue \subseteq queue'
           /\ held \subseteq held' /\ w'.ar = w.ar
           /\ \A q \in Requests : q # w.ar => secret'[q] = secret[q]
  BY <1>1
<1>2. CASE PanicOnMissingClient
  BY <1>2 DEF PanicOnMissingClient, Idle
<1>3. CASE RemoveFinalizer
  <2>1. w'.ar = w.ar \/ w' = Idle
    BY <1>3, ErrorKeeps DEF RemoveFinalizer
  <2>2. w.ar \in Requests /\ w.ar \notin {None}
    BY <1>3, AccessAssumption DEF RemoveFinalizer
  <2>3. r # w.ar => stage'[r] = stage[r] /\ op'[r] = op[r] /\ phase'[r] = phase[r]
                    /\ secret'[r] = secret[r]
    BY <1>3, <2>2 DEF RemoveFinalizer, Remove
  <2>4. /\ w' = Idle => w.ar \in queue'
        /\ queue \subseteq queue' /\ held \ {w.ar} \subseteq held' /\ UNCHANGED timer
    <3>1. w' = Idle => w.ar \in queue'
      <4>1. StatusError => w'.pc # "idle"
        BY ErrorKeeps
      <4> QED
        BY <1>3, <4>1 DEF RemoveFinalizer, Idle
    <3> QED
      BY <1>3, <3>1 DEF RemoveFinalizer
  <2> QED
    BY <2>1, <2>2, <2>3, <2>4 DEF Idle
<1>4. CASE UpdateStatus
  <2>1. w.ar \in Requests /\ w.pc = "status"
    BY <1>4 DEF UpdateStatus
  <2>2. ~w.failed => w.ar \in held /\ ~w.deleting
    BY <2>1 DEF WorkerInv, EndInv
  <2>3. ~w.failed /\ w.ar \notin queue =>
          /\ secret[w.ar] # "none" /\ (secret[w.ar] # "static" => w.timer)
          /\ op[w.ar] # "ignore" => stage[w.ar] # "deleting"
    BY <2>1, <2>2 DEF RenewingInv, Granting
  <2> QED
    BY <1>4, <2>1, <2>2, <2>3 DEF UpdateStatus, PhaseOf, Idle
<1> QED
  BY <1>1, <1>2, <1>3, <1>4, GoingOn DEF Step

-------------------------------------------------------------------------------
(***************************************************************************)
(* The worker.                                                             *)
(***************************************************************************)
\* What users and the rest of the world do to the request the worker is at enqueues it,
\* or does not matter.
LEMMA RenewingWorld ==
  ASSUME OneLookAtTheClock, AccessInv, RenewalInv,
         \/ \E q \in Requests : Start(q) \/ RenewalDue(q)
         \/ Crash \/ RegistryChanges \/ Users
         \/ \E c \in Clusters : ClusterChanges(c) \/ ShootGone(c)
  PROVE  RenewingInv'
<1> USE DEF AccessInv, TypeOK, RenewalInv, RenewingInv, Granting, NoToken, WantedSpec,
            requestVars, statusVars, queueVars
<1>1. ASSUME NEW q \in Requests, Skip(q) \/ StartFails(q) PROVE RenewingInv'
  BY <1>1 DEF Skip, StartFails, Dequeue
<1>2. ASSUME NEW q \in Requests, Begin(q) PROVE RenewingInv'
  <2>1. /\ w'.pc = "cluster" /\ w'.ar = q /\ w'.gen = gen[q]
        /\ w'.deleting <=> stage[q] = "deleting"
        /\ w'.granted => phase[q] = "GRANTED" /\ observed[q] = gen[q]
    BY <1>2 DEF Begin, Idle, AlreadyGranted
  <2> QED
    BY <1>2, <2>1 DEF Begin, KindInv
<1>3. ASSUME NEW q \in Requests, RenewalDue(q) PROVE RenewingInv'
  BY <1>3 DEF RenewalDue
<1>4. CASE Crash
  BY <1>4 DEF Crash, Idle
<1>5. CASE RegistryChanges
  BY <1>5 DEF RegistryChanges
<1>6. ASSUME NEW q \in Requests, CreateRequest(q) \/ ChangeSpec(q) PROVE RenewingInv'
  BY <1>6 DEF CreateRequest, ChangeSpec, Updated
<1>7. ASSUME NEW q \in Requests, DeleteRequest(q) PROVE RenewingInv'
  BY <1>7 DEF DeleteRequest, Remove, WorkerInv, CallInv, EndInv
<1>8. ASSUME NEW q \in Requests, Annotate(q) PROVE RenewingInv'
  BY <1>8 DEF Annotate
<1>9. ASSUME NEW q \in Requests, SecretDeleted(q) \/ TokenAges(q) PROVE RenewingInv'
  BY <1>9 DEF SecretDeleted, TokenAges, OneLookAtTheClock
<1>10. ASSUME NEW c \in Clusters, ClusterChanges(c) PROVE RenewingInv'
  BY <1>10 DEF ClusterChanges
<1>11. ASSUME NEW c \in Clusters, ShootGone(c) PROVE RenewingInv'
  <2>1. /\ w'.pc = w.pc /\ w'.ar = w.ar /\ w'.gen = w.gen /\ w'.deleting = w.deleting
        /\ w'.granted = w.granted /\ w'.failed = w.failed /\ w'.timer = w.timer
    BY <1>11 DEF ShootGone, Worker
  <2> QED
    BY <1>11, <2>1 DEF ShootGone
<1> QED
  BY <1>1, <1>2, <1>3, <1>4, <1>5, <1>6, <1>7, <1>8, <1>9, <1>10, <1>11 DEF Start, Users

\* The worker grants a request that was granted only if the secret is valid, another
\* one only with a secret it has just written, and asks for the renewal of a token.
LEMMA RenewingStep ==
  ASSUME AccessInv, RenewalInv, Step
  PROVE  RenewingInv'
<1> USE DEF AccessInv, TypeOK, RenewalInv, RenewingInv, Granting, NoToken, WantedSpec,
            requestVars, statusVars, queueVars
<1>1. ASSUME w.pc # "idle", StatusError, UNCHANGED <<stage, op>>, queue \subseteq queue'
      PROVE  RenewingInv'
  BY <1>1, ErrorKeeps
<1>2. ASSUME w' = Idle PROVE RenewingInv'
  BY <1>2 DEF Idle
<1>3. ASSUME w.pc # "idle", NEW pc \in {"finalizer", "access", "ensure", "secret", "release"},
             w'.pc = pc, w'.ar = w.ar, w'.deleting = w.deleting,
             UNCHANGED <<stage, op>>, queue \subseteq queue'
      PROVE  RenewingInv'
  BY <1>3
<1>4. ASSUME NEW pc \in {"check", "finalizer", "access", "release", "settled", "status", "secret",
                         "cleanup"}, Goto(pc)
      PROVE  /\ w'.pc = pc /\ w'.ar = w.ar /\ w'.gen = w.gen /\ w'.deleting = w.deleting
             /\ w'.granted = w.granted /\ w'.failed = w.failed /\ w'.timer = w.timer
  BY <1>4, GotoKeeps DEF Calls
<1>5. CASE GetClusterAndProfile
  <2>1. StatusError \/ Goto("release") \/ Goto("access") \/ Goto("check") \/ Goto("finalizer")
    BY <1>5 DEF GetClusterAndProfile
  <2> QED
    BY <1>1, <1>3, <1>4, <1>5, <2>1 DEF GetClusterAndProfile
<1>6. CASE AddFinalizer
  <2>1. CASE StatusError
    BY <1>1, <1>6, <2>1 DEF AddFinalizer, Updated
  <2>2. CASE w' = [w EXCEPT !.pc = "check", !.gen = gen[w.ar]]
    <3>1. w'.pc = "check" /\ w'.ar = w.ar /\ w'.deleting = w.deleting /\ w'.granted = w.granted
      BY <2>2 DEF Worker
    <3>2. ~w.granted
      BY <1>6 DEF AddFinalizer, WorkerInv, CallInv, ReadInv
    <3> QED
      BY <1>6, <3>1, <3>2 DEF AddFinalizer, Updated
  <2> QED
    BY <1>6, <2>1, <2>2 DEF AddFinalizer
<1>7. CASE CheckGrant
  <2>1. CASE StatusError
    BY <1>1, <1>7, <2>1 DEF CheckGrant
  <2>2. CASE Goto("access")
    BY <1>3, <1>4, <1>7, <2>2 DEF CheckGrant
  <2>3. CASE w.granted /\ SecretIsValid /\ Goto(IF WantedSpec.token THEN "settled" ELSE "status")
    BY <1>4, <1>7, <2>3 DEF CheckGrant, SecretIsValid
  <2> QED
    BY <1>7, <2>1, <2>2, <2>3 DEF CheckGrant
<1>8. CASE ScheduleRenewal
  <2>1. ~w.deleting /\ ~w.failed /\ WantedSpec.token
    BY <1>8 DEF ScheduleRenewal, WorkerInv, CallInv, EndInv
  <2> QED
    BY <1>8, <2>1, ScheduleGoes DEF ScheduleRenewal
<1>9. CASE GetShootAccess
  BY <1>1, <1>3, <1>9, AccessGoes DEF GetShootAccess
<1>10. CASE \E o \in Objects : \/ EnsureServiceAccount(o) \/ EnsureTokenPermission(o)
                              \/ EnsureOpenIDConnect(o) \/ EnsureOIDCPermission(o)
  BY <1>10, EnsureGoes
<1>11. CASE Ensured
  BY <1>4, <1>11 DEF Ensured
<1>12. CASE WriteTokenSecret
  <2>1. CASE StatusError
    BY <1>1, <1>12, <2>1 DEF WriteTokenSecret, SecretWritten
  <2>2. CASE w' = [w EXCEPT !.pc = "cleanup", !.timer = TRUE] /\ SecretWritten("fresh")
    <3>1. /\ w'.pc = "cleanup" /\ w'.ar = w.ar /\ w'.gen = w.gen /\ w'.deleting = w.deleting
          /\ w'.granted = w.granted /\ w'.failed = w.failed /\ w'.timer
      BY <2>2 DEF Worker
    <3> QED
      BY <1>12, <2>2, <3>1 DEF WriteTokenSecret, SecretWritten
  <2> QED
    BY <1>12, <2>1, <2>2 DEF WriteTokenSecret
<1>13. CASE WriteOIDCSecret
  BY <1>1, <1>4, <1>13 DEF WriteOIDCSecret, SecretWritten
<1>14. CASE CleanupKind
  <2>1. CASE w' = [w EXCEPT !.kind = @ + 1]
    <3>1. /\ w'.pc = w.pc /\ w'.ar = w.ar /\ w'.gen = w.gen /\ w'.deleting = w.deleting
          /\ w'.granted = w.granted /\ w'.failed = w.failed /\ w'.timer = w.timer
      BY <2>1 DEF Worker
    <3> QED
      BY <1>14, <3>1 DEF CleanupKind
  <2> QED
    BY <1>1, <1>14, <2>1 DEF CleanupKind
<1>15. CASE CleanedUp
  BY <1>4, <1>15 DEF CleanedUp
<1>16. CASE RemoveFinalizer
  <2>1. CASE StatusError
    BY <1>16, <2>1, ErrorKeeps DEF RemoveFinalizer, Remove
  <2> QED
    BY <1>2, <1>16, <2>1 DEF RemoveFinalizer
<1> QED
  BY <1>2, <1>5, <1>6, <1>7, <1>8, <1>9, <1>10, <1>11, <1>12, <1>13, <1>14, <1>15, <1>16
  DEF Step, PanicOnMissingClient, UpdateStatus

\* No renewal is lost, whatever fails and crashes and whoever changes, annotates and
\* deletes requests and secrets, as long as the renewal time does not come between the
\* two looks at the clock.
THEOREM RenewalsAreAhead == ASSUME OneLookAtTheClock PROVE Spec => []RenewalIsAhead
<1>1. Init => RenewalInv
  BY DEF Init, RenewalInv, KindInv, RenewingInv, RenewalIsAhead, AtRest, Granting, Idle
<1>2. AccessInv /\ RenewalInv /\ [Next]_vars => RenewalInv'
  <2> SUFFICES ASSUME AccessInv, RenewalInv, [Next]_vars PROVE RenewalInv'
    OBVIOUS
  <2>1. KindInv'
    BY KindNext
  <2>2. CASE UNCHANGED vars
    BY <2>1, <2>2 DEF RenewalInv, RenewingInv, RenewalIsAhead, AtRest, Granting, NoToken, WantedSpec,
                vars, requestVars, statusVars, queueVars
  <2>3. CASE Next
    <3>1. RenewingInv'
      BY <2>3, RenewingStep, RenewingWorld DEF Next
    <3>2. \A r \in Requests : Renewed(r)'
      BY <2>3, RenewedStep, RenewedWorld DEF Next
    <3> QED
      BY <2>1, <3>1, <3>2 DEF RenewalInv, RenewalIsAhead, Renewed
  <2> QED
    BY <2>2, <2>3
<1>3. RenewalInv => RenewalIsAhead
  BY DEF RenewalInv
<1> QED
  BY <1>1, <1>2, <1>3, AccessInvariance, PTL DEF Spec
==================================================================================
