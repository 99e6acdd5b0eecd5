----------------------------- MODULE AccessInvariant -----------------------------
(***************************************************************************)
(* The inductive invariant of AccessRequest.                               *)
(***************************************************************************)
EXTENDS AccessRequest

\* A shoot exists only for a Cluster that is there and held (ShootLifecycle).
LifecycleInv ==
  \A c \in Clusters :
    /\ shoot[c] # "none" => c \in claimed
    /\ c \in claimed => cluster[c] # "absent"

\* Objects of different names do not get into each other's way.
UniqueNames(S) == \A o, p \in S : NameOf[o] = NameOf[p] => o = p

RequestInv ==
  \A r \in Requests :
    /\ stage[r] = "absent" => gen[r] = 0 /\ phase[r] = "none"
    /\ stage[r] # "absent" => gen[r] \in Generations
    /\ stage[r] = "deleting" => r \in held
    /\ r \in held => stage[r] # "absent"
    /\ perms[r] # {} => r \in held /\ shoot[ClusterOf[r]] # "none"
    /\ UniqueNames(perms[r])
    /\ phase[r] = "GRANTED" => r \in held /\ observed[r] <= gen[r]

\* What request r has is exactly what generation g asks for, unless its shoot has gone.
Exact(r, g) == /\ perms[r] \subseteq Wanted[r][g].objects
               /\ r \in current => perms[r] = Wanted[r][g].objects

\* Everything generation g asks for is there, except the objects S.
HasAllBut(r, g, S) == Wanted[r][g].objects \ S \subseteq perms[r]

\* What the worker read when it started is still true: a request in deletion stays so, a
\* finalizer stays, no newer generation has been observed, and the client reaches a shoot.
ReadInv ==
  LET r == w.ar
  IN
  /\ w.client => shoot[ClusterOf[r]] # "none"
  /\ w.deleting => stage[r] = "deleting" \/ w.failed
  /\ w.held => r \in held \/ w.failed
  /\ w.granted => w.held
  /\ r \in held /\ ~(w.pc = "status" /\ w.failed) =>
       w.gen <= gen[r] /\ (phase[r] = "GRANTED" => observed[r] <= w.gen)

\* A request that was found granted still has exactly what it asks for.
GrantedInv ==
  /\ w.pc = "settled" => w.granted
  /\ w.pc \in {"cluster", "check", "settled"} /\ w.granted => Exact(w.ar, w.gen)

\* Which calls are made for which requests.
CallInv ==
  /\ w.pc \in {"check", "settled", "access", "ensure", "secret", "cleanup"} => w.ar \in held
  /\ w.pc \in {"finalizer", "check", "settled", "ensure", "secret"} => ~w.deleting
  /\ w.pc = "finalizer" => ~w.held
  /\ w.pc \notin {"ensure", "status"} => ~w.failed
  /\ w.pc \notin {"cleanup", "release", "status"} => w.kind = 1
  /\ w.pc \in {"ensure", "secret", "cleanup"} /\ ~w.client => perms[w.ar] = {}

\* What the worker has created and deleted so far is as it should be.
EnsureInv ==
  /\ w.pc = "ensure" => w.todo \subseteq WantedSpec.objects
  /\ w.pc = "ensure" /\ w.client /\ ~w.failed => HasAllBut(w.ar, w.gen, w.todo)
  /\ w.pc = "secret" /\ w.client => HasAllBut(w.ar, w.gen, {}) /\ ~w.failed

CleanupInv ==
  w.pc = "cleanup" =>
    /\ ~w.deleting /\ w.client => HasAllBut(w.ar, w.gen, {})
    /\ ~w.client => w.ar \notin current
    /\ \A i \in 1..(w.kind - 1) : Unwanted(CleanupOrder[i]) = {}

EndInv ==
  /\ w.pc = "release" => w.deleting /\ perms[w.ar] = {}
  /\ w.pc = "status" /\ ~w.failed => w.ar \in held /\ ~w.deleting /\ Exact(w.ar, w.gen)

WorkerInv ==
  w.pc # "idle" => ReadInv /\ GrantedInv /\ CallInv /\ EnsureInv /\ CleanupInv /\ EndInv

\* Clusters, requests, permissions and the worker agree.
AccessInv == TypeOK /\ LifecycleInv /\ RequestInv /\ WorkerInv /\ GrantIsExact

-------------------------------------------------------------------------------
(***************************************************************************)
(* The inductive invariant of RenewalIsAhead, on top of AccessInv.         *)
(***************************************************************************)
\* The renewal time does not come between the two looks at the clock.
OneLookAtTheClock == "clock" \notin Env

\* The secret of request r, if it has one, does not expire.
NoToken(r) == secret[r] \in {"none", "static"}

\* A request that was granted without a token has none in its secret.
KindInv ==
  \A r \in Requests :
    phase[r] = "GRANTED" /\ observed[r] = gen[r] /\ ~Wanted[r][gen[r]].token => NoToken(r)

\* Calls after which a request is granted.
Granting == w.pc \in {"cleanup", "status"} /\ ~w.deleting /\ ~w.failed

\* The worker goes on to grant a request only with a secret that will be renewed, unless
\* the request is enqueued again, and it does not miss a deletion.
RenewingInv ==
  /\ w.pc = "idle" => w.ar = None
  /\ w.pc # "idle" =>
       /\ (w.pc \in {"cluster", "check"} /\ w.granted) \/ Granting
            => WantedSpec.token \/ NoToken(w.ar)
       /\ w.pc = "settled" => WantedSpec.token
       /\ w.ar \notin queue =>
            /\ w.pc = "settled" => secret[w.ar] = "fresh"
            /\ Granting => secret[w.ar] # "none" /\ (secret[w.ar] # "static" => w.timer)
            /\ op[w.ar] # "ignore" /\ stage[w.ar] = "deleting" => w.deleting

RenewalInv == KindInv /\ RenewingInv /\ RenewalIsAhead
==================================================================================
