--------------------------------- MODULE Versions ---------------------------------
(***************************************************************************)
(* Kubernetes versions: which of the versions of a CloudProfile a profile  *)
(* offers, and in which order (handleCreateOrUpdate and                    *)
(* determineCurrentLifecycleStage in internal/controllers/config), and     *)
(* which one a shoot gets (computeK8sVersion and UpdateShootFields in      *)
(* internal/controllers/cluster/shoot.go), while time passes, Gardener     *)
(* maintains the shoot and the template is edited.                         *)
(*                                                                         *)
(* The loops are those of the code, a stable sort is given by the place of *)
(* each element; what they ought to compute is stated with the properties, *)
(* without a loop.                                                         *)
(***************************************************************************)
EXTENDS Integers, Sequences, FiniteSets, Functions

CONSTANTS
  Minors, Patches, \* numbers of a version; a version may have no patch number
  OfferLists,      \* lists of versions a CloudProfile may have
  MaxTime,
  None             \* no patch number, start time, classification, version

(***************************************************************************)
(* A version as it is written: 1.31 and 1.31.0 are different strings.  An  *)
(* offer is an entry of spec.kubernetes.versions of a CloudProfile, with   *)
(* the old field for its classification or a list of lifecycle stages.     *)
(***************************************************************************)
K8sVersions == [minor : Minors, patch : Patches \cup {None}]
Classes == {"preview", "supported", "deprecated", "expired"}
Stages == [class : Classes, start : (0..MaxTime) \cup {None}]
Offers == [ver : K8sVersions, class : Classes \cup {None}, life : Seq(Stages)]

ASSUME ConstantsAssumption ==
  /\ Minors \subseteq Nat /\ Patches \subseteq Nat /\ 0 \in Patches
  /\ MaxTime \in Nat
  /\ OfferLists \subseteq Seq(Offers)
  /\ None \notin Nat \cup Classes \cup Stages \cup K8sVersions

VARIABLES
  now,
  offers,     \* the versions of the CloudProfile
  published,  \* supportedVersions of the ClusterProfile
  configured, \* the version in the shoot template, or None
  shoot       \* the version in the shoot, or None before it is created

vars == <<now, offers, published, configured, shoot>>

-------------------------------------------------------------------------------
(***************************************************************************)
(* Comparing and sorting.                                                  *)
(***************************************************************************)
\* A missing number counts as 0.
Patch(v) == IF v.patch = None THEN 0 ELSE v.patch
GreaterThan(a, b) == a.minor > b.minor \/ (a.minor = b.minor /\ Patch(a) > Patch(b))

\* A CloudProfile lists no version twice: Gardener does not admit it.
ASSUME OffersDiffer ==
  \A list \in OfferLists : \A i, j \in DOMAIN list :
    i # j => GreaterThan(list[i].ver, list[j].ver) \/ GreaterThan(list[j].ver, list[i].ver)

\* The place of i when the set I of indices is sorted: behind those that come
\* before it in R, and behind the earlier ones that it does not come before.
Place(I, R, i) == Cardinality({j \in I : <<j, i>> \in R \/ (j < i /\ <<i, j>> \notin R)}) + 1

SortStable(I, R) == [n \in 1..Cardinality(I) |-> CHOOSE i \in I : Place(I, R, i) = n]

-------------------------------------------------------------------------------
(***************************************************************************)
(* The versions a profile offers.                                          *)
(***************************************************************************)
StartsBefore(a, b) ==
  IF a.start = None THEN b.start # None ELSE b.start # None /\ a.start < b.start

Started(s) == s.start = None \/ s.start <= now

\* Mutant of LaterStage: the first stage that has started stays.
FirstStage(current, s) == IF current = None THEN s ELSE current

\* One turn of the loop over the sorted stages that have started.
LaterStage(current, s) ==
  IF current = None \/ current.start = None \/ s.start > current.start
  THEN s ELSE current

ByStart(life) ==
  {p \in (DOMAIN life) \X (DOMAIN life) : StartsBefore(life[p[1]], life[p[2]])}

\* The stages are sorted, so the loop stops at the first that has not started.
Turns(stages) ==
  CHOOSE n \in 0..Len(stages) :
    /\ \A i \in 1..n : Started(stages[i])
    /\ n < Len(stages) => ~Started(stages[n + 1])

\* The loop: the stage it holds after its turns.
LoopOver(stages) ==
  LET current[n \in 0..Len(stages)] ==
        IF n = 0 THEN None ELSE LaterStage(current[n - 1], stages[n])
  IN  current[Turns(stages)]

CurrentLifecycleStage(life) ==
  LET order == SortStable(DOMAIN life, ByStart(life))
  IN  LoopOver([n \in DOMAIN life |-> life[order[n]]])

\* A version without classification and lifecycle is left out; one none of whose
\* stages has started is taken.
Offered(o) ==
  LET stage == CurrentLifecycleStage(o.life)
      usable == {"supported", "deprecated"}
  IN  IF o.class # None THEN o.class \in usable
      ELSE /\ o.life # <<>>
           /\ stage = None \/ stage.class \in usable

Deprecated(o) ==
  LET stage == CurrentLifecycleStage(o.life)
  IN  IF o.class # None THEN o.class = "deprecated"
      ELSE stage # None /\ stage.class = "deprecated"

\* Mutant of NewerFirst: in the order of the minor version only.
NewerMinorFirst(a, b) == a.ver.minor > b.ver.minor

NewerFirst(a, b) == GreaterThan(a.ver, b.ver)

ByVersion(I) == {p \in I \X I : NewerFirst(offers[p[1]], offers[p[2]])}

SupportedK8sVersions ==
  LET kept == {i \in DOMAIN offers : Offered(offers[i])}
      order == SortStable(kept, ByVersion(kept))
  IN  [n \in DOMAIN order |->
         [ver |-> offers[order[n]].ver, deprecated |-> Deprecated(offers[order[n]])]]

-------------------------------------------------------------------------------
(***************************************************************************)
(* The version of a shoot.                                                 *)
(***************************************************************************)
\* Mutant of computeK8sVersion: an equal version is taken over as well.
computeK8sVersionAtLeast(conf, existing) ==
  IF existing = None \/ (conf # None /\ ~GreaterThan(existing, conf))
  THEN conf ELSE existing

computeK8sVersion(conf, existing) ==
  IF existing = None THEN conf
  ELSE IF conf # None /\ GreaterThan(conf, existing) THEN conf
  ELSE existing

-------------------------------------------------------------------------------
Init ==
  /\ now = 0
  /\ offers \in OfferLists
  /\ published = <<>>
  /\ configured = None
  /\ shoot = None

\* A ProviderConfig is reconciled.
Publish ==
  /\ published' = SupportedK8sVersions
  /\ UNCHANGED <<now, offers, configured, shoot>>

\* A Cluster is reconciled.  Gardener refuses a shoot without a version.
UpdateShoot ==
  /\ shoot' = computeK8sVersion(configured, shoot)
  /\ shoot' # None
  /\ UNCHANGED <<now, offers, published, configured>>

\* Gardener sets a missing patch number, or raises it in a maintenance window.
Maintain ==
  /\ shoot # None
  /\ \E n \in {p \in Patches : shoot.patch = None \/ p > shoot.patch} :
       shoot' = [shoot EXCEPT !.patch = n]
  /\ UNCHANGED <<now, offers, published, configured>>

\* The template is edited, usually to a version that is on offer.
Configure ==
  /\ \E i \in DOMAIN published :
       configured' \in {published[i].ver, [published[i].ver EXCEPT !.patch = None]}
  /\ UNCHANGED <<now, offers, published, shoot>>

Tick ==
  /\ now < MaxTime
  /\ now' = now + 1
  /\ UNCHANGED <<offers, published, configured, shoot>>

Next == Publish \/ UpdateShoot \/ Maintain \/ Configure \/ Tick

Spec == Init /\ [][Next]_vars

-------------------------------------------------------------------------------
(***************************************************************************)
(* Properties.                                                             *)
(***************************************************************************)
TypeOK ==
  /\ now \in 0..MaxTime
  /\ offers \in OfferLists
  /\ published \in Seq([ver : K8sVersions, deprecated : BOOLEAN])
  /\ configured \in K8sVersions \cup {None}
  /\ shoot \in K8sVersions \cup {None}

\* The stage "which has most recently started" (config/controller.go:427): a stage
\* of the version that has started, and no other has started after it.
StageIsTheLatest ==
  \A o \in Range(offers) :
    LET stage == CurrentLifecycleStage(o.life)
        started == {s \in Range(o.life) : Started(s)}
    IN  IF started = {} THEN stage = None
        ELSE stage \in started /\ \A s \in started : ~StartsBefore(stage, s)

\* "we want the newest version on the top" (config/controller.go:269), and no
\* version is lost or listed twice by sorting.
NewestOnTop ==
  /\ \A i, j \in DOMAIN published :
       i < j => GreaterThan(published[i].ver, published[j].ver)
  /\ \A i \in DOMAIN published : \E o \in Range(offers) : o.ver = published[i].ver

\* What the list p says of offer o agrees with the class that o has now: a version in
\* preview or expired is not on the list, one that is supported or deprecated is, and
\* it is marked deprecated exactly if it is.
RightlyListed(o, p) ==
  LET started == {s \in Range(o.life) : Started(s)}
      latest == {s \in started : \A t \in started : ~StartsBefore(s, t)}
      class == IF o.class # None THEN {o.class} ELSE {s.class : s \in latest}
      entries == {e \in Range(p) : e.ver = o.ver}
  IN  /\ entries # {} /\ class # {} =>
           class \cap {IF e.deprecated THEN "deprecated" ELSE "supported"
                         : e \in entries} # {}
      /\ class # {} /\ class \subseteq {"supported", "deprecated"} => entries # {}

\* What is published has the right classification at that moment (the lifecycle and
\* the old field of config/controller.go:237-265).
PublishedAsClassified ==
  [][published' # published =>
       \A o \in Range(offers) : RightlyListed(o, published')]_vars

\* A version that is in no stage yet is not on offer ("we don't consider other
\* lifecycle stages (e.g. 'preview', 'expired') as supported",
\* config/controller.go:258).
NotOfferedBeforeItsTime ==
  [][published' # published =>
       \A o \in Range(offers) :
         o.class = None /\ (\A s \in Range(o.life) : ~Started(s)) =>
           \A p \in Range(published') : p.ver # o.ver]_vars

\* "To not cause any unplanned shoot updates, a configured version without a patch
\* number is considered to be less than an existing version with a patch number
\* (that is otherwise identical)" (cluster/shoot.go:219): the version written in a
\* shoot changes only to a higher one, or when Gardener completes it, however the
\* template and maintenance take turns.
ShootOnlyRises ==
  [][shoot # None /\ shoot' # shoot =>
       \/ GreaterThan(shoot', shoot)
       \/ shoot.patch = None /\ shoot'.minor = shoot.minor]_vars
=============================================================================
