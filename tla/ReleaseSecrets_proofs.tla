------------------------ MODULE ReleaseSecrets_proofs ------------------------
(***************************************************************************)
(* The Secrets a worker mounts (module ReleaseController), for every value *)
(* of the constants but SameSecond: of two Secrets of the same second the  *)
(* code may take either for the latest, and the one in use for the other.  *)
(***************************************************************************)
EXTENDS ReleaseController_proofs

AllSecrets == secrets \cup secretsC
AllDeploys == deploys \cup deploysC

(* A name is that of one Secret, alive or cached, and of one Deployment,   *)
(* of which the cache may have an older version; so is an age.             *)
SecretsApart == \A x, y \in AllSecrets : x.name = y.name \/ x.created = y.created => x = y

SameDeploy(x, y) == x.created = y.created /\ x.ns = y.ns

DeploysApart ==
    /\ \A x, y \in deploys : x.name = y.name => x = y
    /\ \A x, y \in deploysC : x.name = y.name => x = y
    /\ \A x, y \in AllDeploys : /\ x.name = y.name => SameDeploy(x, y)
                                /\ x.created = y.created => x.name = y.name

(* Only Secrets the cache knows are mounted: a younger one is not in use.  *)
MountsKnown == \A x \in secrets \ secretsC, d \in AllDeploys : d.secret # x.name

(* A Deployment mounts, as time goes on, ever younger Secrets.             *)
MountsYounger ==
    \A c \in deploysC, d \in deploys, s, t \in AllSecrets :
       c.name = d.name /\ c.secret = s.name /\ s.ns = c.ns /\ d.secret = t.name
         => s.created <= t.created

MountInv == SecretsApart /\ DeploysApart /\ MountsKnown /\ MountsYounger

(* In remote mode all there is lives in the system namespace.              *)
RemoteHome ==
    /\ \A x \in AllSecrets \cup AllDeploys : x.ns = "system"
    /\ rel.status.ns \in {"", "system"} /\ relC.status.ns \in {"", "system"}

(* Before a deletion, no Deployment has gone, and a cache that knows one   *)
(* knows them all; the latest Secret of the cache has not gone either.     *)
NoneGone ==
    /\ \A c \in deploysC : \E d \in deploys : d.name = c.name
    /\ deploysC # {} => \A d \in deploys : \E c \in deploysC : c.name = d.name
    /\ \A s \in Youngest(secretsC) : s \in secrets
    /\ \A d \in Youngest(deploys) : \E s \in secrets : s.name = d.secret /\ s.ns = d.ns

RemoteInv ==
    Remote => /\ RemoteHome
              /\ relC.deleting => rel.deleting
              /\ ~rel.deleting => NoneGone

-----------------------------------------------------------------------------
(* MountInv: what leaves objects alone or removes them. *)

LEMMA CreatedType == ASSUME TypeOK
                     PROVE  /\ \A x \in AllSecrets : x.created \in Nat
                            /\ \A x \in AllDeploys : x.created \in Nat
  BY DEF TypeOK, AllSecrets, AllDeploys, Secrets, Deployments

LEMMA RemovalKeepsMounts ==
  ASSUME MountInv, secrets' \subseteq secrets, deploys' \subseteq deploys,
         UNCHANGED <<secretsC, deploysC>>
  PROVE  MountInv'
  <1>1. AllSecrets' \subseteq AllSecrets /\ AllDeploys' \subseteq AllDeploys
    BY DEF AllSecrets, AllDeploys
  <1>2. SecretsApart'
    BY <1>1 DEF MountInv, SecretsApart
  <1>3. DeploysApart'
    BY <1>1 DEF MountInv, DeploysApart, SameDeploy
  <1>4. MountsKnown'
    BY <1>1 DEF MountInv, MountsKnown
  <1>5. MountsYounger'
    BY <1>1 DEF MountInv, MountsYounger
  <1>6. QED
    BY <1>2, <1>3, <1>4, <1>5 DEF MountInv

(* The call makes no object, but for three of its ways out. *)
LEMMA SyncRemoves ==
  ASSUME Sync, ~SyncCreateSecret, ~SyncCreateDeployment, ~SyncUpdateDeployment
  PROVE  secrets' \subseteq secrets /\ deploys' \subseteq deploys
  BY DEF Sync, SyncNothing, SyncDelete, SyncCleanupFails, SyncFinalizer, SyncNamespace, SyncPhase,
         SyncRecordSecret, SyncObserve, SyncDeleteSecret, SyncPrune, Cleanup, objects

(* Secrets catch up.                                                       *)
LEMMA SecretsCatchUp ==
  ASSUME MountInv, UNCHANGED <<secrets, deploys, deploysC>>, secretsC' = secrets
  PROVE  MountInv'
  <1>1. AllSecrets' \subseteq AllSecrets /\ AllDeploys' = AllDeploys
    BY DEF AllSecrets, AllDeploys
  <1>2. SecretsApart'
    BY <1>1 DEF MountInv, SecretsApart
  <1>3. DeploysApart'
    BY <1>1 DEF MountInv, DeploysApart, SameDeploy
  <1>4. MountsKnown'
    BY DEF MountsKnown
  <1>5. MountsYounger'
    BY <1>1 DEF MountInv, MountsYounger
  <1>6. QED
    BY <1>2, <1>3, <1>4, <1>5 DEF MountInv

(* Deployments catch up: every name has one version.                       *)
LEMMA DeploysCatchUp ==
  ASSUME TypeOK, MountInv, UNCHANGED <<secrets, deploys, secretsC>>, deploysC' = deploys
  PROVE  MountInv'
  <1>1. AllSecrets' = AllSecrets /\ AllDeploys' \subseteq AllDeploys
    BY DEF AllSecrets, AllDeploys
  <1>2. SecretsApart'
    BY <1>1 DEF MountInv, SecretsApart
  <1>3. DeploysApart'
    BY <1>1 DEF MountInv, DeploysApart, SameDeploy
  <1>4. MountsKnown'
    BY <1>1 DEF MountInv, MountsKnown
  <1>5. MountsYounger'
    <2> SUFFICES ASSUME NEW c \in deploys, NEW d \in deploys, NEW s \in AllSecrets, NEW t \in AllSecrets,
                        c.name = d.name, c.secret = s.name, d.secret = t.name
                 PROVE  s.created <= t.created
      BY <1>1 DEF MountsYounger
    <2>1. c = d
      BY DEF MountInv, DeploysApart
    <2>2. s = t
      BY <2>1 DEF MountInv, SecretsApart
    <2>3. QED
      BY <2>2, CreatedType
  <1>6. QED
    BY <1>2, <1>3, <1>4, <1>5 DEF MountInv

(* A new version of a Deployment that mounts what the old one mounts.      *)
LEMMA NewVersionKeepsMounts ==
  ASSUME MountInv, NEW d \in deploys, NEW e,
         e.name = d.name, e.created = d.created, e.ns = d.ns, e.secret = d.secret,
         deploys' = (deploys \ {d}) \cup {e}, UNCHANGED <<secrets, secretsC, deploysC>>
  PROVE  MountInv'
  <1>1. AllSecrets' = AllSecrets
    BY DEF AllSecrets
  <1>2. \A x \in deploys' : \E y \in deploys : /\ x.name = y.name /\ x.created = y.created
                                             /\ x.ns = y.ns /\ x.secret = y.secret
    OBVIOUS
  <1>3. \A x \in AllDeploys' : \E y \in AllDeploys : /\ x.name = y.name /\ x.created = y.created
                                                   /\ x.ns = y.ns /\ x.secret = y.secret
    BY <1>2 DEF AllDeploys
  <1>4. SecretsApart'
    BY <1>1 DEF MountInv, SecretsApart
  <1>5. DeploysApart'
    <2>1. ASSUME NEW x \in deploys', NEW y \in deploys', x.name = y.name PROVE x = y
      BY <2>1 DEF MountInv, DeploysApart
    <2>2. \A x, y \in deploysC' : x.name = y.name => x = y
      BY DEF MountInv, DeploysApart
    <2>3. ASSUME NEW x \in AllDeploys', NEW y \in AllDeploys'
          PROVE  /\ x.name = y.name => SameDeploy(x, y)
                 /\ x.created = y.created => x.name = y.name
      BY <1>3 DEF MountInv, DeploysApart, SameDeploy
    <2>4. QED
      BY <2>1, <2>2, <2>3 DEF DeploysApart, SameDeploy
  <1>6. MountsKnown'
    BY <1>3 DEF MountInv, MountsKnown
  <1>7. MountsYounger'
    BY <1>1, <1>2 DEF MountInv, MountsYounger
  <1>8. QED
    BY <1>4, <1>5, <1>6, <1>7 DEF MountInv

-----------------------------------------------------------------------------
(* The three ways out that make something. *)

LEMMA NewAgeNew == ASSUME ~SameSecond, TypeOK, NEW S, \A x \in S : x.created \in Nat,
                          NEW N \in Nat, NEW t \in NewAge(S, 1..N)
                   PROVE  t \in Nat /\ \A x \in S : x.created < t
  BY DEF NewAge

LEMMA CreateSecretMounts ==
  ASSUME ~SameSecond, TypeOK, MountInv, SyncCreateSecret, UNCHANGED <<secretsC, deploysC>>
  PROVE  MountInv'
  <1>1. PICK n \in NewName(SecretsInUse), t \in NewAge(secrets \cup secretsC, 1..SecretAges) :
          secrets' = secrets \cup {[name |-> n, created |-> t, ns |-> PodNamespace(relC), data |-> ref]}
    BY DEF SyncCreateSecret
  <1> DEFINE new == [name |-> n, created |-> t, ns |-> PodNamespace(relC), data |-> ref]
  <1>2. AllSecrets' = AllSecrets \cup {new} /\ new.name = n /\ new.created = t
    BY <1>1 DEF AllSecrets
  <1>3. t \in Nat /\ \A x \in AllSecrets : x.created < t
    BY CreatedType, NewAgeNew, BoundsAssumption DEF AllSecrets
  <1>4. \A x \in AllSecrets : x.name # n
    BY DEF NewName, SecretsInUse, AllSecrets
  <1>5. \A d \in AllDeploys : d.secret # n
    BY DEF NewName, SecretsInUse, AllDeploys
  <1>6. deploys' = deploys /\ AllDeploys' = AllDeploys /\ secrets' = secrets \cup {new}
    BY <1>1 DEF SyncCreateSecret, AllDeploys
  <1> HIDE DEF new
  <1>7. SecretsApart'
    <2>1. \A x \in AllSecrets : x.created # t /\ x.name # n
      BY <1>3, <1>4, CreatedType
    <2>2. QED
      BY <1>2, <2>1 DEF MountInv, SecretsApart
  <1>8. DeploysApart'
    BY <1>6 DEF MountInv, DeploysApart, SameDeploy
  <1>9. MountsKnown'
    BY <1>2, <1>5, <1>6 DEF MountInv, MountsKnown
  <1>10. MountsYounger'
    <2> SUFFICES ASSUME NEW c \in deploysC, NEW d \in deploys,
                        NEW x \in AllSecrets', NEW y \in AllSecrets',
                        c.name = d.name, c.secret = x.name, x.ns = c.ns, d.secret = y.name
                 PROVE  x.created <= y.created
      BY <1>6 DEF MountsYounger
    <2>1. x \in AllSecrets /\ y \in AllSecrets
      BY <1>2, <1>5 DEF AllDeploys
    <2>2. QED
      BY <2>1 DEF MountInv, MountsYounger
  <1>11. QED
    BY <1>7, <1>8, <1>9, <1>10 DEF MountInv

LEMMA CreateDeploymentMounts ==
  ASSUME ~SameSecond, TypeOK, MountInv, SyncCreateDeployment, UNCHANGED <<secretsC, deploysC>>
  PROVE  MountInv'
  <1> DEFINE Blank(n, t) == [name |-> n, created |-> t, ns |-> PodNamespace(relC),
                             template |-> Template(relC.spec), secret |-> 0, replicas |-> 0,
                             first |-> TRUE, observed |-> FALSE, available |-> FALSE]
  <1>1. PICK s \in secretsC, n \in NewName(DeploysInUse),
             t \in NewAge(deploys \cup deploysC, 1..DeployAges) :
          deploys' = deploys \cup {Wanted(Blank(n, t), relC, s)}
    BY DEF SyncCreateDeployment
  <1> DEFINE new == Wanted(Blank(n, t), relC, s)
  <1>2. new.name = n /\ new.created = t /\ new.secret = s.name
    BY DEF Wanted
  <1>3. t \in Nat /\ \A x \in AllDeploys : x.created < t
    BY CreatedType, NewAgeNew, BoundsAssumption DEF AllDeploys
  <1>4. \A x \in AllDeploys : x.name # n
    BY DEF NewName, DeploysInUse, AllDeploys
  <1>5. secrets' = secrets /\ AllSecrets' = AllSecrets
    BY DEF SyncCreateDeployment, AllSecrets
  <1>6. deploys' = deploys \cup {new} /\ AllDeploys' = AllDeploys \cup {new}
    BY <1>1 DEF AllDeploys
  <1> HIDE DEF new
  <1>7. SecretsApart'
    BY <1>5 DEF MountInv, SecretsApart
  <1>8. DeploysApart'
    <2>1. \A x \in AllDeploys : x.name # new.name /\ x.created # new.created
      BY <1>2, <1>3, <1>4, CreatedType
    <2>2. \A x, y \in deploys' : x.name = y.name => x = y
      BY <1>6, <2>1 DEF MountInv, DeploysApart, AllDeploys
    <2>3. ASSUME NEW x \in AllDeploys', NEW y \in AllDeploys'
          PROVE  /\ x.name = y.name => SameDeploy(x, y)
                 /\ x.created = y.created => x.name = y.name
      BY <1>6, <2>1 DEF MountInv, DeploysApart, SameDeploy
    <2>4. QED
      BY <2>2, <2>3 DEF MountInv, DeploysApart, SameDeploy
  <1>9. MountsKnown'
    <2>1. \A x \in secrets \ secretsC : s.name # x.name
      BY DEF MountInv, SecretsApart, AllSecrets
    <2>2. QED
      BY <1>2, <1>5, <1>6, <2>1 DEF MountInv, MountsKnown
  <1>10. MountsYounger'
    <2>1. \A c \in deploysC : c.name # new.name
      BY <1>2, <1>4 DEF AllDeploys
    <2>2. QED
      BY <1>5, <1>6, <2>1 DEF MountInv, MountsYounger
  <1>11. QED
    BY <1>7, <1>8, <1>9, <1>10 DEF MountInv

(* The Deployment the cache holds mounts the latest Secret the cache holds.*)
LEMMA UpdateDeploymentMounts ==
  ASSUME TypeOK, MountInv, SyncUpdateDeployment, UNCHANGED <<secretsC, deploysC>>
  PROVE  MountInv'
  <1>1. PICK s \in secretsC, d \in deploysC :
          /\ Recorded(relC, s) /\ d \in Youngest(OwnDeploys(relC))
          /\ deploys' = {e \in deploys : e.name # d.name} \cup
                          {[Wanted(d, relC, s) EXCEPT !.first = FALSE, !.observed = FALSE]}
    BY DEF SyncUpdateDeployment
  <1> DEFINE new == [Wanted(d, relC, s) EXCEPT !.first = FALSE, !.observed = FALSE]
  <1>2. new.name = d.name /\ new.created = d.created /\ new.ns = d.ns /\ new.secret = s.name
    BY DEF Wanted, TypeOK, Deployments
  <1>3. s \in Youngest(OwnSecrets(relC)) /\ d.ns = PodNamespace(relC)
    BY <1>1 DEF Recorded, Equipped, Youngest, OwnDeploys
  <1>4. secrets' = secrets /\ AllSecrets' = AllSecrets
    BY DEF SyncUpdateDeployment, AllSecrets
  <1>5. deploys' = {e \in deploys : e.name # d.name} \cup {new}
    BY <1>1
  <1> HIDE DEF new
  <1>6. SecretsApart'
    BY <1>4 DEF MountInv, SecretsApart
  <1>7. DeploysApart'
    <2>1. \A x, y \in deploys' : x.name = y.name => x = y
      BY <1>2, <1>5 DEF MountInv, DeploysApart
    <2>2. \A x \in AllDeploys' : \E y \in AllDeploys : x.name = y.name /\ x.created = y.created /\ x.ns = y.ns
      BY <1>2, <1>5 DEF AllDeploys
    <2>3. ASSUME NEW x \in AllDeploys', NEW y \in AllDeploys'
          PROVE  /\ x.name = y.name => SameDeploy(x, y)
                 /\ x.created = y.created => x.name = y.name
      BY <2>2 DEF MountInv, DeploysApart, SameDeploy
    <2>4. QED
      BY <2>1, <2>3 DEF MountInv, DeploysApart, SameDeploy
  <1>8. MountsKnown'
    <2>1. \A x \in secrets \ secretsC : s.name # x.name
      BY DEF MountInv, SecretsApart, AllSecrets
    <2>2. \A x \in AllDeploys' : x \in AllDeploys \/ x.secret = s.name
      BY <1>2, <1>5 DEF AllDeploys
    <2>3. QED
      BY <1>4, <2>1, <2>2 DEF MountInv, MountsKnown
  <1>9. MountsYounger'
    <2> SUFFICES ASSUME NEW c \in deploysC, NEW e \in deploys',
                        NEW x \in AllSecrets, NEW y \in AllSecrets,
                        c.name = e.name, c.secret = x.name, x.ns = c.ns, e.secret = y.name
                 PROVE  x.created <= y.created
      BY <1>4 DEF MountsYounger
    <2>1. CASE e \in deploys
      BY <2>1 DEF MountInv, MountsYounger
    <2>2. CASE e = new
      <3>1. c = d
        BY <1>2, <2>2 DEF MountInv, DeploysApart
      <3>2. y = s
        BY <1>2, <2>2 DEF MountInv, SecretsApart, AllSecrets
      <3>3. x \in secretsC
        BY DEF MountInv, MountsKnown, AllSecrets, AllDeploys
      <3>4. x \in OwnSecrets(relC)
        BY <1>3, <3>1, <3>3 DEF OwnSecrets
      <3>5. QED
        BY <1>3, <3>2, <3>4 DEF Youngest
    <2>3. QED
      BY <1>5, <2>1, <2>2
  <1>10. QED
    BY <1>6, <1>7, <1>8, <1>9 DEF MountInv

-----------------------------------------------------------------------------
(* Every step keeps MountInv. *)

LEMMA SyncMounts == ASSUME ~SameSecond, TypeOK, MountInv, Sync PROVE MountInv'
  <1>1. UNCHANGED <<secretsC, deploysC>>
    BY DEF Sync, caches
  <1>2. CASE SyncCreateSecret
    BY <1>1, <1>2, CreateSecretMounts
  <1>3. CASE SyncCreateDeployment
    BY <1>1, <1>3, CreateDeploymentMounts
  <1>4. CASE SyncUpdateDeployment
    BY <1>1, <1>4, UpdateDeploymentMounts
  <1>5. CASE ~SyncCreateSecret /\ ~SyncCreateDeployment /\ ~SyncUpdateDeployment
    BY <1>1, <1>5, SyncRemoves, RemovalKeepsMounts
  <1>6. QED
    BY <1>2, <1>3, <1>4, <1>5

(* What Kubernetes does to a Deployment is to its status.                  *)
LEMMA KubeSets ==
  ASSUME TypeOK, Kube \/ PodFails
  PROVE  /\ UNCHANGED <<rel, relC, secrets, secretsC, deploysC>>
         /\ \/ UNCHANGED deploys
            \/ \E d \in deploys : \E e :
                  /\ deploys' = (deploys \ {d}) \cup {e}
                  /\ e.name = d.name /\ e.created = d.created /\ e.ns = d.ns /\ e.secret = d.secret
  <1>0. deploys \subseteq Deployments
    BY DEF TypeOK
  <1>1. UNCHANGED <<rel, relC, secrets, secretsC, deploysC>>
    BY DEF Kube, KubeObserve, KubeStart, KubeReady, PodFails, objects, caches
  <1>2. CASE KubeObserve
    <2>1. PICK d \in deploys : \E b \in BOOLEAN :
            deploys' = (deploys \ {d}) \cup {[d EXCEPT !.observed = TRUE, !.available = b]}
      BY <1>2 DEF KubeObserve, SetDeployment
    <2>2. PICK b \in BOOLEAN : deploys' = (deploys \ {d}) \cup {[d EXCEPT !.observed = TRUE, !.available = b]}
      BY <2>1
    <2> DEFINE e == [d EXCEPT !.observed = TRUE, !.available = b]
    <2>3. e.name = d.name /\ e.created = d.created /\ e.ns = d.ns /\ e.secret = d.secret
      BY <1>0 DEF Deployments
    <2> HIDE DEF e
    <2>4. QED
      BY <1>1, <2>2, <2>3 DEF e
  <1>3. CASE KubeStart
    BY <1>1, <1>3 DEF KubeStart, objects
  <1>4. CASE KubeReady
    <2>1. PICK d \in deploys : deploys' = (deploys \ {d}) \cup {[d EXCEPT !.available = TRUE]}
      BY <1>4 DEF KubeReady, SetDeployment
    <2> DEFINE e == [d EXCEPT !.available = TRUE]
    <2>2. e.name = d.name /\ e.created = d.created /\ e.ns = d.ns /\ e.secret = d.secret
      BY <1>0 DEF Deployments
    <2>3. QED
      BY <1>1, <2>1, <2>2
  <1>5. CASE PodFails
    <2>1. PICK d \in deploys :
            UNCHANGED deploys \/ deploys' = (deploys \ {d}) \cup {[d EXCEPT !.available = FALSE]}
      BY <1>5 DEF PodFails, SetDeployment
    <2> DEFINE e == [d EXCEPT !.available = FALSE]
    <2>2. e.name = d.name /\ e.created = d.created /\ e.ns = d.ns /\ e.secret = d.secret
      BY <1>0 DEF Deployments
    <2>3. QED
      BY <1>1, <2>1, <2>2
  <1>6. QED
    BY <1>2, <1>3, <1>4, <1>5 DEF Kube

LEMMA OthersMounts == ASSUME TypeOK, MountInv, [Next /\ ~Sync]_vars PROVE MountInv'
  <1>1. CASE RefreshSecrets
    BY <1>1, SecretsCatchUp DEF RefreshSecrets, objects
  <1>2. CASE RefreshDeployments
    BY <1>2, DeploysCatchUp DEF RefreshDeployments, objects
  <1>3. CASE Restart
    <2>1. /\ UNCHANGED <<secrets, deploys>> /\ secretsC' = secrets /\ deploysC' = deploys
      BY <1>3 DEF Restart, objects
    <2>2. AllSecrets' \subseteq AllSecrets /\ AllDeploys' \subseteq AllDeploys
      BY <2>1 DEF AllSecrets, AllDeploys
    <2>3. SecretsApart' /\ MountsKnown'
      BY <2>1, <2>2 DEF MountInv, SecretsApart, MountsKnown
    <2>4. DeploysApart'
      BY <2>1, <2>2 DEF MountInv, DeploysApart, SameDeploy
    <2>5. MountsYounger'
      <3> SUFFICES ASSUME NEW c \in deploys, NEW d \in deploys, NEW s \in secrets, NEW t \in secrets,
                          c.name = d.name, c.secret = s.name, d.secret = t.name
                   PROVE  s.created <= t.created
        BY <2>1 DEF MountsYounger, AllSecrets
      <3>1. c = d
        BY DEF MountInv, DeploysApart
      <3>2. s = t
        BY <3>1 DEF MountInv, SecretsApart, AllSecrets
      <3>3. QED
        BY <3>2, CreatedType DEF AllSecrets
    <2>6. QED
      BY <2>3, <2>4, <2>5 DEF MountInv
  <1>4. CASE Kube \/ PodFails
    BY <1>4, KubeSets, NewVersionKeepsMounts, RemovalKeepsMounts
  <1>5. CASE RefreshRelease \/ User \/ Deployer \/ UNCHANGED vars
    <2>1. UNCHANGED <<secrets, deploys, secretsC, deploysC>>
      BY <1>5 DEF RefreshRelease, User, Edit, SwitchNamespace, Delete, ChangeRefSecret, Deployer,
                  PodBegins, PodDeploys, PodChecks, PodRechecks, PodTestFails, Patch,
                  objects, caches, vars
    <2>2. QED
      BY <2>1, RemovalKeepsMounts
  <1>6. QED
    BY <1>1, <1>2, <1>3, <1>4, <1>5 DEF Next, Informers

THEOREM MountsCorrect == ASSUME ~SameSecond PROVE Spec => []MountInv
  <1>1. Init => MountInv
    BY DEF Init, MountInv, SecretsApart, DeploysApart, MountsKnown, MountsYounger,
           AllSecrets, AllDeploys
  <1>2. TypeOK /\ MountInv /\ [Next]_vars => MountInv'
    BY SyncMounts, OthersMounts
  <1>3. QED
    BY <1>1, <1>2, TypeCorrect, PTL DEF Spec

-----------------------------------------------------------------------------
(* MountedSecretKept. *)

(* The step of the property, for one Deployment.                           *)
LEMMA SyncKeepsMounted ==
  ASSUME ~SameSecond, TypeOK, MountInv, Sync,
         NEW d \in deploys, NEW t \in secrets,
         NEW c \in Youngest(OwnDeploys(relC)), c.name = d.name,
         t.name = d.secret, t.ns = d.ns,
         NEW e \in deploys', e.name = d.name
  PROVE  t \in secrets'
  <1>1. SUFFICES ASSUME t \notin secrets' PROVE FALSE
    OBVIOUS
  <1>2. ASSUME NEW ns, Cleanup(ns) PROVE FALSE
    <2>1. t.ns = ns /\ d.ns = ns
      BY <1>1, <1>2 DEF Cleanup
    <2>2. e \in deploys /\ e.ns # ns
      BY <1>2 DEF Cleanup
    <2>3. e = d
      BY <2>2 DEF MountInv, DeploysApart
    <2>4. QED
      BY <2>1, <2>2, <2>3
  <1>3. CASE SyncCleanupFails
    <2>0. PICK ns \in ToCleanup(relC) :
            \E D \in SUBSET {x \in deploys : x.ns = ns}, S \in SUBSET {x \in secrets : x.ns = ns} :
              /\ S # {} => D = {x \in deploys : x.ns = ns}
              /\ deploys' = deploys \ D
              /\ secrets' = secrets \ S
      BY <1>3 DEF SyncCleanupFails
    <2>1. PICK D \in SUBSET {x \in deploys : x.ns = ns}, S \in SUBSET {x \in secrets : x.ns = ns} :
            /\ S # {} => D = {x \in deploys : x.ns = ns}
            /\ deploys' = deploys \ D
            /\ secrets' = secrets \ S
      BY <2>0
    <2>2. t \in S /\ d \in D /\ e \in deploys \ D
      BY <1>1, <2>1
    <2>3. e = d
      BY <2>2 DEF MountInv, DeploysApart
    <2>4. QED
      BY <2>2, <2>3
  <1>4. CASE SyncDeleteSecret
    <2>1. PICK s \in secretsC, dc \in deploysC, old \in secretsC :
            /\ Observed(relC, s, dc) /\ old \in OwnSecrets(relC) \ {s}
            /\ secrets' = secrets \ {old}
      BY <1>4 DEF SyncDeleteSecret
    <2>2. /\ s \in Youngest(OwnSecrets(relC))
          /\ dc \in Youngest(OwnDeploys(relC)) /\ Wanted(dc, relC, s) = dc
      BY <2>1 DEF Observed, Deployed, Recorded, Equipped
    <2>3. t = old
      BY <1>1, <2>1
    <2>4. c \in deploysC /\ dc \in deploysC /\ c.created <= dc.created /\ dc.created <= c.created
      BY <2>2 DEF Youngest, OwnDeploys
    <2>5. c = dc
      <3>1. c.created = dc.created
        BY <2>4, CreatedType DEF AllDeploys
      <3>2. c.name = dc.name
        BY <2>4, <3>1 DEF MountInv, DeploysApart, AllDeploys
      <3>3. QED
        BY <2>4, <3>2 DEF MountInv, DeploysApart
    <2>6. c.secret = s.name /\ s.ns = c.ns
      <3>1. Wanted(dc, relC, s).secret = s.name
        BY <2>4 DEF Wanted, TypeOK, Deployments
      <3>2. QED
        BY <2>2, <2>5, <3>1 DEF Youngest, OwnDeploys, OwnSecrets
    <2>7. s.created <= t.created
      BY <2>4, <2>6 DEF MountInv, MountsYounger, AllSecrets
    <2>8. t.created <= s.created
      BY <2>1, <2>2, <2>3 DEF Youngest
    <2>9. s = t
      <3>1. s.created = t.created
        BY <2>7, <2>8, CreatedType DEF AllSecrets
      <3>2. QED
        BY <3>1 DEF MountInv, SecretsApart, AllSecrets
    <2>10. QED
      BY <2>1, <2>3, <2>9
  <1>5. CASE SyncDelete \/ SyncNamespace
    <2>1. UNCHANGED secrets \/ \E ns : Cleanup(ns)
      BY <1>5 DEF SyncDelete, SyncNamespace
    <2>2. QED
      BY <1>1, <1>2, <2>1
  <1>6. CASE secrets \subseteq secrets'
    BY <1>1, <1>6
  <1>7. QED
    BY <1>3, <1>4, <1>5, <1>6
       DEF Sync, SyncNothing, SyncFinalizer, SyncPhase, SyncCreateSecret, SyncRecordSecret,
           SyncCreateDeployment, SyncUpdateDeployment, SyncObserve, SyncPrune, objects

(* No call takes away the Secret the worker it knows mounts, while that    *)
(* worker is there: not the cleanup of unused Secrets, which looks at an   *)
(* old Deployment and at some of the Secrets, not that of a namespace.     *)
THEOREM AlwaysMountedSecretKept == ASSUME ~SameSecond PROVE Spec => MountedSecretKept
  <1> DEFINE Keeps ==
        \A s \in secrets \ secrets', d \in deploys :
          /\ s.name = d.secret /\ s.ns = d.ns
          /\ \E c \in Youngest(OwnDeploys(relC)) : c.name = d.name
          => \A e \in deploys' : e.name # d.name
  <1>1. TypeOK /\ MountInv /\ [Next]_vars => [Keeps]_vars
    <2> SUFFICES ASSUME TypeOK, MountInv, [Next]_vars PROVE Keeps
      OBVIOUS
    <2>1. CASE Sync
      BY <2>1, SyncKeepsMounted
    <2>2. CASE Kube \/ PodFails
      BY <2>2, KubeSets
    <2>3. CASE Informers \/ Restart \/ User \/ Deployer \/ UNCHANGED vars
      BY <2>3
         DEF Informers, RefreshRelease, RefreshSecrets, RefreshDeployments, Restart, User, Edit,
             SwitchNamespace, Delete, ChangeRefSecret, Deployer, PodBegins, PodDeploys, PodChecks,
             PodRechecks, PodTestFails, Patch, objects, vars
    <2>4. QED
      BY <2>1, <2>2, <2>3 DEF Next
  <1>2. QED
    BY <1>1, TypeCorrect, MountsCorrect, PTL DEF Spec, MountedSecretKept

-----------------------------------------------------------------------------
(* MountedSecretExists: remote mode.  A cleanup of a namespace is that of  *)
(* a Release being deleted, for the others all is in the one namespace.    *)

LEMMA RemotePlace ==
  ASSUME Remote, Valid(relC)
  PROVE  PodNamespace(relC) = "system"
  BY DEF Valid, PodNamespace

LEMMA RemoteOwn ==
  ASSUME Remote, RemoteHome, Valid(relC)
  PROVE  OwnSecrets(relC) = secretsC /\ OwnDeploys(relC) = deploysC
  BY RemotePlace DEF RemoteHome, OwnSecrets, OwnDeploys, AllSecrets, AllDeploys

LEMMA RecordedValid == ASSUME NEW s, Recorded(relC, s) PROVE Valid(relC) /\ s \in Youngest(OwnSecrets(relC))
  BY DEF Recorded, Equipped, Phased, Placed

(* What a call does to the Release, as far as this part goes. *)
LEMMA SyncRemoteRelease ==
  ASSUME Remote, TypeOK, CacheCurrent, RemoteHome, Sync
  PROVE  rel'.status.ns \in {"", "system"} /\ rel'.deleting = rel.deleting
  <1>0. relC \in Releases /\ rel \in Releases /\ relC.status \in Statuses
    BY DEF TypeOK, Releases
  <1>1. CASE UNCHANGED rel
    BY <1>1 DEF RemoteHome
  <1>2. ASSUME NEW status, UpdateStatus(status), status.ns \in {"", "system"}
        PROVE  rel'.status.ns \in {"", "system"} /\ rel'.deleting = rel.deleting
    BY <1>0, <1>2 DEF UpdateStatus, Releases
  <1>3. CASE SyncDelete \/ SyncFinalizer
    <2>1. relC = rel
      BY <1>3, AcceptedIsCurrent DEF SyncDelete, SyncFinalizer, Update
    <2>2. rel'.status = rel.status /\ rel'.deleting = relC.deleting
      BY <1>0, <1>3 DEF SyncDelete, SyncFinalizer, Update, Releases
    <2>3. QED
      BY <2>1, <2>2 DEF RemoteHome
  <1>4. CASE SyncNamespace
    <2> DEFINE status == [relC.status EXCEPT
                            !.ns = PodNamespace(relC),
                            !.deployerPhase = IF relC.status.ns = "" THEN "Pending" ELSE @]
    <2>1. UpdateStatus(status) /\ Valid(relC)
      BY <1>4 DEF SyncNamespace
    <2>2. status.ns = "system"
      BY <1>0, <2>1, RemotePlace DEF Statuses
    <2> HIDE DEF status
    <2>3. QED
      BY <1>2, <2>1, <2>2
  <1>5. CASE SyncPhase
    <2>1. PICK phase, conditions :
            UpdateStatus([relC.status EXCEPT !.phase = phase, !.conditions = conditions])
      BY <1>5 DEF SyncPhase
    <2>2. [relC.status EXCEPT !.phase = phase, !.conditions = conditions].ns = relC.status.ns
      BY <1>0 DEF Statuses
    <2>3. QED
      BY <1>2, <2>1, <2>2 DEF RemoteHome
  <1>6. CASE SyncRecordSecret
    <2>1. PICK n : UpdateStatus([relC.status EXCEPT !.secret = n])
      BY <1>6 DEF SyncRecordSecret
    <2>2. [relC.status EXCEPT !.secret = n].ns = relC.status.ns
      BY <1>0 DEF Statuses
    <2>3. QED
      BY <1>2, <2>1, <2>2 DEF RemoteHome
  <1>7. CASE SyncObserve
    <2>1. PICK d : UpdateStatus(ObservedStatus(relC, d))
      BY <1>7 DEF SyncObserve
    <2>2. ObservedStatus(relC, d).ns = relC.status.ns
      BY <1>0 DEF ObservedStatus, Statuses
    <2>3. QED
      BY <1>2, <2>1, <2>2 DEF RemoteHome
  <1>8. CASE SyncPrune
    <2>1. \/ UNCHANGED rel
          \/ \E conditions : UpdateStatus([relC.status EXCEPT !.conditions = conditions])
      BY <1>8 DEF SyncPrune
    <2>2. \A conditions : [relC.status EXCEPT !.conditions = conditions].ns = relC.status.ns
      BY <1>0 DEF Statuses
    <2>3. QED
      BY <1>1, <1>2, <2>1, <2>2 DEF RemoteHome
  <1>9. QED
    BY <1>1, <1>3, <1>4, <1>5, <1>6, <1>7, <1>8
       DEF Sync, SyncNothing, SyncCleanupFails, SyncCreateSecret, SyncCreateDeployment,
           SyncUpdateDeployment, SyncDeleteSecret, objects

LEMMA SyncRemoteHome ==
  ASSUME Remote, TypeOK, CacheCurrent, RemoteHome, Sync
  PROVE  RemoteHome'
  <1>0. UNCHANGED <<relC, secretsC, deploysC>>
    BY DEF Sync, caches
  <1>1. \A x \in secrets' : x.ns = "system"
    <2>1. CASE SyncCreateSecret
      <3>1. PICK n, t : secrets' = secrets \cup
              {[name |-> n, created |-> t, ns |-> PodNamespace(relC), data |-> ref]}
        BY <2>1 DEF SyncCreateSecret
      <3>2. PodNamespace(relC) = "system"
        BY <2>1, RemotePlace DEF SyncCreateSecret, Phased, Placed
      <3> DEFINE new == [name |-> n, created |-> t, ns |-> PodNamespace(relC), data |-> ref]
      <3>3. new.ns = "system" /\ secrets' = secrets \cup {new}
        BY <3>1, <3>2
      <3> HIDE DEF new
      <3>4. QED
        BY <3>3 DEF RemoteHome, AllSecrets
    <2>2. CASE SyncCreateDeployment \/ SyncUpdateDeployment
      BY <2>2 DEF SyncCreateDeployment, SyncUpdateDeployment, RemoteHome, AllSecrets
    <2>3. QED
      BY <2>1, <2>2, SyncRemoves DEF RemoteHome, AllSecrets
  <1>2. \A x \in deploys' : x.ns = "system"
    <2>1. CASE SyncCreateDeployment
      <3> DEFINE Blank(n, t) == [name |-> n, created |-> t, ns |-> PodNamespace(relC),
                                 template |-> Template(relC.spec), secret |-> 0, replicas |-> 0,
                                 first |-> TRUE, observed |-> FALSE, available |-> FALSE]
      <3>1. PICK s, n, t :
              s \in secretsC /\ Recorded(relC, s) /\ deploys' = deploys \cup {Wanted(Blank(n, t), relC, s)}
        BY <2>1 DEF SyncCreateDeployment
      <3>2. Wanted(Blank(n, t), relC, s).ns = "system"
        BY <3>1, RecordedValid, RemotePlace DEF Wanted
      <3>3. QED
        BY <3>1, <3>2 DEF RemoteHome, AllDeploys
    <2>2. CASE SyncUpdateDeployment
      <3>1. PICK s \in secretsC, d \in deploysC :
              deploys' = {e \in deploys : e.name # d.name} \cup
                            {[Wanted(d, relC, s) EXCEPT !.first = FALSE, !.observed = FALSE]}
        BY <2>2 DEF SyncUpdateDeployment
      <3>2. [Wanted(d, relC, s) EXCEPT !.first = FALSE, !.observed = FALSE].ns = "system"
        BY DEF Wanted, TypeOK, Deployments, RemoteHome, AllDeploys
      <3>3. QED
        BY <3>1, <3>2 DEF RemoteHome, AllDeploys
    <2>3. CASE SyncCreateSecret
      BY <2>3 DEF SyncCreateSecret, RemoteHome, AllDeploys
    <2>4. QED
      BY <2>1, <2>2, <2>3, SyncRemoves DEF RemoteHome, AllDeploys
  <1>3. QED
    BY <1>0, <1>1, <1>2, SyncRemoteRelease DEF RemoteHome, AllSecrets, AllDeploys

(* The ways out that are closed, or change no object.                      *)
LEMMA RemoteSyncKeeps ==
  ASSUME Remote, TypeOK, RemoteHome, ~relC.deleting, Sync,
         ~SyncCreateSecret, ~SyncCreateDeployment, ~SyncUpdateDeployment, ~SyncDeleteSecret
  PROVE  UNCHANGED <<secrets, deploys>>
  <1>1. ToCleanup(relC) = {}
    BY RemotePlace DEF ToCleanup, RemoteHome
  <1>2. SyncNamespace => UNCHANGED <<secrets, deploys>>
    BY RemotePlace DEF SyncNamespace, RemoteHome
  <1>3. QED
    BY <1>1, <1>2
       DEF Sync, SyncNothing, SyncDelete, SyncCleanupFails, SyncFinalizer, SyncPhase,
           SyncRecordSecret, SyncObserve, SyncPrune, objects

(* The latest of one set are those of the other, where the ages are.       *)
LEMMA YoungestOf ==
  ASSUME NEW D, NEW E, NEW x \in Youngest(E), NEW y \in D, y.created = x.created,
         \A z \in D : \E u \in E : u.created = z.created
  PROVE  y \in Youngest(D)
  BY DEF Youngest

LEMMA UpdateKeepsNoneGone ==
  ASSUME Remote, TypeOK, MountInv, RemoteHome, NoneGone, SyncUpdateDeployment,
         UNCHANGED <<secretsC, deploysC>>
  PROVE  NoneGone'
  <1>1. PICK s \in secretsC, d \in deploysC :
          /\ Recorded(relC, s) /\ d \in Youngest(OwnDeploys(relC))
          /\ deploys' = {e \in deploys : e.name # d.name} \cup
                          {[Wanted(d, relC, s) EXCEPT !.first = FALSE, !.observed = FALSE]}
    BY DEF SyncUpdateDeployment
  <1> DEFINE new == [Wanted(d, relC, s) EXCEPT !.first = FALSE, !.observed = FALSE]
  <1>2. new.name = d.name /\ new.created = d.created /\ new.ns = d.ns /\ new.secret = s.name
    BY DEF Wanted, TypeOK, Deployments
  <1>3. secrets' = secrets
    BY DEF SyncUpdateDeployment
  <1>4. deploys' = {e \in deploys : e.name # d.name} \cup {new}
    BY <1>1
  <1> HIDE DEF new
  <1>5. \A x \in deploys : \E y \in deploys' : y.name = x.name /\ y.created = x.created
    BY <1>2, <1>4 DEF MountInv, DeploysApart, SameDeploy, AllDeploys
  <1>6. \A c \in deploysC' : \E e \in deploys' : e.name = c.name
    BY <1>5 DEF NoneGone
  <1>7. \A e \in deploys' : \E c \in deploysC : c.name = e.name
    BY <1>2, <1>4 DEF NoneGone
  <1>8. s \in Youngest(secretsC) /\ s.ns = "system" /\ d.ns = "system"
    BY <1>1, RecordedValid, RemoteOwn DEF RemoteHome, AllSecrets, AllDeploys
  <1>9. ASSUME NEW x \in Youngest(deploys')
        PROVE  \E t \in secrets : t.name = x.secret /\ t.ns = x.ns
    <2>1. CASE x = new
      BY <1>2, <1>8, <2>1 DEF NoneGone
    <2>2. CASE x \in deploys
      <3>1. x \in Youngest(deploys)
        BY <1>5, <2>2, YoungestOf
      <3>2. QED
        BY <3>1 DEF NoneGone
    <2>3. x \in deploys'
      BY DEF Youngest
    <2>4. QED
      BY <1>4, <2>1, <2>2, <2>3
  <1>10. QED
    BY <1>3, <1>6, <1>7, <1>9 DEF NoneGone

LEMMA CreateKeepsNoneGone ==
  ASSUME ~SameSecond, Remote, TypeOK, RemoteHome, NoneGone, SyncCreateDeployment,
         UNCHANGED <<secretsC, deploysC>>
  PROVE  NoneGone'
  <1> DEFINE Blank(n, t) == [name |-> n, created |-> t, ns |-> PodNamespace(relC),
                             template |-> Template(relC.spec), secret |-> 0, replicas |-> 0,
                             first |-> TRUE, observed |-> FALSE, available |-> FALSE]
  <1>1. PICK s \in secretsC, n \in NewName(DeploysInUse),
             t \in NewAge(deploys \cup deploysC, 1..DeployAges) :
          /\ Recorded(relC, s) /\ OwnDeploys(relC) = {}
          /\ deploys' = deploys \cup {Wanted(Blank(n, t), relC, s)}
    BY DEF SyncCreateDeployment
  <1> DEFINE new == Wanted(Blank(n, t), relC, s)
  <1>2. new.created = t /\ new.secret = s.name /\ new.ns = PodNamespace(relC)
    BY DEF Wanted
  <1>3. t \in Nat /\ \A x \in AllDeploys : x.created < t
    BY CreatedType, NewAgeNew, BoundsAssumption DEF AllDeploys
  <1>4. deploys' = deploys \cup {new} /\ secrets' = secrets
    BY <1>1 DEF SyncCreateDeployment
  <1> HIDE DEF new
  <1>5. deploysC = {} /\ s \in Youngest(secretsC) /\ s.ns = "system" /\ new.ns = "system"
    BY <1>1, <1>2, RecordedValid, RemoteOwn, RemotePlace DEF RemoteHome, AllSecrets
  <1>6. ASSUME NEW x \in Youngest(deploys') PROVE x = new
    <2>1. t <= x.created /\ x \in deploys'
      BY <1>2, <1>4 DEF Youngest
    <2>2. x \notin deploys
      BY <1>3, <2>1, CreatedType DEF AllDeploys
    <2>3. QED
      BY <1>4, <2>1, <2>2
  <1>7. QED
    BY <1>2, <1>4, <1>5, <1>6 DEF NoneGone

LEMMA DeleteKeepsNoneGone ==
  ASSUME ~SameSecond, Remote, TypeOK, MountInv, RemoteHome, NoneGone, Sync, SyncDeleteSecret,
         UNCHANGED <<secretsC, deploysC>>
  PROVE  NoneGone'
  <1>1. PICK s \in secretsC, d \in deploysC, old \in secretsC :
          /\ Recorded(relC, s) /\ old # s
          /\ secrets' = secrets \ {old}
    BY DEF SyncDeleteSecret, Observed, Deployed
  <1>2. deploys' = deploys
    BY DEF SyncDeleteSecret
  <1>3. Valid(relC) /\ s \in Youngest(secretsC)
    BY <1>1, RecordedValid, RemoteOwn
  <1>4. ASSUME NEW x \in Youngest(secretsC) PROVE x \in secrets'
    <2>1. x \in secretsC /\ x.created <= s.created /\ s.created <= x.created
      BY <1>3 DEF Youngest
    <2>2. x.created = s.created
      BY <2>1, CreatedType DEF AllSecrets
    <2>3. x = s
      BY <2>1, <2>2 DEF MountInv, SecretsApart, AllSecrets
    <2>4. QED
      BY <1>1, <2>3 DEF NoneGone
  <1>5. ASSUME NEW x \in Youngest(deploys)
        PROVE  \E t \in secrets' : t.name = x.secret /\ t.ns = x.ns
    <2>1. PICK t \in secrets : t.name = x.secret /\ t.ns = x.ns
      BY DEF NoneGone
    <2>2. x \in deploys
      BY DEF Youngest
    <2>3. PICK c \in deploysC : c.name = x.name
      BY <2>2 DEF NoneGone
    <2>4. c.created = x.created
      BY <2>2, <2>3 DEF MountInv, DeploysApart, SameDeploy, AllDeploys
    <2>5. \A z \in deploysC : \E u \in deploys : u.created = z.created
      BY DEF NoneGone, MountInv, DeploysApart, SameDeploy, AllDeploys
    <2>6. c \in Youngest(OwnDeploys(relC))
      BY <1>3, <2>4, <2>5, YoungestOf, RemoteOwn
    <2>7. t \in secrets'
      BY <1>2, <2>1, <2>2, <2>3, <2>6, SyncKeepsMounted
    <2>8. QED
      BY <2>1, <2>7
  <1>6. QED
    BY <1>2, <1>4, <1>5 DEF NoneGone

LEMMA SyncRemote ==
  ASSUME ~SameSecond, TypeOK, CacheCurrent, MountInv, RemoteInv, Sync
  PROVE  RemoteInv'
  <1> SUFFICES ASSUME Remote PROVE RemoteInv'
    BY DEF RemoteInv
  <1>0. UNCHANGED <<relC, secretsC, deploysC>> /\ RemoteHome
    BY DEF Sync, caches, RemoteInv
  <1>1. RemoteHome' /\ rel'.deleting = rel.deleting
    BY <1>0, SyncRemoteHome, SyncRemoteRelease
  <1>2. ASSUME ~rel.deleting PROVE NoneGone'
    <2>1. NoneGone /\ ~relC.deleting
      BY <1>2 DEF RemoteInv
    <2>2. CASE SyncCreateSecret
      <3>1. secrets \subseteq secrets' /\ deploys' = deploys
        BY <2>2 DEF SyncCreateSecret
      <3>2. QED
        BY <1>0, <2>1, <3>1 DEF NoneGone
    <2>3. CASE SyncCreateDeployment
      BY <1>0, <2>1, <2>3, CreateKeepsNoneGone
    <2>4. CASE SyncUpdateDeployment
      BY <1>0, <2>1, <2>4, UpdateKeepsNoneGone
    <2>5. CASE SyncDeleteSecret
      BY <1>0, <2>1, <2>5, DeleteKeepsNoneGone
    <2>6. CASE UNCHANGED <<secrets, deploys>>
      BY <1>0, <2>1, <2>6 DEF NoneGone
    <2>7. QED
      BY <1>0, <2>1, <2>2, <2>3, <2>4, <2>5, <2>6, RemoteSyncKeeps
  <1>3. QED
    BY <1>0, <1>1, <1>2 DEF RemoteInv

LEMMA KubeRemote ==
  ASSUME TypeOK, RemoteInv, Kube \/ PodFails
  PROVE  RemoteInv'
  <1>1. UNCHANGED <<rel, relC, secrets, secretsC, deploysC>>
    BY KubeSets
  <1>2. /\ \A x \in deploys' : \E y \in deploys : /\ x.name = y.name /\ x.created = y.created
                                                /\ x.ns = y.ns /\ x.secret = y.secret
        /\ \A y \in deploys : \E x \in deploys' : x.name = y.name /\ x.created = y.created
    BY KubeSets
  <1>3. RemoteHome => RemoteHome'
    BY <1>1, <1>2 DEF RemoteHome, AllSecrets, AllDeploys
  <1>4. ASSUME NoneGone PROVE NoneGone'
    <2>1. ASSUME NEW x \in Youngest(deploys')
          PROVE  \E s \in secrets : s.name = x.secret /\ s.ns = x.ns
      <3>1. PICK y \in deploys : /\ x.name = y.name /\ x.created = y.created
                                 /\ x.ns = y.ns /\ x.secret = y.secret
        BY <1>2 DEF Youngest
      <3>2. y \in Youngest(deploys)
        BY <1>2, <3>1, YoungestOf
      <3>3. QED
        BY <1>4, <3>1, <3>2 DEF NoneGone
    <2>2. QED
      BY <1>1, <1>2, <1>4, <2>1 DEF NoneGone
  <1>5. QED
    BY <1>1, <1>3, <1>4 DEF RemoteInv

LEMMA OthersRemote == ASSUME TypeOK, RemoteInv, [Next /\ ~Sync]_vars PROVE RemoteInv'
  <1>1. CASE Kube \/ PodFails
    BY <1>1, KubeRemote
  <1>2. CASE Informers \/ Restart
    <2>1. /\ UNCHANGED <<rel, secrets, deploys>>
          /\ relC' \in {relC, rel} /\ secretsC' \in {secretsC, secrets} /\ deploysC' \in {deploysC, deploys}
      BY <1>2 DEF Informers, RefreshRelease, RefreshSecrets, RefreshDeployments, Restart, objects
    <2>2. RemoteHome => RemoteHome'
      BY <2>1 DEF RemoteHome, AllSecrets, AllDeploys
    <2>3. NoneGone => NoneGone'
      <3> SUFFICES ASSUME NoneGone PROVE NoneGone'
        OBVIOUS
      <3>1. \A c \in deploysC' : \E d \in deploys : d.name = c.name
        BY <2>1 DEF NoneGone
      <3>2. deploysC' # {} => \A d \in deploys : \E c \in deploysC' : c.name = d.name
        BY <2>1 DEF NoneGone
      <3>3. \A s \in Youngest(secretsC') : s \in secrets
        BY <2>1 DEF NoneGone, Youngest
      <3>4. QED
        BY <2>1, <3>1, <3>2, <3>3 DEF NoneGone
    <2>4. QED
      BY <2>1, <2>2, <2>3 DEF RemoteInv
  <1>3. CASE User \/ Deployer \/ UNCHANGED vars
    <2>1. UNCHANGED <<relC, secrets, deploys, secretsC, deploysC>>
      BY <1>3 DEF User, Edit, SwitchNamespace, Delete, ChangeRefSecret, Deployer,
                  PodBegins, PodDeploys, PodChecks, PodRechecks, PodTestFails, Patch,
                  objects, caches, vars
    <2>2. rel'.status.ns = rel.status.ns /\ (rel.deleting => rel'.deleting)
      <3>1. CASE UNCHANGED rel
        BY <3>1
      <3>2. CASE Edit \/ SwitchNamespace \/ Delete
        BY <3>2 DEF Edit, SwitchNamespace, Delete, TypeOK, Releases
      <3>3. ASSUME NEW applied, NEW type, Patch(applied, type)
            PROVE  rel'.status.ns = rel.status.ns /\ rel'.deleting = rel.deleting
        BY <3>3 DEF Patch, TypeOK, Releases, Statuses
      <3>4. QED
        BY <1>3, <3>1, <3>2, <3>3
           DEF User, ChangeRefSecret, Deployer, PodBegins, PodDeploys, PodChecks, PodRechecks,
               PodTestFails, objects, vars
    <2>3. RemoteHome => RemoteHome'
      BY <2>1, <2>2 DEF RemoteHome, AllSecrets, AllDeploys
    <2>4. NoneGone => NoneGone'
      BY <2>1 DEF NoneGone
    <2>5. QED
      BY <2>1, <2>2, <2>3, <2>4 DEF RemoteInv
  <1>4. QED
    BY <1>1, <1>2, <1>3 DEF Next

(* A controller in remote mode: the worker can start, or start again, at   *)
(* any time before the deletion, with the Secret it mounts in place.       *)
THEOREM AlwaysMountedSecretExists == ASSUME ~SameSecond PROVE Spec => []MountedSecretExists
  <1>1. Init => RemoteInv
    <2> SUFFICES ASSUME Init PROVE RemoteInv
      OBVIOUS
    <2>1. rel.status = NewStatus /\ relC = rel /\ ~rel.deleting
      BY DEF Init
    <2>2. NewStatus.ns = ""
      BY DEF NewStatus
    <2>3. secrets = {} /\ secretsC = {} /\ deploys = {} /\ deploysC = {}
      BY DEF Init
    <2>4. QED
      BY <2>1, <2>2, <2>3 DEF RemoteInv, RemoteHome, NoneGone, AllSecrets, AllDeploys, Youngest
  <1>2. TypeOK /\ HomeInv /\ MountInv /\ RemoteInv /\ [Next]_vars => RemoteInv'
    BY SyncRemote, OthersRemote DEF HomeInv
  <1>3. RemoteInv => MountedSecretExists
    BY DEF RemoteInv, NoneGone, MountedSecretExists
  <1>4. QED
    BY <1>1, <1>2, <1>3, TypeCorrect, HomeCorrect, MountsCorrect, PTL DEF Spec
=============================================================================
