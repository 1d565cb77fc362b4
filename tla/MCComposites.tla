--------------------------- MODULE MCComposites ---------------------------
(***************************************************************************)
(* Composites for TLC: the network of the README's migration guide before  *)
(* and after it (README.md:372-396), the same network in a second          *)
(* namespace, and a claim.                                                 *)
(***************************************************************************)
EXTENDS Composites, TLC

CONSTANTS old, teamA, teamB, claim, g1, k1, s1, s2

LOCAL INSTANCE SequencesExt

Network ==
  [NoComposite EXCEPT !.group = "aws.platform.upbound.io", !.version = "v1alpha1",
                      !.kind = "Network", !.name = "my-network"]

FourNetworks ==
  (old :> [Network EXCEPT !.kind = "XNetwork"]) @@
  (teamA :> [Network EXCEPT !.namespace = "team-a"]) @@
  (teamB :> [Network EXCEPT !.namespace = "team-b"]) @@
  (claim :> [Network EXCEPT !.kind = "XNetwork", !.claimNamespace = "team-a",
                            !.claimName = "my-network"])

Enabled == "enable-external-store" :> "true"
OnConfigMap == Enabled @@ "store-type" :> "k8sconfigmap"
Purged == Enabled @@ "purge-external-store" :> "yes"
Migrated ==
  Enabled @@ "override-kind" :> "XNetwork" @@ "override-namespace" :> "none"
          @@ "restore-only" :> "true"

HowTheyAreAnnotated ==
  [o \in Owners |->
     CASE o = old -> {<<>>, OnConfigMap, Purged}
       [] o = teamA -> {OnConfigMap, OnConfigMap @@ Migrated}
       [] o = teamB -> {OnConfigMap}
       [] OTHER -> {Enabled @@ "cluster-id" :> "west"}]

\* What the theorems about keys assume.
ASSUME NetworksDiffer == ManifestsDiffer
ASSUME NetworksFollowTheGuide == GuideFollowed

---------------------------------------------------------------------------

C == INSTANCE Credentials

Half == [C!NoCredentials EXCEPT !["accessKeyId"] = k1]
Whole == [Half EXCEPT !["secretAccessKey"] = s1]

Lines ==
  {C!Section(TRUE), C!Section(FALSE), C!Assignment("accessKeyId", k1),
   C!Assignment("secretAccessKey", s1), C!Assignment("secretAccessKey", s2), C!Other}

\* Absent, JSON of every kind, and text: a profile with one of its keys, and up
\* to two more lines of any kind.
AllSecrets ==
  {C!NoSecret, C!JSON(C!NoCredentials, FALSE), C!JSON(C!NoCredentials, TRUE),
   C!JSON(Half, FALSE), C!JSON(Whole, FALSE)}
  \cup {C!Text(<<h, C!Assignment("accessKeyId", k1)>> \o more) :
          h \in {C!Section(TRUE), C!Section(FALSE)},
          more \in BoundedSeq(Lines, 2)}
===========================================================================
