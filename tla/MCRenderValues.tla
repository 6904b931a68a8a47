---------------------------- MODULE MCRenderValues ---------------------------
(* RenderValues against what it is for, over small maps. *)
EXTENDS RenderValues, FiniteSets
LOCAL INSTANCE SequencesExt

Paths == {<<"a">>, <<"b">>, <<"a", "x">>, <<"a", "y">>}
PrefixFree(ps) == \A p, q \in ps : ~IsStrictPrefix(p, q)
MapsOf(v) == {[p \in ps |-> v] : ps \in {qs \in SUBSET Paths : PrefixFree(qs)}}

(* The recursion of MergeMaps of values.go, on maps of maps; a leaf is a    *)
(* map from "" alone.                                                       *)
RECURSIVE Nested(_)
Nested(m) ==
  IF <<>> \in DOMAIN m THEN ("" :> m[<<>>])
  ELSE [k \in {Head(p) : p \in DOMAIN m} |->
          LET of == {Tail(p) : p \in {q \in DOMAIN m : Head(q) = k}} IN Nested([p \in of |-> m[<<k>> \o p]])]
IsLeaf(n) == "" \in DOMAIN n
RECURSIVE MergeNested(_, _)
MergeNested(a, b) ==
  [k \in DOMAIN a \cup DOMAIN b |->
     IF k \notin DOMAIN b THEN a[k]
     ELSE IF k \in DOMAIN a /\ ~IsLeaf(a[k]) /\ ~IsLeaf(b[k]) THEN MergeNested(a[k], b[k])
     ELSE b[k]]
RECURSIVE Leaves(_)
Leaves(n) ==
  IF IsLeaf(n) THEN {<<n[""]>>}
  ELSE UNION {{<<k>> \o l : l \in Leaves(n[k])} : k \in DOMAIN n}
PathsAndLeaves(m) == {Append(p, m[p]) : p \in DOMAIN m}

ASSUME MergesAsNested ==
  \A a \in MapsOf("1"), b \in MapsOf("2") :
    PathsAndLeaves(MergeMaps(a, b)) = Leaves(MergeNested(Nested(a), Nested(b)))

(* What a parameter sets is there, and what the deployer says of the commit *)
(* is, too; what is rendered is a map; it depends on the order of the keys  *)
(* just if one of them goes through another, and then the process may end.  *)
Provider(file, configMap, values) ==
  [env |-> <<"b">> :> "0", files |-> <<<<file>>>>, configMapRefs |-> <<[ns |-> "", name |-> "c"]>>,
   secretRefs |-> <<>>, values |-> values]
Cluster1(data) == [ns |-> "n", name |-> "c"] :> data
Parameters(v) == {[p \in ps |-> v] : ps \in SUBSET Paths}

ASSUME ParametersWin ==
  \A file \in MapsOf("1"), data \in MapsOf("2"), values \in Parameters("3") :
    LET outs == Values(Provider(file, "c", values), "n", Cluster1(data)) IN
    /\ \A o \in outs : PrefixFree(DOMAIN o.m)
    /\ PrefixFree(DOMAIN values) =>
         Cardinality(outs) = 1 /\ \A o \in outs : o.dead \/ \A p \in DOMAIN values : o.m[p] = "3"
    /\ ~PrefixFree(DOMAIN values) => \E o \in outs : o.dead

ASSUME ExtrasWin ==
  LET extra == <<"__commit">> :> "9" IN
  \A values \in {v @@ (<<"__commit">> :> "3") : v \in MapsOf("3")} :
    \A o \in TemplateValues(Provider(<<>>, "c", values), "n", Cluster1(<<>>), extra) :
      o.m[<<"__commit">>] = "9"

(* The example of values_test.go. *)
ASSUME TestValues ==
  LET global == (<<"foo">> :> "v0.1") @@ (<<"replicas">> :> "3")
                @@ (<<"service", "type">> :> "LoadBalancer") @@ (<<"addresses", "lvs">> :> "bar")
      staging == (<<"foo">> :> "v0.2") @@ (<<"replicas">> :> "3") @@ (<<"service", "type">> :> "NodePort")
      values == (<<"replicas">> :> "5") @@ (<<"service", "type">> :> "ClusterIP")
                @@ (<<"addresses", "lvs">> :> "cat")
      p == [env |-> <<>>, files |-> <<<<global>>, <<staging>>>>, configMapRefs |-> <<>>,
            secretRefs |-> <<>>, values |-> values] IN
  Values(p, "n", <<>>) = {[dead |-> FALSE, m |-> (<<"foo">> :> "v0.2") @@ values]}
=============================================================================
