---------------------------- MODULE RenderValues -----------------------------
(* The values with which the kubectl plugin renders a commit: pkg/util/     *)
(* values, and of pkg/util/strvals and pkg/template what decides which      *)
(* source of a value wins.  A map of maps is the function from the paths of *)
(* its leaves, sequences of keys, to the leaves; no map in it is empty.     *)
EXTENDS Sequences, TLC
LOCAL INSTANCE SequencesExt

Keep(m, Test(_)) == [p \in {q \in DOMAIN m : Test(q)} |-> m[p]]

(* MergeMaps: maps are merged, and everything else of b replaces what is at *)
(* its place in a.                                                          *)
MergeMaps(a, b) ==
  LET Untouched(p) == \A q \in DOMAIN b : ~IsPrefix(p, q) /\ ~IsPrefix(q, p) IN
  b @@ Keep(a, Untouched)

(* readFile: in one directory, the keys of a later file replace those of an *)
(* earlier one, maps and all.                                               *)
ReadFile(dir) ==
  LET Replace(m, file) ==
        LET Other(p) == \A q \in DOMAIN file : Head(p) # Head(q) IN file @@ Keep(m, Other) IN
  FoldLeft(Replace, <<>>, dir)

(* ParseInto: a key goes down the maps on its path and makes those that are *)
(* missing; the process ends when it comes to a leaf on its way.            *)
AtLeaf(m, path) == \E q \in DOMAIN m : IsStrictPrefix(q, path)
ParseInto(out, path, v) ==
  LET Beside(p) == ~IsPrefix(path, p) IN
  IF out.dead \/ AtLeaf(out.m, path) THEN [dead |-> TRUE, m |-> <<>>]
  ELSE [dead |-> FALSE, m |-> (path :> v) @@ Keep(out.m, Beside)]

(* The keys of a ConfigMap, a Secret or the parameters come in any order.   *)
ParseAll(out, data) ==
  LET Parse(o, path) == ParseInto(o, path, data[path]) IN
  {FoldLeft(Parse, out, keys) : keys \in SetToSeqs(DOMAIN data)}

(* New2: a reference without a namespace is to the deployer's own.          *)
InNamespace(ref, namespace) == IF ref.ns = "" THEN [ref EXCEPT !.ns = namespace] ELSE ref

(* Values: what may come of the environment, the values files, ConfigMaps,  *)
(* Secrets and parameters of p, each over the ones before it.               *)
Values(p, namespace, cluster) ==
  LET Merge(m, dir) == MergeMaps(m, ReadFile(dir))
      Refer(outs, ref) ==
        LET r == InNamespace(ref, namespace) IN
        IF r \notin DOMAIN cluster THEN {[dead |-> TRUE, m |-> <<>>]}
        ELSE UNION {ParseAll(o, cluster[r]) : o \in outs}
      files == [dead |-> FALSE, m |-> FoldLeft(Merge, p.env, p.files)] IN
  UNION {ParseAll(o, p.values) : o \in FoldLeft(Refer, {files}, p.configMapRefs \o p.secretRefs)}

(* Template: what the deployer says of the commit is over all of them.      *)
TemplateValues(p, namespace, cluster, extraValues) ==
  {[dead |-> out.dead, m |-> MergeMaps(out.m, extraValues)] : out \in Values(p, namespace, cluster)}
=============================================================================
