---------------------------- MODULE MCActivities ----------------------------
\* Instances of Activities.
EXTENDS Activities, TLC

CONSTANTS case1, case2, first, second, a, b, c, missA, missC, request, t

Plain(n) == <<[name |-> n, missed |-> missA, template |-> NoTemplate]>>
Cached(n, m) == <<[name |-> n, missed |-> m, template |-> t]>>
Of(k, in, x) == [kind |-> k, inputs |-> in, exchanges |-> x]

\* The kinds, inputs and exchanges of two activities.
Pair(f, s, vs, ss) ==
  [kind |-> first :> f.kind @@ second :> s.kind,
   inputs |-> first :> f.inputs @@ second :> s.inputs,
   exchanges |-> first :> f.exchanges @@ second :> s.exchanges, vars |-> vs, silent |-> ss]

\* A second activity that reads the first one's entry, with an evaluator of its
\* own, from its variables, or from neither.
EveryKind ==
  {Pair(Of("endpoint", {request}, Cached(a, missA) \o Plain(b)),
       Of("transform", {a, request}, Plain(c)), {second}, {}),
   Pair(Of("mongo", {request, c}, Cached(a, missA)), Of("json-schema", {a}, Plain(c)), {second}, {}),
   Pair(Of("kafka", {request}, Plain(a) \o Plain(b)), Of("script", {b}, Plain(c)), {first}, {}),
   Pair(Of("cache-get", {request}, Cached(a, missA)),
       Of("cache-set", {a, request}, Cached(c, missC)), {first}, {}),
   Pair(Of("endpoint", {request, c}, Plain(a)), Of("transform", {request}, Plain(c)), {}, {}),
   Pair(Of("response", {c}, Plain(a)), Of("echo", {request}, Plain(c)), {first, second}, {}),
   Pair(Of("request", {request}, Plain(a)), Of("echo", {request}, Plain(c)), {first}, {second}),
   Pair(Of("nop", {request}, Plain(a)), Of("json-schema", {request}, Plain(c)), {first}, {})}

\* Activities that share a cache, and a key.
Sharing ==
  {Pair(Of("endpoint", {request}, Cached(a, missA)), Of("mongo", {request}, Cached(c, missC)), {}, {}),
   Pair(Of("cache-get", {request}, Cached(a, missA)), Of("cache-set", {request}, Cached(c, missC)), {}, {}),
   Pair(Of("response-get", {request}, Cached(a, missA)),
       Of("response-set", {request}, Cached(c, missC)), {first}, {})}

Bounded(gs, bs) ==
  {[f \in DOMAIN g \cup {"bound"} |-> IF f = "bound" THEN bound ELSE g[f]] : g \in gs, bound \in bs}

One(n) == {case1 :> n @@ case2 :> 0, case1 :> 0 @@ case2 :> n}

\* Four activities of one case, three when they make several exchanges; or two of
\* one case and one of another.
MCConfigs ==
  Bounded({g \in EveryKind : Len(g.exchanges[first]) = 1}, One(4))
    \cup Bounded({g \in EveryKind : Len(g.exchanges[first]) = 2}, One(3))
    \cup Bounded(Sharing, {case1 :> 2 @@ case2 :> 1, case1 :> 1 @@ case2 :> 2})

\* Nothing tells the cases apart, nor the requests.
Symmetry == Permutations(Cases) \cup Permutations(Requests)
=============================================================================
