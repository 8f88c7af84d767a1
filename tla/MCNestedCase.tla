---------------------------- MODULE MCNestedCase ----------------------------
\* Instances of NestedCase.
EXTENDS NestedCase

CONSTANTS sub, each, body, req2, request

OnStatus(st, v, e) == [status |-> st, vars |-> v, error |-> e]
Over(s, e, t, b) == [start |-> s, end |-> e, step |-> t, breaks |-> b]

With(r, acts, s, n, m) ==
  [range |-> r, actions |-> acts, steps |-> s, runs |-> n, size |-> m]

Up == Over(0, 2, 1, FALSE)

\* A default listed before an error for 500; a default after another one.
DefaultFirst == <<OnStatus(AnyStatus, FALSE, "none"), OnStatus(500, FALSE, "always")>>
TwoDefaults ==
  <<OnStatus(200, TRUE, "none"), OnStatus(AnyStatus, FALSE, "none"),
    OnStatus(AnyStatus, FALSE, "guarded")>>

\* Large children; several activities and runs; loops of every shape.
MCConfigs ==
  {With(Up, <<>>, 1, 2, 3), With(Over(0, 1, 1, FALSE), <<>>, 2, 2, 2), With(Up, TwoDefaults, 2, 4, 1),
   With(Over(0, 3, 2, TRUE), DefaultFirst, 2, 4, 1),
   With(Over(0, 1, 0, TRUE), DefaultFirst, 1, 4, 1),
   With(Over(2, 0, -1, FALSE), <<>>, 1, 3, 1)}

\* A loop that does not start at 0.
LateStart == {With(Over(1, 3, 1, FALSE), <<>>, 1, 3, 1)}
=============================================================================
