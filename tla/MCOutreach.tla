----------------------------- MODULE MCOutreach -----------------------------
EXTENDS Outreach

CONSTANTS p1, p2, a1, a2, s1, s2, h1

OneProspect  == {p1}
TwoProspects == {p1, p2}
TwoAddresses == {a1, a2}
Homes == [p \in Prospects |-> IF p = p1 THEN a1 ELSE a2]
TwoSenders == {s1, s2}
OneHandler == {h1}

Env(faults, ops, bound, pipeline) ==
  [faults |-> faults, ops |-> ops, bound |-> bound, pipeline |-> pipeline]

OutreachModes ==
  {Env({"refused", "crash"}, {}, 0, {p1, p2}),
   Env({"refused", "lost", "crash"}, {}, 0, {p1, p2}),
   Env({"refused", "lost", "crash", "skips"}, {}, 0, {p1}),
   Env({"refused", "crash"}, Ops \ {"bounce"}, 2, {p1}),
   Env({"overlap"}, Ops \ {"score", "owner", "bounce"}, 2, {p1}),
   Env({"refused"}, {"bounce"}, 2, {p1, p2})}

NoFaults == {Env({}, {}, 0, {p1})}
=============================================================================
