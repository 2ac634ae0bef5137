------------------------------ MODULE GroupMC ------------------------------
(* Model-checking instances of Group. *)
EXTENDS Group

CONSTANTS a, b, c, i1

NoKey == None
P(kind, who, num, set, ok) ==
    [kind |-> kind, who |-> who, num |-> num, set |-> set, ok |-> ok]

Create(set, n) == P("CREATE_GROUP", None, n, set, TRUE)
Add(s)         == P("ADD_STEWARD", s, 0, {}, TRUE)
Remove(s)      == P("REMOVE_STEWARD", s, 0, {}, TRUE)
Slash(s)       == P("SLASH_STEWARD", s, 0, {}, TRUE)
Threshold(n)   == P("CHANGE_THRESHOLD", None, n, {}, TRUE)
PutTo(i, v)    == P("PUT", i, v, {}, TRUE)

\* Steward churn up to the cap of two, through removal, slash and re-add (the
\* snapshot returns to earlier roots), with thresholds on both boundaries, a
\* founding above the cap and one refused for its name.
ChurnPayload ==
    {Create({a, b}, 1), Create({a, b, c}, 1), P("CREATE_GROUP", None, 1, {b}, FALSE),
     Add(b), Add(c), Remove(b), Slash(b),
     Threshold(0), Threshold(2), Threshold(3), PutTo(i1, 1)}
ChurnEnvelope == {<<a>>, <<a, b>>, <<c, a>>}

\* Two stewards who each sign alone: forks at one prior_state, replays, and
\* slashes, with an equivocation log that never evicts.
ForkPayload == {Create({a, b}, 1), Add(b), Remove(b), Slash(b), PutTo(i1, 1)}
ForkEnvelope == {<<a>>, <<b>>}

\* Any client: transitions without prior_state, a second CREATE_GROUP, a
\* founding refused for its name, the removal of every steward.
OpenPayload ==
    {Create({a}, 1), Create({a, b}, 2), P("CREATE_GROUP", None, 1, {b}, FALSE),
     Remove(a), Slash(b), Threshold(0), Threshold(2), PutTo(i1, 1)}
OpenEnvelope == {<<a>>, <<b, a>>}
=============================================================================
