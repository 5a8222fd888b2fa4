--------------------------- MODULE MCEventIngestion ---------------------------
(* Instances of EventIngestion for model checking.                         *)
EXTENDS EventIngestion, TLC

CONSTANTS r1, r2, r3, b1, b2, k1, x1, x2, i1, i2

\* x1 is about the account, x2 is broadcast; i1 wants both, i2 neither.
MCConcerned == x1 :> {b1} @@ x2 :> {b1, b2}
MCWants == {<<i1, x1>>, <<i1, x2>>}

Patch(status, intent, expiresAt) ==
  [status |-> status, intent |-> intent, expiresAt |-> expiresAt]

In(kind, key, on, body) == [kind |-> kind, key |-> key, on |-> on, body |-> body]

Ingest1 == In("ingest", k1, None, x1)
Ingest2 == In("ingest", k1, None, x2)
Create == In("create", k1, None, [intent |-> i1, expiresAt |-> Never])
Activate(b) == In("patch", k1, b, Patch("active", None, None))
Change == In("patch", k1, b1, Patch("expired", i1, 2))
Extend == In("patch", k1, b1, Patch(None, i1, 2))
Noop == In("patch", k1, b1, Patch(None, None, None))
Revoke(b) == In("revoke", k1, b, None)

\* One event sent twice and again with another body; the same event against a
\* briefing that changes; two revocations and a patch; one briefing created
\* three times; a briefing created while a broadcast is matched.
MCSends == {<<Ingest1, Ingest1, Ingest2>>, <<Ingest1, Ingest2, Extend>>,
            <<Ingest1, Change, Revoke(b1)>>, <<Revoke(b1), Revoke(b1), Activate(b1)>>,
            <<Create, Create, Create>>, <<Create, Ingest2, Revoke(b2)>>,
            <<In("ingest", None, None, x1), Noop, Activate(b2)>>}
MCScenarios == {r1 :> t[1] @@ r2 :> t[2] @@ r3 :> t[3] : t \in MCSends}
MCInputs == UNION {{t[n] : n \in 1 .. 3} : t \in MCSends}
===============================================================================
