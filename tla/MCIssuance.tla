------------------------------ MODULE MCIssuance ------------------------------
(* Instances of Issuance, and with it of Administration.                   *)
EXTENDS Issuance, TLC

CONSTANTS o1, o2, o3, i1, i2, a1, a2, p1, p2, app1, app2, app3, stranger, n1, n2, money, read, gone,
          alice, bob, j1

Op(kind, on, body) == [admin |-> TRUE, kind |-> kind, on |-> on, body |-> body]
Noise == [admin |-> FALSE, kind |-> "change", on |-> a1, body |-> None]

Register(class, owner) ==
  Op("register", a2, [class |-> class, owner |-> owner, client |-> None, name |-> n1])
Change(status, name) == Op("change", a1, [status |-> status, name |-> name])

Put(on, id, app, v, w) ==
  Op("put", on, [id |-> id, app |-> app, value |-> "whitelist" :> v @@ "posture" :> w])

Row(category, friction, ttl, amount) ==
  [category |-> category, friction |-> friction, ttl |-> ttl, amount |-> amount,
   period |-> None, rail |-> "identiti", status |-> "active"]
MoneyRow == Row("write_money", "low", 2, 5)
ReadRow == Row("read", "low", 3, None)
Define(id) == Op("define", id, ReadRow)

MCScopeRows == {MoneyRow, ReadRow, [ReadRow EXCEPT !.status = "deprecated"]}
MCCatalogue == money :> MoneyRow @@ read :> None @@ gone :> [ReadRow EXCEPT !.status = "deprecated"]

\* Three changes of an agent; puts of one policy, of two of an app, of one
\* that moves; a scope defined twice and an agent registered.
MCSends == {
  <<Change("suspended", None), Change("active", n2), Change("retired", n1)>>,
  <<Put(p1, p1, app1, 1, None), Put(p1, p1, app1, None, 1), Put(p1, p1, app1, 2, 2)>>,
  <<Put(p1, p1, app1, 1, None), Put(p2, p2, app1, None, 1), Put(p1, p1, app2, None, 2)>>,
  <<Define(read), Define(read), Put(p1, p2, app1, None, None)>>,
  <<Register("portfolio_app", app1), Register("portfolio_app", None), Noise>>}
MCScenarios == {o1 :> t[1] @@ o2 :> t[2] @@ o3 :> t[3] : t \in MCSends}
MCInputs == UNION {{t[n] : n \in 1 .. 3} : t \in MCSends}

Ask(id, amount) == [id |-> id, amount |-> amount, period |-> None]
Token(genuine, sub) == [genuine |-> genuine, jti |-> j1, sub |-> sub]

\* One app may issue, one may not, one is suspended.
MCCredentials ==
  app1 :> [status |-> "active", scopes |-> {"helpan:authorities:issue"}] @@
  app2 :> [status |-> "active", scopes |-> {"helpan:actions:read"}] @@
  app3 :> [status |-> "suspended", scopes |-> {"helpan:authorities:issue"}]

Bearer(sub) ==
  [scheme |-> "bearer",
   token |-> [genuine |-> TRUE, forUs |-> TRUE, expired |-> FALSE, complete |-> TRUE, sub |-> sub]]
Signed(app) == [scheme |-> "hmac", app |-> app, fresh |-> TRUE, matches |-> TRUE]

Grant(as, asks, ttl, stepUp) ==
  [header |-> Bearer(as), appId |-> app1, key |-> i1, account |-> alice,
   agent |-> a1, asks |-> asks, ttl |-> ttl, stepUp |-> stepUp]
By(app, g) == [g EXCEPT !.header = Signed(app), !.appId = None]
ByService(g) == By(IF g.header.token.sub = alice THEN app1 ELSE app2, g)

\* What ails a request: one of these and nothing else.
Flawed(g) ==
  {[g EXCEPT !.key = None], [g EXCEPT !.header = None], By(app3, g), By(stranger, g),
   [By(app1, g) EXCEPT !.header.fresh = FALSE], [By(app1, g) EXCEPT !.header.matches = FALSE],
   [g EXCEPT !.appId = None], [g EXCEPT !.header.token = None],
   [g EXCEPT !.header.token.genuine = FALSE], [g EXCEPT !.header.token.forUs = FALSE],
   [g EXCEPT !.header.token.expired = TRUE], [g EXCEPT !.header.token.complete = FALSE]}

Both == {Ask(money, 5), Ask(read, None)}
MCAskedFor == {
  <<Grant(alice, Both, 2, Token(TRUE, alice)), ByService(Grant(alice, {Ask(money, None)}, 1, Token(TRUE, alice)))>>,
  <<ByService(Grant(alice, {Ask(read, 1)}, 3, None)), Grant(alice, Both, 2, None)>>,
  <<Grant(alice, {Ask(money, 6)}, 2, Token(TRUE, alice)), Grant(alice, Both, 3, Token(TRUE, alice))>>,
  <<Grant(alice, Both, 2, Token(TRUE, bob)), Grant(alice, {Ask(money, 1)}, 2, Token(FALSE, alice))>>,
  <<ByService(Grant(bob, {Ask(gone, None)}, 1, None)), Grant(alice, {Ask(gone, None)}, 1, None)>>}
  \cup {<<g, Grant(bob, {Ask(money, 1)}, 2, Token(TRUE, alice))>> :
          g \in Flawed(Grant(alice, {Ask(money, 1)}, 2, Token(TRUE, alice)))}
MCAsked == {i1 :> t[1] @@ i2 :> t[2] : t \in MCAskedFor}
MCGrants == UNION {{t[n] : n \in 1 .. 2} : t \in MCAskedFor}
===============================================================================
