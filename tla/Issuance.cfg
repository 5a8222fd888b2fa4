SPECIFICATION Spec
CONSTANTS
  o1 = o1
  o2 = o2
  o3 = o3
  i1 = i1
  i2 = i2
  a1 = a1
  a2 = a2
  p1 = p1
  p2 = p2
  app1 = app1
  app2 = app2
  app3 = app3
  stranger = stranger
  n1 = n1
  n2 = n2
  money = money
  read = read
  gone = gone
  alice = alice
  bob = bob
  j1 = j1
  Requests = {o1, o2, o3}
  Agents = {a1, a2}
  Policies = {p1, p2}
  Apps = {app1, app2}
  Fields = {"whitelist", "posture"}
  Values = {1, 2}
  Default = 0
  ScopeIds = {money, read, gone}
  ScopeRows <- MCScopeRows
  Names = {n1, n2}
  Inputs <- MCInputs
  Scenarios <- MCScenarios
  Catalogue <- MCCatalogue
  None = None
  Issuances = {i1, i2}
  Accounts = {alice, bob}
  Grants <- MCGrants
  Asked <- MCAsked
  RailsWithAudience = {"identiti"}
  Helpan = "helpan"
  Credentials <- MCCredentials
INVARIANTS
  AgentsAreAudited
  PoliciesAreWhatWasPut
  IssuedUnderTheCatalogue
  TokensAndRows
CHECK_DEADLOCK FALSE
