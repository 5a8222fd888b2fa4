------------------------------- MODULE MCListing ------------------------------
(* Instances of Listing: four rows, one of another account.                *)
EXTENDS Listing

CONSTANTS alice, bob

MCOwner == [i \in Ids |-> IF i = 3 THEN bob ELSE alice]

Query(list, caller, as, account, stat, limit) ==
  [list |-> list, caller |-> caller, as |-> as, account |-> account,
   status |-> stat, limit |-> limit]

MCQueries == {
  Query("briefings", "customer", alice, None, "active", 1),
  Query("authorities", "customer", alice, bob, None, None),
  Query("authorities", "service", None, bob, "active", 0),
  Query("actions", "service", None, None, "active", 1),
  Query("audit", "service", None, alice, None, 7),
  Query("audit", "service", None, None, None, 1)}
===============================================================================
