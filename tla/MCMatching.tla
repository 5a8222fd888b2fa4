------------------------------ MODULE MCMatching ------------------------------
(* Instances of Matching: small payloads and intents of every domain, with *)
(* fields missing, null or of a wrong type where that makes a difference.  *)
EXTENDS Matching, TLC

Opt(S) == S \cup {Undefined}
Num(n) == <<"number", n>>
Str(s) == <<"string", s>>
List(s) == <<"array", s>>
\* A record of values; fields that are undefined are left out.
Obj(r) == <<"object", [k \in {f \in DOMAIN r : r[f] # Undefined} |-> r[k]]>>
Objs(R) == {Obj(r) : r \in R}
Broken == Obj([toString |-> Num(1)])

MCUnprintable == {Broken}
MCText(v) == IF IsString(v) THEN v[2] ELSE IF v = Num(1) THEN "1" ELSE "?"
MCLower(s) == IF s = "Stew" THEN "stew" ELSE s
MCHhmm == Str("00:00") :> 0 @@ Str("00:01") :> 1 @@ Str("05:00") :> 300 @@ Str("22:00") :> 1320
MCDates == {Str("0:00Z"), Str("4:00Z"), Str("23:30Z"), Num(1)}
MCZones == {UTC, Str("Nairobi")}
MCMinute(at, tz) ==
  LET utc == CASE at = Str("4:00Z") -> 240 [] at = Str("23:30Z") -> 1410 [] at = Undefined -> 1439
               [] OTHER -> 0
  IN (utc + (IF tz = UTC THEN 0 ELSE 180)) % 1440
MCFarther(lat, lng, toLat, toLng, limit) == (IF lat = toLat THEN 0 ELSE 3) > limit[2]

\* What every object has; a list or an object adds its own, null takes all.
Base == [name \in {"constructor", "toString", "valueOf", "__proto__"} |-> <<"function", name>>]
MCInherited(given) ==
  IF DOMAIN given = {} THEN Base
  ELSE LET last == given[Max(DOMAIN given)]
       IN CASE last = Null -> << >> [] last[1] = "object" -> last[2] @@ Base [] OTHER -> Base

Place(lat) == Obj([lat |-> Num(lat), lng |-> Num(0)])
Home == Place(0)
Work == Place(9)
Nowhere == Obj([lat |-> Num(0), lng |-> Null])

Windows == {Undefined, Null} \cup Objs(
  [start : {Str("00:00"), Str("22:00")}, end : {Str("00:01"), Str("05:00"), Str("25:00"), Undefined},
   tz : {Undefined, Str("Nairobi"), Str("Kenya")}]
  \cup [start : {Str("22:00")}, end : {Broken, Num(1)}, tz : {Undefined, Null}])
Times == {Str("0:00Z"), Str("4:00Z"), Str("23:30Z"), Str("noon"), Str(""), Broken, Undefined}

Shifts == Objs([category : {Str("hotel")}, location : {Work, Undefined}, start_time : Times,
                pay_minor : {Num(2), Undefined}])
ShiftSearches ==
  Objs([domain : {Str("klokd.shift_search")}, categories : {Undefined, List(<<Str("hotel")>>)},
        max_distance_km : {Num(2)}, origin : {Home, Work, Null}, time_window : Windows,
        min_pay_minor : {Num(2), Num(3), Undefined}])

Arrivals == Objs([category : Opt({Str("shop"), List(<< >>)}), location : {Home, Nowhere},
                  arrived_at : Times \ {Str("")}, price_minor : {Num(2), Num(3), Str("2")}])
FreshAlerts ==
  Objs([domain : {Str("family_discovery.fresh_arrivals")},
        categories : {List(<< >>), List(<<Str("shop"), List(<< >>)>>)},
        max_distance_km : Opt({Num(2)}), origin : {Home, Work},
        time_window : {Undefined, Obj([start |-> Str("22:00"), end |-> Str("00:01"), tz |-> Null])},
        max_price_minor : {Num(2), Null}])

Skus == {Str("s1"), Num(1), Str("constructor"), Broken, Undefined}
Entries == {Null} \cup Objs(
  [sku : Skus, max_price_minor : Opt({Num(1)})]
  \cup [sku : {Str("__proto__")}, max_price_minor : {Null, Num(1), Obj([s1 |-> Num(1)])}])
Lines == {Null} \cup Objs([sku : Skus, price_minor : Opt({Num(1), Num(2)})])
Line == Obj([sku |-> Str("s1"), price_minor |-> Num(2)])
Ticks == Objs([merchant_id : Opt({Str("m1")}), total_minor : Opt({Num(3)}),
               line_items : {Null, List(<< >>)} \cup {List(<<l>>) : l \in Lines}
                            \cup {List(<<l, Line>>) : l \in Lines}])
Baskets ==
  Objs([domain : {Str("family_discovery.basket_auto_refill")},
        merchant_ids : {Undefined, List(<<Str("m1")>>)},
        items : {Undefined, List(<< >>)} \cup {List(<<e>>) : e \in Entries}
                \cup {List(<<e, Obj([sku |-> Str("s1"), max_price_minor |-> Num(2)])>>) : e \in Entries},
        max_total_minor : Opt({Num(2)})])

Dish(name) == Obj([name |-> name])
Orders == Objs([merchant_id : Opt({Str("m1"), Str("m2")}), total_minor : Opt({Num(1), Num(2)}),
                items : {Undefined} \cup {List(s) : s \in {
                  <<Dish(Str("stew"))>>, <<Dish(Num(1)), Dish(Str("Stew"))>>, <<Str("stew")>>,
                  <<Dish(Str("stew")), Null>>, <<Dish(Str("fish")), Null, Dish(Str("stew"))>>}}])
Plans ==
  Objs([domain : {Str("lunchdrop.weekly_plan")}, merchant_id : Opt({Str("m1")}),
        fallback_merchant_ids : Opt({List(<<Str("m2")>>)}),
        menu_preference : {Undefined, Str("stew")} \cup {List(s) : s \in {
          << >>, <<Str("Stew")>>, <<Str("Stew"), Num(1)>>, <<Null>>}},
        max_per_order_minor : Opt({Num(1)})])

Debits == Objs([amount_minor : {Num(n) : n \in (-1 .. 9) \cup {Infinity}} \cup {Str("1"), Undefined}])
RoundUps == Objs([domain : {Str("chapaa.round_up_offer")}, round_unit_minor : Opt({Num(0), Num(3)}),
                  min_unrounded_minor : Opt({Num(2)}), max_round_up_minor : Opt({Num(1), Num(2)})])

Paces == Objs([goal_id : Opt({Str("g1"), List(<< >>)}), signal : Opt({Str("behind")})])
Goals == Objs([domain : {Str("chapaa.goal_acceleration")},
               goal_id : Opt({Str("g1"), Str("g2"), List(<< >>)}),
               alert_when : Opt({Str("behind"), Str("")})])

Values == {Num(1), Num(2), Null, List(<<Num(1)>>), List(<<Num(1), Num(2)>>), Obj([b |-> Num(1)]),
           Obj([b |-> Num(1), c |-> Num(1)]), Obj([b |-> List(<< >>)])}
Events == Objs([a : Opt(Values), d : Opt({Num(1)})])
Predicates ==
  Objs([domain : {Undefined, Str("klokd.unheard_of"), Num(1)}, match : {Undefined, Null, Num(1)} \cup Events]
       \cup [domain : {Str("constructor"), Str("valueOf")}, match : {Undefined} \cup Events])

Pairs(payloads, intents) == [payload : payloads, intents : {<<i>> : i \in intents}]

\* Lists of briefings, one of which may spoil the event for the others.
Open == Obj([domain |-> Str("lunchdrop.weekly_plan")])
Spoilt == {Obj([domain |-> Str("toString")]), Obj([domain |-> Str("klokd.unheard_of")]), Open,
           Obj([domain |-> Str("lunchdrop.weekly_plan"), menu_preference |-> List(<<Null>>)]),
           Obj([domain |-> Str("klokd.shift_search"),
                time_window |-> Obj([start |-> Str("00:00"), end |-> Str("05:00"), tz |-> Str("Kenya")])])}
Lists == [payload : {Obj([a |-> Num(1)])},
          intents : {<< >>} \cup {<<Open, i, j>> : i, j \in Spoilt}]

MCCases == UNION {
  Pairs(Shifts, ShiftSearches), Pairs(Arrivals, FreshAlerts), Pairs(Ticks, Baskets),
  Pairs(Orders, Plans), Pairs(Debits, RoundUps), Pairs(Paces, Goals),
  Pairs(Events, Predicates), Lists}

Bodies == UNION {
  Shifts, ShiftSearches, Arrivals, FreshAlerts, Ticks, Baskets, Orders, Plans, Debits, RoundUps,
  Paces, Goals, Events, Predicates, Spoilt}
Members(v) == IF v[1] \in {"array", "object"} THEN {v[2][k] : k \in DOMAIN v[2]} ELSE {}
Parts == UNION {Members(v) : v \in Bodies}
Parts2 == UNION {Members(v) : v \in Parts}
Parts3 == UNION {Members(v) : v \in Parts2}
AllJson == {v : v \in UNION {Bodies, Parts, Parts2, Parts3}}
MCJson == AllJson
===============================================================================
