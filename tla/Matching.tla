------------------------------- MODULE Matching -------------------------------
(***************************************************************************)
(* The matching engine (src/src/lib/matching): which of the briefings that *)
(* are live for an event its payload matches.                              *)
(*                                                                         *)
(* matchEventAgainstBriefings takes the briefings one by one and runs the  *)
(* matcher their intent's domain names, or the generic one.  A matcher     *)
(* makes its checks in order: a check the intent does not ask for is       *)
(* skipped, the first that fails ends in no match.  Payload and intent are *)
(* any JSON objects, since their schemas ask for nothing else, so a check  *)
(* may also throw, and a domain may be the name of something every object  *)
(* inherits.  Nothing catches what is thrown before the event's            *)
(* transaction is rolled back, and ingestEvent stores the matches in that  *)
(* transaction: all of them or none.                                       *)
(*                                                                         *)
(* Abstractions.  JSON values are pairs of a tag and a content; numbers    *)
(* are integers, and Infinity is what JSON.parse makes of those too large. *)
(* What the language does with values of a wrong type, with dates, zones   *)
(* and coordinates is given as tables.  What a match repeats of the event  *)
(* is left out, except the reasons and the amount of a round-up.           *)
(***************************************************************************)
EXTENDS Integers, Sequences, SequencesExt

CONSTANTS
  Cases,        \* the inputs: an event payload and the listed briefings' intents
  Json,         \* the JSON values in payloads and intents
  Infinity,     \* the largest number
  Unprintable,  \* values with no conversion to text: it throws
  Text(_),      \* the text of the others
  Lower(_),     \* toLowerCase
  Hhmm,         \* [values whose text is "HH:MM" -> minutes of a day]
  Dates,        \* values that Date reads
  Zones,        \* values that name a time zone
  Minute(_, _), \* minute of the day of a date, or of now, in a zone
  Farther(_, _, _, _, _), \* whether two places are more than so many km apart
  Inherited(_), \* names found in a table that are not its own, with their values,
                \* by what was assigned to its __proto__, in order
  Returning,    \* inherited names whose value, called, returns something
  DefaultUnit   \* DEFAULT_ROUND_UNIT_MINOR

MinutesOfDay == 0 .. 1439
Undefined == <<"undefined", "undefined">>
Null == <<"null", "null">>
UTC == <<"string", "UTC">>

ASSUME ClockAssumption ==
  /\ Hhmm \in [DOMAIN Hhmm -> MinutesOfDay] /\ UTC \in Zones
  /\ \A v \in Dates \cup {Undefined}, z \in Zones : Minute(v, z) \in MinutesOfDay
ASSUME UnitAssumption == DefaultUnit \in Nat \ {0} /\ Infinity \in Nat

\* What makes a pair a JSON value.
IsJson(v) == /\ v = <<v[1], v[2]>>
             /\ v[1] \in {"null", "boolean", "number", "string", "array", "object"}
             /\ v[1] = "number" => v[2] \in Int /\ v[2] <= Infinity
             /\ v[1] = "array" => v[2] \in Seq(Json)
             /\ v[1] = "object" => v[2] \in [DOMAIN v[2] -> Json]

ASSUME JsonAssumption ==
  /\ \A v \in Json : IsJson(v)
  /\ \A v \in Unprintable : v[1] \in {"array", "object"}

\* Nothing else is known of a payload or an intent.
ASSUME CaseAssumption ==
  \A c \in Cases : /\ c.payload \in Json /\ c.payload[1] = "object"
                   /\ c.intents \in Seq(Json)
                   /\ \A n \in DOMAIN c.intents : c.intents[n][1] = "object"

VARIABLES
  case,     \* the payload and the intents under evaluation
  next,     \* the index of the next briefing
  hits,     \* the matches found so far
  fate      \* of the event's transaction: open, committed or rolled back

engineVars == <<case, next, hits, fate>>

-------------------------------------------------------------------------------
(* Values.                                                                 *)

IsNumber(v) == v[1] = "number"
IsString(v) == v[1] = "string"

Truthy(v) == v \notin {Undefined, Null, <<"boolean", FALSE>>, <<"number", 0>>, <<"string", "">>}

Get(v, name) ==
  IF v[1] = "object" /\ name \in DOMAIN v[2] THEN v[2][name] ELSE Undefined

Elements(v) == IF v[1] = "array" THEN v[2] ELSE << >>

\* ===, and includes, between values of two texts: lists and objects differ.
Same(a, b) == a = b /\ a[1] \notin {"array", "object"}

Includes(list, v) == Truthy(v) /\ \E n \in 1 .. Len(list) : Same(list[n], v)

\* Mutant of minutesInWindow: no window crosses midnight.
minutesInOneDay(minute, start, end) == start <= minute /\ minute <= end

minutesInWindow(minute, start, end) ==
  IF start <= end THEN start <= minute /\ minute <= end
  ELSE start <= minute \/ minute <= end

-------------------------------------------------------------------------------
(* Checks.  Each has a name and an outcome.                                *)

Trial(name, asked, throws, holds) ==
  [name |-> name,
   outcome |-> IF ~asked THEN "skipped" ELSE IF throws THEN "throws"
               ELSE IF holds THEN "met" ELSE "failed"]

Check(name, asked, holds) == Trial(name, asked, FALSE, holds)

\* Of outcomes in order, the first that fails or throws is the last there is.
Settled(outcomes) ==
  LET deciding == {n \in DOMAIN outcomes : outcomes[n] \in {"failed", "throws"}}
  IN IF deciding = {} THEN "met" ELSE outcomes[Min(deciding)]

Whitelisted(name, list, v) == Check(name, list # << >>, Includes(list, v))

AtLeast(name, floor, v) == Check(name, IsNumber(floor), IsNumber(v) /\ v[2] >= floor[2])

AtMost(name, ceiling, v) == Check(name, IsNumber(ceiling), IsNumber(v) /\ v[2] <= ceiling[2])

Located(place) == IsNumber(Get(place, "lat")) /\ IsNumber(Get(place, "lng"))

\* Skipped without the limit, and when either place is unknown.
WithinDistance(i, p) ==
  LET limit == Get(i, "max_distance_km")
      from == Get(i, "origin")
      to == Get(p, "location")
  IN Check("within_max_distance_km",
           IsNumber(limit) /\ Located(from) /\ Located(to),
           ~Farther(Get(from, "lat"), Get(from, "lng"), Get(to, "lat"), Get(to, "lng"), limit))

Windowed(w) == Truthy(Get(w, "start")) /\ Truthy(Get(w, "end"))

Zone(w) == IF Get(w, "tz") \in {Undefined, Null} THEN UTC ELSE Get(w, "tz")

\* The date is read first, then the zone, then the ends of the window.
WithinTimeWindow(w, at) ==
  LET start == Get(w, "start")
      end == Get(w, "end")
      instant == IF Truthy(at) THEN at ELSE Undefined
      dated == instant \in Dates \cup {Undefined}
  IN Trial("within_time_window", Windowed(w),
           \/ instant \in Unprintable
           \/ dated /\ (Zone(w) \notin Zones \/ start \in Unprintable \/ end \in Unprintable),
           /\ dated /\ {start, end} \subseteq DOMAIN Hhmm
           /\ minutesInWindow(Minute(instant, Zone(w)), Hhmm[start], Hhmm[end]))

-------------------------------------------------------------------------------
(* The matchers: the checks each makes, in order.                          *)

KlokdShift(i, p) ==
  <<Whitelisted("category_in_whitelist", Elements(Get(i, "categories")), Get(p, "category")),
    WithinDistance(i, p),
    WithinTimeWindow(Get(i, "time_window"), Get(p, "start_time")),
    AtLeast("min_pay_minor_met", Get(i, "min_pay_minor"), Get(p, "pay_minor"))>>

FreshArrivals(i, p) ==
  <<Whitelisted("category_in_whitelist", Elements(Get(i, "categories")), Get(p, "category")),
    WithinDistance(i, p),
    WithinTimeWindow(Get(i, "time_window"), Get(p, "arrived_at")),
    AtMost("within_max_price_minor", Get(i, "max_price_minor"), Get(p, "price_minor"))>>

Sku(entry) == Get(entry, "sku")
Ceiling(entry) == Get(entry, "max_price_minor")

\* Where the list names a key.
Naming(items, key) ==
  {n \in DOMAIN items : Truthy(Sku(items[n])) /\ Text(Sku(items[n])) = key}

\* The ceilings by SKU: a SKU listed twice has the last one's.  An entry named
\* __proto__ does not add a name: it may change what the table inherits.
byKey(items) ==
  LET own == {Text(Sku(items[n])) : n \in {k \in DOMAIN items : Truthy(Sku(items[k]))}}
             \ {"__proto__"}
      found == Inherited([n \in Naming(items, "__proto__") |-> Ceiling(items[n])])
  IN [key \in own \cup DOMAIN found |->
        IF key \in own THEN Ceiling(items[Max(Naming(items, key))]) ELSE found[key]]

\* Reading a field of null throws, and so does a SKU that cannot be a name.
Unreadable(e) == e = Null \/ (Truthy(Sku(e)) /\ Sku(e) \in Unprintable)

UnderCeiling(price, ceiling) ==
  IsNumber(ceiling) => IsNumber(price) /\ price[2] <= ceiling[2]

\* A SKU is looked for with "in", which finds inherited names.
LineOutcome(line, ceilings) ==
  IF Unreadable(line) THEN "throws"
  ELSE IF /\ Truthy(Sku(line)) /\ Text(Sku(line)) \in DOMAIN ceilings
          /\ UnderCeiling(Get(line, "price_minor"), ceilings[Text(Sku(line))])
       THEN "met" ELSE "failed"

LinesOutcome(items, lines) ==
  IF \E n \in DOMAIN items : Unreadable(items[n]) THEN "throws"
  ELSE Settled([n \in DOMAIN lines |-> LineOutcome(lines[n], byKey(items))])

BasketRefill(i, p) ==
  LET items == Elements(Get(i, "items"))
      lines == Elements(Get(p, "line_items"))
  IN <<Whitelisted("merchant_in_allowlist", Elements(Get(i, "merchant_ids")),
                   Get(p, "merchant_id")),
       Check("lines", lines = << >>, FALSE),
       Trial("all_lines_approved", items # << >>,
             LinesOutcome(items, lines) = "throws", LinesOutcome(items, lines) = "met"),
       AtMost("within_max_total_minor", Get(i, "max_total_minor"), Get(p, "total_minor"))>>

Merchants(i) ==
  LET first == Get(i, "merchant_id")
  IN (IF Truthy(first) THEN <<first>> ELSE << >>) \o Elements(Get(i, "fallback_merchant_ids"))

Wanted(wishes, item) ==
  LET name == Get(item, "name")
  IN IsString(name) /\ \E n \in DOMAIN wishes : Lower(wishes[n][2]) = Lower(name[2])

\* Every wish is put in lower case first.  Items are taken in order up to the
\* first that is wanted; a null throws.
MenuOutcome(wishes, items) ==
  LET deciding == {n \in DOMAIN items : items[n] = Null \/ Wanted(wishes, items[n])}
  IN IF \E n \in DOMAIN wishes : ~IsString(wishes[n]) THEN "throws"
     ELSE IF deciding = {} THEN "failed"
     ELSE IF items[Min(deciding)] = Null THEN "throws" ELSE "met"

WeeklyPlan(i, p) ==
  LET wishes == Elements(Get(i, "menu_preference"))
      outcome == MenuOutcome(wishes, Elements(Get(p, "items")))
  IN <<Whitelisted("merchant", Merchants(i), Get(p, "merchant_id")),
       Trial("menu_preference_hit", wishes # << >>, outcome = "throws", outcome = "met"),
       AtMost("within_max_per_order_minor", Get(i, "max_per_order_minor"),
              Get(p, "total_minor"))>>

Debit(p) == Get(p, "amount_minor")

Unit(i) == LET unit == Get(i, "round_unit_minor")
           IN IF IsNumber(unit) /\ unit[2] > 0 THEN unit[2] ELSE DefaultUnit

Unrounded(i, p) == Debit(p)[2] % Unit(i)

RoundUp(i, p) == Unit(i) - Unrounded(i, p)

\* What is left of an infinite debit is not a number, for which no comparison
\* holds that the code makes: all its checks are passed.
RoundUpOffer(i, p) ==
  LET least == Get(i, "min_unrounded_minor")
      most == Get(i, "max_round_up_minor")
      endless == Debit(p)[2] = Infinity
  IN IF ~IsNumber(Debit(p)) \/ Debit(p)[2] <= 0 THEN <<Check("amount", TRUE, FALSE)>>
     ELSE <<Check("round_up_positive", TRUE, endless \/ Unrounded(i, p) # 0),
            Check("min_unrounded_minor_met", IsNumber(least),
                  endless \/ Unrounded(i, p) >= least[2]),
            Check("within_max_round_up_minor", IsNumber(most),
                  endless \/ RoundUp(i, p) <= most[2])>>

GoalAcceleration(i, p) ==
  <<Check("goal_id_match", TRUE,
          Truthy(Get(i, "goal_id")) /\ Same(Get(i, "goal_id"), Get(p, "goal_id"))),
    Check("signal_match", Truthy(Get(i, "alert_when")),
          Same(Get(p, "signal"), Get(i, "alert_when")))>>

\* jsonEqual is equality of JSON values.
payloadCovers(payload, predicate) ==
  \A k \in DOMAIN predicate : k \in DOMAIN payload /\ payload[k] = predicate[k]

\* Mutant of Generic: that there is a predicate is not checked.
GenericUnchecked(i, p) ==
  LET match == Get(i, "match")
  IN <<Trial("generic_key_equality", TRUE, match \in {Undefined, Null},
             match[1] = "object" => payloadCovers(p[2], match[2]))>>

\* The predicate has to be an object; the payload always is one.
Generic(i, p) ==
  LET match == Get(i, "match")
  IN <<Check("generic_key_equality", TRUE,
             match[1] = "object" /\ payloadCovers(p[2], match[2]))>>

-------------------------------------------------------------------------------
(* matchEventAgainstBriefings, and what ingestEvent does with the matches. *)

DomainIs(i, name) == Get(i, "domain") = <<"string", name>>

Domains == {"klokd.shift_search", "lunchdrop.weekly_plan", "chapaa.round_up_offer",
            "chapaa.goal_acceleration", "family_discovery.fresh_arrivals",
            "family_discovery.basket_auto_refill"}

\* A domain nobody registered that the table of matchers has all the same.
InheritedDomain(i) ==
  \E name \in DOMAIN Inherited(<< >>) \ Domains : DomainIs(i, name)

Checks(i, p) ==
  CASE DomainIs(i, "klokd.shift_search") -> KlokdShift(i, p)
    [] DomainIs(i, "lunchdrop.weekly_plan") -> WeeklyPlan(i, p)
    [] DomainIs(i, "chapaa.round_up_offer") -> RoundUpOffer(i, p)
    [] DomainIs(i, "chapaa.goal_acceleration") -> GoalAcceleration(i, p)
    [] DomainIs(i, "family_discovery.fresh_arrivals") -> FreshArrivals(i, p)
    [] DomainIs(i, "family_discovery.basket_auto_refill") -> BasketRefill(i, p)
    [] OTHER -> Generic(i, p)

\* What an inherited function returns is no match but is taken for one.
Verdict(i, p) ==
  IF InheritedDomain(i)
  THEN IF Get(i, "domain")[2] \in Returning THEN "stray" ELSE "throws"
  ELSE Settled([n \in DOMAIN Checks(i, p) |-> Checks(i, p)[n].outcome])

Reasons(i, p) == {c.name : c \in {d \in ToSet(Checks(i, p)) : d.outcome = "met"}}

Amount(i, p) ==
  IF DomainIs(i, "chapaa.round_up_offer") THEN <<"number", RoundUp(i, p)>> ELSE Undefined

Start == case \in Cases /\ next = 1 /\ hits = << >> /\ fate = "open"

Intent(n) == case.intents[n]
Payload == case.payload

Evaluate ==
  LET i == Intent(next)
      verdict == Verdict(i, Payload)
  IN /\ fate = "open" /\ next <= Len(case.intents)
     /\ fate' = IF verdict = "throws" THEN "rolled back" ELSE "open"
     /\ hits' = IF verdict \notin {"met", "stray"} THEN hits
                ELSE Append(hits, [briefing |-> next, stray |-> verdict = "stray",
                                   reasons |-> Reasons(i, Payload),
                                   amount |-> Amount(i, Payload)])
     /\ next' = next + 1
     /\ UNCHANGED case

\* The matches are stored.  A stray one has no briefing id, which the table
\* does not take.
StoreMatches ==
  /\ fate = "open" /\ next > Len(case.intents)
  /\ fate' = IF \E h \in ToSet(hits) : h.stray THEN "rolled back" ELSE "committed"
  /\ UNCHANGED <<case, next, hits>>

EngineNext == Evaluate \/ StoreMatches

EngineSpec == Start /\ [][EngineNext]_engineVars

-------------------------------------------------------------------------------
(* What an intent asks of a payload, said without the checks.              *)

\* Minutes from one time of day to the next time it is another.
From(start, minute) == IF minute < start THEN minute + 1440 - start ELSE minute - start

\* Going round the clock from the start of the window, the minute comes no later
\* than the end.
InsideWindow(w, at) ==
  Windowed(w) =>
    LET instant == IF Truthy(at) THEN at ELSE Undefined
    IN /\ instant \in Dates \cup {Undefined} /\ {Get(w, "start"), Get(w, "end")} \subseteq DOMAIN Hhmm
       /\ From(Hhmm[Get(w, "start")], Minute(instant, Zone(w)))
            <= From(Hhmm[Get(w, "start")], Hhmm[Get(w, "end")])

Near(i, p) ==
  LET from == Get(i, "origin")
      to == Get(p, "location")
  IN IsNumber(Get(i, "max_distance_km")) /\ Located(from) /\ Located(to) =>
       ~Farther(Get(from, "lat"), Get(from, "lng"), Get(to, "lat"), Get(to, "lng"),
                Get(i, "max_distance_km"))

\* A price is within a ceiling that is set only if it is known.
Within(price, ceiling) ==
  ~IsNumber(ceiling) \/ (IsNumber(price) /\ ~(price[2] > ceiling[2]))

Anyone(list, v) ==
  list = << >> \/ (Truthy(v) /\ v[1] \notin {"array", "object"} /\ v \in ToSet(list))

\* The entries of the list that count for a line: the last with its SKU.
EntryFor(items, line) ==
  {items[k] : k \in {k \in 1 .. Len(items) :
     /\ Truthy(Sku(line)) /\ Truthy(Sku(items[k])) /\ Text(Sku(items[k])) = Text(Sku(line))
     /\ \A l \in k + 1 .. Len(items) :
          Truthy(Sku(items[l])) => Text(Sku(items[l])) # Text(Sku(line))}}

\* The least amount that brings a debit to a multiple of the unit.
Missing(amount, unit) == CHOOSE n \in 0 .. unit - 1 : (amount + n) % unit = 0

AsksShift(i, p) ==
  /\ Anyone(Elements(Get(i, "categories")), Get(p, "category")) /\ Near(i, p)
  /\ InsideWindow(Get(i, "time_window"), Get(p, "start_time"))
  /\ LET pay == Get(p, "pay_minor")
         least == Get(i, "min_pay_minor")
     IN IsNumber(least) => IsNumber(pay) /\ ~(pay[2] < least[2])

AsksArrival(i, p) ==
  /\ Anyone(Elements(Get(i, "categories")), Get(p, "category")) /\ Near(i, p)
  /\ InsideWindow(Get(i, "time_window"), Get(p, "arrived_at"))
  /\ Within(Get(p, "price_minor"), Get(i, "max_price_minor"))

AsksBasket(i, p) ==
  LET items == Elements(Get(i, "items"))
      lines == Elements(Get(p, "line_items"))
  IN /\ Anyone(Elements(Get(i, "merchant_ids")), Get(p, "merchant_id"))
     /\ lines # << >>
     /\ items # << >> => \A line \in ToSet(lines) :
          \E e \in EntryFor(items, line) : Within(Get(line, "price_minor"), Ceiling(e))
     /\ Within(Get(p, "total_minor"), Get(i, "max_total_minor"))

AsksPlan(i, p) ==
  LET wishes == Elements(Get(i, "menu_preference"))
  IN /\ Anyone(Merchants(i), Get(p, "merchant_id"))
     /\ wishes # << >> =>
          \E w \in ToSet(wishes), item \in ToSet(Elements(Get(p, "items"))) :
            IsString(Get(item, "name")) /\ Lower(w[2]) = Lower(Get(item, "name")[2])
     /\ Within(Get(p, "total_minor"), Get(i, "max_per_order_minor"))

AsksRoundUp(i, p) ==
  /\ IsNumber(Debit(p)) /\ Debit(p)[2] > 0
  /\ LET missing == Missing(Debit(p)[2], Unit(i))
         least == Get(i, "min_unrounded_minor")
     IN /\ missing > 0 /\ Within(<<"number", missing>>, Get(i, "max_round_up_minor"))
        /\ IsNumber(least) => Unit(i) >= missing + least[2]

AsksGoal(i, p) ==
  LET goal == Get(i, "goal_id")
      alert == Get(i, "alert_when")
  IN /\ Anyone(<<goal>>, Get(p, "goal_id"))
     /\ Truthy(alert) => Anyone(<<alert>>, Get(p, "signal"))

AsksGeneric(i, p) ==
  LET match == Get(i, "match")
  IN match[1] = "object" /\ \A k \in DOMAIN match[2] : Get(p, k) = match[2][k]

Asks(i, p) ==
  CASE DomainIs(i, "klokd.shift_search") -> AsksShift(i, p)
    [] DomainIs(i, "lunchdrop.weekly_plan") -> AsksPlan(i, p)
    [] DomainIs(i, "chapaa.round_up_offer") -> AsksRoundUp(i, p)
    [] DomainIs(i, "chapaa.goal_acceleration") -> AsksGoal(i, p)
    [] DomainIs(i, "family_discovery.fresh_arrivals") -> AsksArrival(i, p)
    [] DomainIs(i, "family_discovery.basket_auto_refill") -> AsksBasket(i, p)
    [] OTHER -> AsksGeneric(i, p)

\* Where the code matches what nobody asked for: a line whose SKU every object
\* has, a list that changes what its table inherits, a debit without end.
Misread(i, p) ==
  \/ /\ DomainIs(i, "family_discovery.basket_auto_refill")
     /\ \/ \E line \in ToSet(Elements(Get(p, "line_items"))) :
             Truthy(Sku(line)) /\ Text(Sku(line)) \in DOMAIN Inherited(<< >>)
        \/ \E e \in ToSet(Elements(Get(i, "items"))) :
             Truthy(Sku(e)) /\ Text(Sku(e)) = "__proto__"
  \/ DomainIs(i, "chapaa.round_up_offer") /\ Debit(p) = <<"number", Infinity>>

\* What about an intent and a payload can throw, or make a match of nothing.
SpoiltWindow(w, at) ==
  Windowed(w) /\ (Zone(w) \notin Zones \/ {Get(w, "start"), Get(w, "end"), at} \cap Unprintable # {})

Spoils(i, p) ==
  \/ InheritedDomain(i)
  \/ DomainIs(i, "klokd.shift_search") /\ SpoiltWindow(Get(i, "time_window"), Get(p, "start_time"))
  \/ /\ DomainIs(i, "family_discovery.fresh_arrivals")
     /\ SpoiltWindow(Get(i, "time_window"), Get(p, "arrived_at"))
  \/ /\ DomainIs(i, "lunchdrop.weekly_plan")
     /\ LET wishes == ToSet(Elements(Get(i, "menu_preference")))
        IN \/ \E w \in wishes : ~IsString(w)
           \/ wishes # {} /\ Null \in ToSet(Elements(Get(p, "items")))
  \/ /\ DomainIs(i, "family_discovery.basket_auto_refill")
     /\ LET items == ToSet(Elements(Get(i, "items")))
        IN \/ \E e \in items : Unreadable(e)
           \/ items # {} /\ \E line \in ToSet(Elements(Get(p, "line_items"))) : Unreadable(line)

-------------------------------------------------------------------------------
(* Properties.                                                             *)

Matched(n) == \E h \in ToSet(hits) : h.briefing = n

\* When the event commits, a briefing has been matched exactly when the payload
\* is all its intent asks for, by the definitions above: windows that cross
\* midnight, baskets with a line or a SKU twice, merchants of two fields; unless
\* the code misreads them, in the ways Misread names.  And the amount of a round-up
\* is the least that makes the debit round.
MatchesMeanTheIntent ==
  /\ fate = "committed" =>
       \A n \in 1 .. Len(case.intents) :
         ~Misread(Intent(n), Payload) => (Matched(n) <=> Asks(Intent(n), Payload))
  /\ \A h \in ToSet(hits) :
       LET i == Intent(h.briefing)
       IN DomainIs(i, "chapaa.round_up_offer") /\ ~Misread(i, Payload) =>
            h.amount = <<"number", Missing(Debit(Payload)[2], Unit(i))>>

\* Every listed briefing is evaluated and reported once, in the order listed,
\* and the event commits, unless one of them spoils it for all the others: with
\* a value a check cannot read, an unknown time zone, or a domain that every
\* object has.  A match says that it was geo-degraded: the distance is missing
\* from its reasons exactly when it was not asked for or a place is unknown.
LossesHaveACause ==
  /\ \A m \in 1 .. Len(hits) - 1 : hits[m].briefing < hits[m + 1].briefing
  /\ fate = "rolled back" => \E n \in 1 .. next - 1 : Spoils(Intent(n), Payload)
  /\ \A h \in ToSet(hits) :
       LET i == Intent(h.briefing)
       IN DomainIs(i, "klokd.shift_search") \/ DomainIs(i, "family_discovery.fresh_arrivals") =>
            ("within_max_distance_km" \notin h.reasons <=>
               ~(/\ IsNumber(Get(i, "max_distance_km"))
                 /\ Located(Get(i, "origin")) /\ Located(Get(Payload, "location"))))
===============================================================================
