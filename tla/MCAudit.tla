--------------------------------- MODULE MCAudit --------------------------------
(* The catalog of the repository, replayed once on either page against the *)
(* engine as it is modelled; and catalogs of three probes, replayed twice, *)
(* against engines that answer each probe in any of six ways.              *)
EXTENDS Probes, Audit

T == INSTANCE Temporal WITH Precision <- 9

-------------------------------------------------------------------------------
(* How the engine reads the operands and claims that probes order.         *)
Utc(y, mo, d, h, mi, digits) ==
  [form |-> "utc", year |-> y, month |-> mo, day |-> d, hour |-> h, minute |-> mi, second |-> 0,
   fraction |-> digits]
Offset(v, sign, hours) ==
  [form |-> "offset", year |-> v.year, month |-> v.month, day |-> v.day, hour |-> v.hour,
   minute |-> v.minute, second |-> v.second, fraction |-> v.fraction,
   offset |-> [sign |-> sign, hour |-> hours, minute |-> 0]]
Date(y, mo, d) == [form |-> "date", year |-> y, month |-> mo, day |-> d]
MinutesOf(n) ==
  [form |-> "duration", sign |-> 1, dateParts |-> <<>>, marked |-> TRUE,
   timeParts |-> <<[count |-> n, unit |-> "Mi", fraction |-> <<>>]>>]
Hundredths(n) == [form |-> "number", finite |-> TRUE, value |-> n]
Infinite == [form |-> "number", finite |-> FALSE, value |-> 0]

Reading ==
  "2027-01-01T00:00:00Z" :> Utc(2027, 1, 1, 0, 0, <<>>) @@
  "2026-09-05T12:00:00Z" :> Utc(2026, 9, 5, 12, 0, <<>>) @@
  "2027-06-01T00:00:00Z" :> Utc(2027, 6, 1, 0, 0, <<>>) @@
  "2999-01-01T00:00:00Z" :> Utc(2999, 1, 1, 0, 0, <<>>) @@
  "2024-02-12T11:20:00.5Z" :> Utc(2024, 2, 12, 11, 20, <<5>>) @@
  "2024-02-12T11:20:00Z" :> Utc(2024, 2, 12, 11, 20, <<>>) @@
  "2024-02-12T00:00:00Z" :> Utc(2024, 2, 12, 0, 0, <<>>) @@
  "2024-02-12T12:00:00Z" :> Utc(2024, 2, 12, 12, 0, <<>>) @@
  "2024-02-12T13:20:00+02:00" :> Offset(Utc(2024, 2, 12, 13, 20, <<>>), 1, 2) @@
  "2024-02-12" :> Date(2024, 2, 12) @@
  "PT60M" :> MinutesOf(60) @@ "PT30M" :> MinutesOf(30) @@
  "10" :> Hundredths(1000) @@ "7" :> Hundredths(700) @@ "11" :> Hundredths(1100) @@
  "0" :> Hundredths(0) @@ "5.00" :> Hundredths(500) @@ "5.5" :> Hundredths(550) @@
  "99999" :> Hundredths(9999900) @@ "inf" :> Infinite

Ordered(operator) ==
  LET reading == Reading
      readable == DOMAIN reading
  IN  {<<<<pair[1]>>, <<pair[2]>>>> : pair \in {p \in readable \X readable :
         T!ordering_matches(operator, reading[p[1]], reading[p[2]])}}

(* The same, as three lines of values, each of them in ascending order.    *)
Timelines ==
  {<<m({"2024-02-12", "2024-02-12T00:00:00Z"}),
     m({"2024-02-12T11:20:00Z", "2024-02-12T13:20:00+02:00"}), s("2024-02-12T11:20:00.5Z"),
     s("2024-02-12T12:00:00Z"), s("2026-09-05T12:00:00Z"), s("2027-01-01T00:00:00Z"),
     s("2027-06-01T00:00:00Z"), s("2999-01-01T00:00:00Z")>>,
   <<s("PT30M"), s("PT60M")>>,
   <<s("0"), s("5.00"), s("5.5"), s("7"), s("10"), s("11"), s("99999")>>}

MCSameInstant == UNION {UNION {same \X same : same \in Range(line)} : line \in Timelines}
MCEarlier ==
  UNION {UNION {UNION {line[i] \X line[j] : j \in (i + 1)..Len(line)} : i \in DOMAIN line} :
         line \in Timelines}

ASSUME TimelinesAssumption ==
  /\ MCEarlier = Ordered("lt")
  /\ MCSameInstant = Ordered("lteq") \cap Ordered("gteq")

(* The vocabularies the requests of the catalog declare. *)
MCVocabularies ==
  {flat_config(ids).actions : ids \in
     {<<"use">>, <<"use", "anonymize">>, <<"use", "notify">>, <<"use", "transfer", "sell">>,
      <<"use", "notify", "compensate">>, <<"use", "compensate", "notify">>}}
    \cup {<<action("use"), action_in("display", "play")>>,
          <<action("use"), action("transfer"), action_in("sell", "transfer")>>,
          <<action("use"), action_in("play", "use"), action_in("display", "play")>>,
          taxonomy_config.actions}

ASSUME AskedAssumption ==
  LET Asked == {probe.request : probe \in Range(probes)} IN
  /\ MCVocabularies = {request.config.actions : request \in Asked}
  /\ PolicyId = UNION {{one_of.id : one_of \in Range(request.policies)} : request \in Asked}

-------------------------------------------------------------------------------
(* Of a probe the page reads no more than it shows. *)
Published(probe) == [id |-> probe.id, expect |-> probe.expect, ideal |-> probe.ideal]

shipped ==
  LET all == probes IN
  [catalog |-> [probes |-> [i \in DOMAIN all |-> Published(all[i])], rows |-> rows],
   visits |-> 1, shipped |-> TRUE,
   answers |-> <<>> \o [i \in DOMAIN all |->
     [kind |-> "answered", response |-> evaluate_request(all[i].request)]]]

(* Three probes: documented to allow; documented to deny where ODRL allows; *)
(* and one only a row out of scope names.                                  *)
small_probes ==
  <<build("documented", base_request, allow(base_allow_reason)),
    falls_short_of(build("short", base_request, excluding(deny({unconstrained}), {matched(1, "probe")})), "allow"),
    build("excluded", base_request, and_dataset(and_duties(allow({}), {}), DATASET_ID))>>

small_rows ==
  LET a == small_probes[1] b == small_probes[2] x == small_probes[3] IN
    <<row("implemented", "Implemented", <<a>>), row("partial", "Partial", <<a, b>>),
      row("out of scope", "OutOfScope", <<x, a>>), documented_row("claim", "OutOfScope"),
      falls_short_at_row_level(documented_row("gap", "Partial"))>>

Answered(decision, reason) ==
  [kind |-> "answered", response |-> Response(decision, DATASET_ID, reason, {})]

Unheard(kind) == [kind |-> kind, response |-> Response("error", "", {}, {})]

Answers ==
  <<Answered("allow", base_allow_reason), Answered("deny", {unconstrained}),
    Answered("deny", base_allow_reason), Answered("maybe", base_allow_reason),
    Unheard("garbled"), Unheard("trapped")>>

Small(listed, of) == [catalog |-> [probes |-> small_probes, rows |-> listed], visits |-> 2,
                      shipped |-> FALSE, answers |-> of]

(* Files that are not catalogs. *)
Broken ==
  <<<<>>, <<row("unknown probe", "Partial", <<build("elsewhere", base_request, allow({}))>>)>>,
    <<row("nothing", "Partial", <<>>)>>, <<[small_rows[1] EXCEPT !.documented_because = TRUE]>>>>

(* First the shipped scene, then the broken files, then the small catalog  *)
(* under each combination of answers.                                      *)
scenes ==
  LET base == Len(Answers)
      Nth(n) == Answers[(n % base) + 1]
  IN  <<shipped>>
        \o [n \in DOMAIN Broken |->
              [Small(Broken[n], [i \in 1..3 |-> Unheard("trapped")]) EXCEPT !.visits = 1]]
        \o [n \in 1..(base * base * base) |->
              Small(small_rows, <<Nth(n), Nth(n \div base), Nth(n \div (base * base))>>)]
MCScenes == scenes

===============================================================================
