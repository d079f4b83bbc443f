------------------------------- MODULE RuleProbes ------------------------------
(***************************************************************************)
(* The probe catalog, first part: the requests the repository keeps to     *)
(* hold its own account of ODRL 2.2 against the engine, each with the      *)
(* answer it documents.  Here how they are built, and those about what one *)
(* rule says: actions, left operands, operators, logical constraints.      *)
(* Prose (titles, reasons for a status, citations) is left out; what a     *)
(* request says and what is expected of its answer is not.                 *)
(***************************************************************************)
EXTENDS Wire

-------------------------------------------------------------------------------
(* Building blocks. *)
action(id) == [id |-> id, includedIn |-> NoAction]
action_in(id, parent) == [id |-> id, includedIn |-> parent]

PROFILE_ID == "probe profile"
DATASET_ID == "urn:dataset"

config(actions) ==
  [id |-> PROFILE_ID, actions |-> actions, dutyMode |-> "advise", behaviour |-> "closed",
   partyIdentityClaim |-> NoClaim, agreementAssigneeClaim |-> NoClaim]
flat_config(ids) == config([i \in DOMAIN ids |-> action(ids[i])])

targeted_rule(a, target, constraints) ==
  [action |-> a, target |-> target, constraints |-> constraints, duties |-> <<>>]
rule(a, constraints) == targeted_rule(a, NoTarget, constraints)
with_duties(r, duties) == [r EXCEPT !.duties = duties]
hop(a, constraints) == [action |-> a, constraints |-> constraints]

policy(id, permissions) ==
  [id |-> id, kind |-> "Set", assignee |-> NoParty, inheritFrom |-> <<>>, profile |-> {},
   permissions |-> permissions, prohibitions |-> <<>>, obligations |-> <<>>,
   conflict |-> "invalid"]

base_request ==
  [dataset |-> DATASET_ID, action |-> "use", config |-> flat_config(<<"use">>),
   policies |-> <<policy("probe", <<rule("use", <<>>)>>)>>, claims |-> <<>>,
   assetCollections |-> {}, partyCollections |-> {}, unread |-> {}]

c(left, operator, right) == Atom(left, operator, right)
s(value) == {<<value>>}
m(values) == {<<v>> : v \in values}
no_claims == <<>>

constrained(constraints, claims) ==
  [base_request EXCEPT !.policies[1].permissions = <<rule("use", constraints)>>,
                       !.claims = claims]
one(constraint, claims) == constrained(<<constraint>>, claims)

(* A key added to an object of the request: <<which object, key>>.         *)
patched(request, keys) == [request EXCEPT !.unread = keys]

-------------------------------------------------------------------------------
(* What is expected.  duties and dataset are sets of at most one: empty    *)
(* where nothing is asserted.                                              *)
expectation(decision, contains) ==
  [decision |-> decision, contains |-> contains, excludes |-> {}, duties |-> {}, dataset |-> {}]
allow(contains) == expectation("allow", contains)
deny(contains) == expectation("deny", contains)
error(contains) == expectation("error", contains)
excluding(expect, phrases) == [expect EXCEPT !.excludes = phrases]
and_duties(expect, duties) == [expect EXCEPT !.duties = {duties}]
and_dataset(expect, id) == [expect EXCEPT !.dataset = {id}]

duty(a) == [policy |-> "probe", action |-> a, resolved |-> FALSE]

matched(i, id) == Says("permission matched", i, <<id>>)
exactly(a) == Says("its action", 0, <<a>>)
covering(a) == Says("its action covers the requested", 0, <<a>>)
unconstrained == Says("unconstrained", 0, <<>>)
stating(constraint) == Says("constraint", 1, Worded(constraint))

base_allow_reason == {matched(1, "probe"), exactly("use"), unconstrained}
closed_deny(a) == deny({Says("no permission covered and matched", 0, <<"probe", a>>)})
allow_constrained(constraint) == allow({matched(1, "probe"), exactly("use"), stating(constraint)})

(* A probe: the answer is the one documented; ideal, where it is not       *)
(* "none", is the decision a full implementation would give instead.       *)
build(id, request, expect) == [id |-> id, request |-> request, expect |-> expect, ideal |-> "none"]
falls_short_of(probe, decision) == [probe EXCEPT !.ideal = decision]

(* The claim or no claim that a constraint on the same key is met with.    *)
meets(id, constraint, claims) == build(id, one(constraint, claims), allow_constrained(constraint))
misses(id, constraint, claims) == build(id, one(constraint, claims), closed_deny("use"))

-------------------------------------------------------------------------------
(* 1. Actions. *)
act_base_exact == build("act-base-exact", base_request, allow(base_allow_reason))

act_includedin_1hop ==
  build("act-includedin-1hop",
        [base_request EXCEPT !.action = "sell",
           !.config = config(<<action("use"), action("transfer"), action_in("sell", "transfer")>>),
           !.policies = <<policy("probe", <<rule("transfer", <<>>)>>)>>],
        allow({matched(1, "probe"), covering("transfer"), unconstrained}))

act_includedin_2hop ==
  build("act-includedin-2hop",
        [base_request EXCEPT !.action = "display",
           !.config = config(<<action("use"), action_in("play", "use"), action_in("display", "play")>>)],
        allow({matched(1, "probe"), covering("use"), unconstrained}))

act_includedin_undeclared_gap ==
  falls_short_of(
    build("act-includedin-undeclared-gap",
          [base_request EXCEPT !.action = "display",
             !.config = config(<<action("use"), action_in("display", "play")>>)],
          closed_deny("display")), "allow")

act_implies_ignored ==
  build("act-implies-ignored",
        patched([base_request EXCEPT !.action = "sell",
                   !.config = flat_config(<<"use", "transfer", "sell">>),
                   !.policies = <<policy("probe", <<rule("transfer", <<>>)>>)>>],
                {<<"action", "odrl:implies">>}),
        closed_deny("sell"))

(* Of the 51 terms of the shipped taxonomy, those a probe names. *)
taxonomy_config ==
  [config(<<action_in("anonymize", "use"), action_in("compensate", "use"),
            action_in("display", "play"), action_in("extract", "reproduce"),
            action_in("play", "use"), action_in("reproduce", "use"),
            action_in("sell", "transfer"), action("transfer"), action("use")>>)
     EXCEPT !.id = "odrl-vocab"]

taxonomy_probe(id, requested, permitted) ==
  build(id, [base_request EXCEPT !.action = requested, !.config = taxonomy_config,
               !.policies = <<policy("probe", <<rule(permitted, <<>>)>>)>>],
        allow({matched(1, "probe"), covering(permitted), unconstrained}))

act_taxonomy_display_play_use == taxonomy_probe("act-taxonomy-display-play-use", "display", "use")
act_taxonomy_extract_reproduce_use ==
  taxonomy_probe("act-taxonomy-extract-reproduce-use", "extract", "reproduce")
act_taxonomy_sell_transfer == taxonomy_probe("act-taxonomy-sell-transfer", "sell", "transfer")

act_unrecognized_error ==
  build("act-unrecognized-error",
        [base_request EXCEPT !.policies = <<policy("probe", <<rule("anonymize", <<>>)>>)>>],
        error({Says("unrecognized action", 0, <<"anonymize">>), Says("in permission rule", 1, <<>>)}))

act_unrecognized_outranks_allow ==
  build("act-unrecognized-outranks-allow",
        [base_request EXCEPT !.policies = <<policy("probe-ok", <<rule("use", <<>>)>>),
                                            policy("probe-bad", <<rule("anonymize", <<>>)>>)>>],
        error({Says("policy", 0, <<"probe-bad">>), Says("unrecognized action", 0, <<"anonymize">>)}))

action_probes ==
  <<act_base_exact, act_includedin_1hop, act_includedin_2hop, act_includedin_undeclared_gap,
    act_implies_ignored, act_taxonomy_display_play_use, act_taxonomy_extract_reproduce_use,
    act_taxonomy_sell_transfer, act_unrecognized_error, act_unrecognized_outranks_allow>>

-------------------------------------------------------------------------------
(* 2. Left operands: claims under keys the engine gives no meaning to. *)
lo_extension_hit == meets("lo-extension-hit", c("loyaltyTier", "eq", <<"gold">>), "loyaltyTier" :> s("gold"))
lo_extension_miss == misses("lo-extension-miss", c("loyaltyTier", "eq", <<"gold">>), "loyaltyTier" :> s("silver"))

in_2026 == c("dateTime", "lt", <<"2027-01-01T00:00:00Z">>)
lo_datetime_hit == meets("lo-datetime-hit", in_2026, "dateTime" :> s("2026-09-05T12:00:00Z"))
lo_datetime_miss == misses("lo-datetime-miss", in_2026, "dateTime" :> s("2027-06-01T00:00:00Z"))
lo_datetime_absent_no_clock ==
  falls_short_of(
    misses("lo-datetime-absent-no-clock", c("dateTime", "lt", <<"2999-01-01T00:00:00Z">>), no_claims),
    "allow")

up_to_ten == c("count", "lteq", <<"10">>)
lo_count_hit == meets("lo-count-hit", up_to_ten, "count" :> s("7"))
lo_count_miss == misses("lo-count-miss", up_to_ten, "count" :> s("11"))
lo_count_absent_not_stateful == misses("lo-count-absent-not-stateful", up_to_ten, no_claims)
lo_count_nonnumeric_miss == misses("lo-count-nonnumeric-miss", up_to_ten, "count" :> s("seven"))
lo_count_infinity_rejected ==
  misses("lo-count-infinity-rejected", c("count", "gt", <<"0">>), "count" :> s("inf"))
lo_payamount_decimal ==
  meets("lo-payamount-decimal", c("payAmount", "gteq", <<"5.00">>), "payAmount" :> s("5.5"))

in_bavaria == c("spatial", "eq", <<"geonames 2921044">>)
lo_spatial_flat_hit == meets("lo-spatial-flat-hit", in_bavaria, "spatial" :> s("geonames 2921044"))
lo_spatial_no_containment ==
  misses("lo-spatial-no-containment", in_bavaria, "spatial" :> s("geonames 2950159"))
lo_purpose_opaque_hit ==
  meets("lo-purpose-opaque-hit", c("purpose", "eq", <<"Purpose:research">>),
        "purpose" :> s("Purpose:research"))
lo_language_no_bcp47 ==
  misses("lo-language-no-bcp47", c("language", "eq", <<"en">>), "language" :> s("en-GB"))
lo_event_no_period_ordering ==
  misses("lo-event-no-period-ordering", c("event", "lt", <<"events/conf2">>), "event" :> s("events/conf"))

an_hour == c("meteredTime", "lteq", <<"PT60M">>)
lo_duration_metering_example ==
  meets("lo-duration-metering-example", an_hour, "meteredTime" :> s("PT30M"))
lo_duration_malformed_miss ==
  misses("lo-duration-malformed-miss", an_hour, "meteredTime" :> s("thirty minutes"))

in_paris == c("spatialCoordinates", "eq", <<"48.8566", "2.3522">>)
lo_coordinates_string_eq ==
  meets("lo-coordinates-string-eq", in_paris, "spatialCoordinates" :> {<<"48.8566", "2.3522">>})
lo_coordinates_no_geometry ==
  misses("lo-coordinates-no-geometry", in_paris, "spatialCoordinates" :> {<<"48.8567", "2.3523">>})
lo_absoluteposition_no_ordering ==
  misses("lo-absoluteposition-no-ordering", c("absolutePosition", "lt", <<"49", "3">>),
         "absolutePosition" :> {<<"48.8566", "2.3522">>})

lo_unitofcount_page ==
  meets("lo-unitofcount-page", up_to_ten, "count" :> s("7") @@ "unitOfCount" :> s("page"))
lo_unitofcount_volume ==
  meets("lo-unitofcount-volume", up_to_ten, "count" :> s("7") @@ "unitOfCount" :> s("volume"))
lo_unitofcount_as_plain_key ==
  meets("lo-unitofcount-as-plain-key", c("unitOfCount", "eq", <<"page">>), "unitOfCount" :> s("page"))

usage_event == c("event", "eq", <<"odrl:policyUsage">>)
lo_policyusage_literal ==
  falls_short_of(meets("lo-policyusage-literal", usage_event, "event" :> s("odrl:policyUsage")), "deny")
lo_policyusage_absent == misses("lo-policyusage-absent", usage_event, no_claims)

left_operand_probes ==
  <<lo_extension_hit, lo_extension_miss, lo_datetime_hit, lo_datetime_miss,
    lo_datetime_absent_no_clock, lo_count_hit, lo_count_miss, lo_count_absent_not_stateful,
    lo_count_nonnumeric_miss, lo_count_infinity_rejected, lo_payamount_decimal,
    lo_spatial_flat_hit, lo_spatial_no_containment, lo_purpose_opaque_hit, lo_language_no_bcp47,
    lo_event_no_period_ordering, lo_duration_metering_example, lo_duration_malformed_miss,
    lo_coordinates_string_eq, lo_coordinates_no_geometry, lo_absoluteposition_no_ordering,
    lo_unitofcount_page, lo_unitofcount_volume, lo_unitofcount_as_plain_key,
    lo_policyusage_literal, lo_policyusage_absent>>

-------------------------------------------------------------------------------
(* 3. Operators. *)
german == c("nationality", "eq", <<"DE">>)
op_eq_single == meets("op-eq-single", german, "nationality" :> s("DE"))
op_eq_multi_membership ==
  falls_short_of(meets("op-eq-multi-membership", german, "nationality" :> m({"FR", "DE"})), "deny")
op_eq_no_concat ==
  misses("op-eq-no-concat", c("nationality", "eq", <<"FR", "DE">>), "nationality" :> m({"FR", "DE"}))

not_german == c("nationality", "neq", <<"DE">>)
op_neq_hit == meets("op-neq-hit", not_german, "nationality" :> s("US"))
op_neq_absent_miss == misses("op-neq-absent-miss", not_german, no_claims)

any_scope == c("scope", "isAnyOf", <<"read", "write", "delete">>)
op_isanyof_hit == meets("op-isanyof-hit", any_scope, "scope" :> s("write"))
op_isanyof_miss == misses("op-isanyof-miss", any_scope, "scope" :> s("admin"))
any_purpose == c("purpose", "isAnyOf", <<"research", "teaching">>)
op_isanyof_comma_unescapable ==
  misses("op-isanyof-comma-unescapable", any_purpose, "purpose" :> {<<"research", "teaching">>})
op_isanyof_comma_control == meets("op-isanyof-comma-control", any_purpose, "purpose" :> s("research"))

all_scopes == c("scope", "isAllOf", <<"read", "write">>)
op_isallof_hit == meets("op-isallof-hit", all_scopes, "scope" :> m({"read", "write", "delete"}))
op_isallof_miss == misses("op-isallof-miss", all_scopes, "scope" :> m({"read"}))

none_of_two == c("nationality", "isNoneOf", <<"US", "CN">>)
op_isnoneof_hit == meets("op-isnoneof-hit", none_of_two, "nationality" :> s("FR"))
op_isnoneof_miss == misses("op-isnoneof-miss", none_of_two, "nationality" :> s("US"))
op_isnoneof_absent_satisfies == meets("op-isnoneof-absent-satisfies", none_of_two, no_claims)

op_ispartof_hit ==
  meets("op-ispartof-hit", c("spatial", "isPartOf", <<"DE", "FR", "IT">>), "spatial" :> s("DE"))
op_ispartof_no_hierarchy ==
  falls_short_of(
    misses("op-ispartof-no-hierarchy", c("spatial", "isPartOf", <<"geonames 2921044">>),
           "spatial" :> s("geonames 2950159")), "allow")
op_ispartof_mirrors_isanyof ==
  meets("op-ispartof-mirrors-isanyof", c("scope", "isPartOf", <<"read", "write", "delete">>),
        "scope" :> s("write"))

op_lt_fractional_chronological ==
  meets("op-lt-fractional-chronological", c("dateTime", "lt", <<"2024-02-12T11:20:00.5Z">>),
        "dateTime" :> s("2024-02-12T11:20:00Z"))
op_lteq_xsd_date ==
  meets("op-lteq-xsd-date", c("dateTime", "lteq", <<"2024-02-12T00:00:00Z">>),
        "dateTime" :> s("2024-02-12"))
op_lt_offset_datetime ==
  meets("op-lt-offset-datetime", c("dateTime", "lt", <<"2024-02-12T12:00:00Z">>),
        "dateTime" :> s("2024-02-12T13:20:00+02:00"))
op_gteq_numeric_boundary ==
  meets("op-gteq-numeric-boundary", c("count", "gteq", <<"10">>), "count" :> s("10"))
op_gt_numeric_boundary ==
  misses("op-gt-numeric-boundary", c("count", "gt", <<"10">>), "count" :> s("10"))
op_lt_mixed_type_miss ==
  misses("op-lt-mixed-type-miss", c("dateTime", "lt", <<"99999">>),
         "dateTime" :> s("2024-02-12T11:20:00Z"))

(* The same request, with its operator overwritten. *)
for_purpose(operator) == one(c("purpose", operator, <<"odrl:Purpose">>), "purpose" :> s("odrl:Purpose"))
unparseable(variant) == error({Says("did not parse", 0, <<variant>>)})

op_isa_unparseable ==
  falls_short_of(build("op-isa-unparseable", for_purpose("isA"), unparseable("isA")), "deny")
op_haspart_unparseable ==
  falls_short_of(build("op-haspart-unparseable", for_purpose("hasPart"), unparseable("hasPart")), "deny")
op_isa_control_eq ==
  build("op-isa-control-eq", for_purpose("eq"),
        allow_constrained(c("purpose", "eq", <<"odrl:Purpose">>)))
op_profile_operator_unparseable ==
  build("op-profile-operator-unparseable",
        patched(for_purpose("ex:withinRadius"), {<<"config", "odrl:operator">>}),
        unparseable("ex:withinRadius"))

operator_probes ==
  <<op_eq_single, op_eq_multi_membership, op_eq_no_concat, op_neq_hit, op_neq_absent_miss,
    op_isanyof_hit, op_isanyof_miss, op_isanyof_comma_unescapable, op_isanyof_comma_control,
    op_isallof_hit, op_isallof_miss, op_isnoneof_hit, op_isnoneof_miss,
    op_isnoneof_absent_satisfies, op_ispartof_hit, op_ispartof_no_hierarchy,
    op_ispartof_mirrors_isanyof, op_lt_fractional_chronological, op_lteq_xsd_date,
    op_lt_offset_datetime, op_gteq_numeric_boundary, op_gt_numeric_boundary,
    op_lt_mixed_type_miss, op_isa_unparseable, op_haspart_unparseable, op_isa_control_eq,
    op_profile_operator_unparseable>>

-------------------------------------------------------------------------------
(* 4. Logical constraints. *)
nation(v) == c("nationality", "eq", <<v>>)
scoped(v) == c("scope", "eq", <<v>>)
who_may(n, v) == "nationality" :> s(n) @@ "scope" :> s(v)
read_in_DE == <<nation("DE"), scoped("read")>>
xone_children == <<nation("DE"), scoped("admin")>>
or_nations == Logical("or", <<nation("FR"), nation("DE")>>)

lc_and_both == meets("lc-and-both", Logical("and", read_in_DE), who_may("DE", "read"))
lc_and_one_false == misses("lc-and-one-false", Logical("and", read_in_DE), who_may("DE", "admin"))
lc_and_empty_vacuous == meets("lc-and-empty-vacuous", Logical("and", <<>>), no_claims)
lc_or_second == meets("lc-or-second", or_nations, "nationality" :> s("DE"))
lc_or_none == misses("lc-or-none", or_nations, "nationality" :> s("US"))
lc_or_empty_never == misses("lc-or-empty-never", Logical("or", <<>>), no_claims)
lc_xone_exactly_one ==
  meets("lc-xone-exactly-one", Logical("xone", xone_children), who_may("DE", "user"))
lc_xone_zero == misses("lc-xone-zero", Logical("xone", xone_children), who_may("US", "user"))
lc_xone_two_denies == misses("lc-xone-two-denies", Logical("xone", xone_children), who_may("DE", "admin"))
lc_or_two_allows_control ==
  meets("lc-or-two-allows-control", Logical("or", xone_children), who_may("DE", "admin"))

(* A list added beside atomic fields that fail. *)
beside(list, operands) == [nation("US") EXCEPT !.list = list, !.operands = operands]
lc_andsequence_honored ==
  meets("lc-andsequence-honored", beside("andSequence", read_in_DE), who_may("DE", "read"))
lc_andsequence_miss ==
  misses("lc-andsequence-miss", beside("andSequence", read_in_DE), "nationality" :> s("US"))
lc_and_control_honored ==
  meets("lc-and-control-honored", beside("and", read_in_DE), who_may("DE", "read"))
lc_custom_logical_ignored ==
  build("lc-custom-logical-ignored",
        patched(one(nation("US"), who_may("DE", "read")),
                {<<"config", "odrl:logicalConstraint">>, <<"constraint", "ex:majorityOf">>}),
        closed_deny("use"))

logical_probes ==
  <<lc_and_both, lc_and_one_false, lc_and_empty_vacuous, lc_or_second, lc_or_none,
    lc_or_empty_never, lc_xone_exactly_one, lc_xone_zero, lc_xone_two_denies,
    lc_or_two_allows_control, lc_andsequence_honored, lc_andsequence_miss,
    lc_and_control_honored, lc_custom_logical_ignored>>

===============================================================================
