--------------------------------- MODULE Probes --------------------------------
(***************************************************************************)
(* The probe catalog, second part: the probes about whole policies, whom   *)
(* they address and how several combine, and the rows of the vocabulary    *)
(* that all the probes stand for.                                          *)
(***************************************************************************)
EXTENDS RuleProbes

-------------------------------------------------------------------------------
(* 5. Policy classes.  Alice is who the policies name; Mallory is the      *)
(* stranger.                                                               *)
alice == <<"did:web:alice.example">>
mallory == <<"did:web:mallory.example">>
sub_is(party) == "sub" :> {party}
stranger == sub_is(mallory)

named_to(party, kind, claims) ==
  [base_request EXCEPT !.policies[1].kind = kind, !.policies[1].assignee = party,
                       !.claims = claims]
named_to_alice(kind, claims) == named_to(alice, kind, claims)
identified(request) == [request EXCEPT !.config.partyIdentityClaim = "sub"]
assignee_checked(request) == [request EXCEPT !.config.agreementAssigneeClaim = "sub"]

addressed_to_another(party, caller) ==
  deny({Says("no policy applies to this caller", 0, <<>>),
        Says("addressed to another", 0, <<"probe">> \o party),
        Says("while claiming", 0, <<"sub">> \o caller)})
no_permission_named == {Says("no permission covered and matched", 0, <<"probe", "use">>)}

pc_kind_set == build("pc-kind-set", named_to_alice("Set", stranger), allow(base_allow_reason))
pc_kind_agreement_ignores_assignee ==
  falls_short_of(build("pc-kind-agreement-ignores-assignee", named_to_alice("Agreement", stranger),
                       allow(base_allow_reason)), "deny")
pc_kind_agreement_assignee_claim_hit ==
  build("pc-kind-agreement-assignee-claim-hit",
        assignee_checked(named_to_alice("Agreement", sub_is(alice))), allow(base_allow_reason))
pc_kind_agreement_assignee_claim_excludes_a_mismatch ==
  build("pc-kind-agreement-assignee-claim-excludes-a-mismatch",
        assignee_checked(named_to_alice("Agreement", stranger)),
        excluding(addressed_to_another(alice, mallory), no_permission_named))
pc_kind_offer_assignee_inert_even_on_a_match ==
  build("pc-kind-offer-assignee-inert-even-on-a-match",
        identified(named_to_alice("Offer", sub_is(alice))), allow(base_allow_reason))
pc_kind_offer_assignee_inert_even_on_a_mismatch ==
  build("pc-kind-offer-assignee-inert-even-on-a-mismatch",
        identified(named_to_alice("Offer", stranger)), allow(base_allow_reason))
pc_kind_ticket_with_assignee ==
  build("pc-kind-ticket-with-assignee", named_to_alice("Ticket", stranger), allow(base_allow_reason))
pc_kind_nonsense ==
  falls_short_of(build("pc-kind-nonsense", named_to_alice("NotAnOdrlPolicyClass", stranger),
                       allow(base_allow_reason)), "error")
pc_kind_profile_subclass ==
  build("pc-kind-profile-subclass",
        patched(named_to_alice("ex:ResearchLicence", stranger), {<<"config", "odrl:policyClass">>}),
        allow(base_allow_reason))

policy_class_probes ==
  <<pc_kind_set, pc_kind_agreement_ignores_assignee, pc_kind_agreement_assignee_claim_hit,
    pc_kind_agreement_assignee_claim_excludes_a_mismatch,
    pc_kind_offer_assignee_inert_even_on_a_match,
    pc_kind_offer_assignee_inert_even_on_a_mismatch, pc_kind_ticket_with_assignee,
    pc_kind_nonsense, pc_kind_profile_subclass>>

-------------------------------------------------------------------------------
(* 6. Parties and their functions. *)
team_a == <<"team/A">>
murphy == <<"person/murphy">>
scoped_to_alice(claims) == identified(named_to_alice("Set", claims))
agreement_to_team_a(collections) ==
  [identified(named_to(team_a, "Set", sub_is(murphy))) EXCEPT !.partyCollections = collections]

pf_assignee_mismatch ==
  build("pf-assignee-mismatch", named_to_alice("Set", stranger), allow(base_allow_reason))
pf_assignee_null_control ==
  build("pf-assignee-null-control", [base_request EXCEPT !.claims = stranger], allow(base_allow_reason))
pf_assignee_scoped_hit ==
  build("pf-assignee-scoped-hit", scoped_to_alice(sub_is(alice)), allow(base_allow_reason))
pf_assignee_scoped_miss ==
  falls_short_of(build("pf-assignee-scoped-miss", scoped_to_alice(stranger),
                       excluding(addressed_to_another(alice, mallory), no_permission_named)), "allow")
pf_collection_member_hit ==
  build("pf-collection-member-hit", agreement_to_team_a({team_a}), allow(base_allow_reason))
pf_collection_other_miss ==
  build("pf-collection-other-miss", agreement_to_team_a({<<"team/B">>}),
        addressed_to_another(team_a, murphy))
pf_assignee_as_claim ==
  meets("pf-assignee-as-claim", c("assignee", "eq", alice), "assignee" :> {alice})
pf_assignerof_inert ==
  build("pf-assignerof-inert",
        patched([base_request EXCEPT !.claims = stranger],
                {<<"policy", "assignerOf">>, <<"policy", "assigneeOf">>}), allow(base_allow_reason))
pf_common_functions_inert ==
  build("pf-common-functions-inert",
        patched([base_request EXCEPT !.claims = stranger],
                {<<"policy", function>> : function \in
                   {"attributedParty", "attributingParty", "compensatedParty", "compensatingParty",
                    "consentingParty", "consentedParty", "contractingParty", "contractedParty",
                    "informedParty", "informingParty", "trackingParty", "trackedParty"}}),
        allow(base_allow_reason))

party_probes ==
  <<pf_assignee_mismatch, pf_assignee_null_control, pf_assignee_scoped_hit,
    pf_assignee_scoped_miss, pf_collection_member_hit, pf_collection_other_miss,
    pf_assignee_as_claim, pf_assignerof_inert, pf_common_functions_inert>>

-------------------------------------------------------------------------------
(* 7. Duties.  "duty:x" is the claim a fulfilment of duty x is told by.    *)
told(a) == "duty:" \o a
asserted_duty(a) == hop(a, <<c(told(a), "eq", <<"fulfilled">>)>>)
fulfilled(a) == told(a) :> s("fulfilled")

obligation_request(mode, obligations, claims) ==
  [base_request EXCEPT !.config = [flat_config(<<"use", "notify">>) EXCEPT !.dutyMode = mode],
     !.policies[1].obligations = obligations, !.claims = claims]

duty_obligation_unresolved_advise ==
  build("duty-obligation-unresolved-advise",
        obligation_request("advise", <<<<hop("notify", <<>>)>>>>, no_claims),
        and_duties(allow(base_allow_reason), {duty("notify")}))
duty_obligation_satisfied_by_claims ==
  build("duty-obligation-satisfied-by-claims",
        obligation_request("advise", <<<<hop("notify", <<c("notified", "eq", <<"true">>)>>)>>>>,
                           "notified" :> s("true")),
        and_duties(allow(base_allow_reason), {}))
duty_obligation_deny_mode ==
  build("duty-obligation-deny-mode",
        obligation_request("deny", <<<<hop("notify", <<>>)>>>>, no_claims),
        and_duties(deny({Says("obligation unresolved", 1, <<"notify", "probe">>)}), {}))

permission_duty_request(mode, claims) ==
  [base_request EXCEPT
     !.config = [flat_config(<<"use", "compensate", "notify">>) EXCEPT !.dutyMode = mode],
     !.policies[1].permissions = <<with_duties(rule("use", <<>>), <<<<asserted_duty("compensate")>>>>)>>,
     !.claims = claims]

duty_per_permission_unresolved_deny ==
  build("duty-per-permission-unresolved-deny", permission_duty_request("deny", no_claims),
        and_duties(deny({matched(1, "probe"), Says("duty unresolved", 1, <<"compensate">>)}),
                   {duty("compensate")}))
duty_per_permission_satisfied ==
  build("duty-per-permission-satisfied", permission_duty_request("deny", fulfilled("compensate")),
        and_duties(allow(base_allow_reason \cup {Says("duty satisfied", 1, <<"compensate">>)}), {}))
duty_per_permission_advisory ==
  falls_short_of(
    build("duty-per-permission-advisory", permission_duty_request("advise", no_claims),
          and_duties(allow(base_allow_reason), {duty("compensate")})), "deny")
duty_per_permission_scoped_to_its_own_permission ==
  build("duty-per-permission-scoped-to-its-own-permission",
        [permission_duty_request("deny", no_claims) EXCEPT
           !.policies[1].permissions = Append(@, rule("use", <<>>))],
        and_duties(allow({matched(2, "probe"), exactly("use"), unconstrained}), {duty("compensate")}))

notify_with_consequence == <<asserted_duty("notify"), asserted_duty("compensate")>>
consequence_request(mode, claims) ==
  [obligation_request(mode, <<notify_with_consequence>>, claims) EXCEPT
     !.config.actions = flat_config(<<"use", "notify", "compensate">>).actions]

duty_consequence_resolves_where_the_primary_did_not ==
  falls_short_of(
    build("duty-consequence-resolves-where-the-primary-did-not",
          consequence_request("deny", fulfilled("compensate")),
          and_duties(allow(base_allow_reason), {})), "deny")
duty_consequence_itself_unresolved ==
  falls_short_of(
    build("duty-consequence-itself-unresolved", consequence_request("advise", no_claims),
          and_duties(allow(base_allow_reason), {duty("compensate")})), "allow")

american == c("nationality", "eq", <<"US">>)
remedy_request(claims) ==
  [base_request EXCEPT !.config = flat_config(<<"use", "anonymize">>),
     !.policies[1].prohibitions =
        <<with_duties(rule("use", <<american>>), <<<<asserted_duty("anonymize")>>>>)>>,
     !.policies[1].conflict = "prohibit", !.claims = claims]
banned_with(remedy) ==
  {Says("prohibition matched", 1, <<"probe">>), exactly("use"), stating(american),
   Says(remedy, 1, <<"anonymize">>), Says("prohibit over permission", 1, <<>>)}

duty_remedy_unresolved_does_not_drop_the_prohibition ==
  build("duty-remedy-unresolved-does-not-drop-the-prohibition",
        remedy_request("nationality" :> s("US")),
        and_duties(deny(banned_with("duty unresolved")), {duty("anonymize")}))
duty_remedy_satisfied_still_denies ==
  build("duty-remedy-satisfied-still-denies",
        remedy_request("nationality" :> s("US") @@ fulfilled("anonymize")),
        and_duties(deny(banned_with("duty satisfied")), {}))
duty_remedy_not_reported_when_the_prohibition_does_not_fire ==
  build("duty-remedy-not-reported-when-the-prohibition-does-not-fire",
        remedy_request("nationality" :> s("DE")), and_duties(allow(base_allow_reason), {}))
duty_profile_rule_class_inert ==
  build("duty-profile-rule-class-inert",
        patched(base_request, {<<"policy", "ex:auditObligations">>}),
        and_duties(allow(base_allow_reason), {}))

duty_probes ==
  <<duty_obligation_unresolved_advise, duty_obligation_satisfied_by_claims,
    duty_obligation_deny_mode, duty_per_permission_unresolved_deny,
    duty_per_permission_satisfied, duty_per_permission_advisory,
    duty_per_permission_scoped_to_its_own_permission,
    duty_consequence_resolves_where_the_primary_did_not, duty_consequence_itself_unresolved,
    duty_remedy_unresolved_does_not_drop_the_prohibition, duty_remedy_satisfied_still_denies,
    duty_remedy_not_reported_when_the_prohibition_does_not_fire, duty_profile_rule_class_inert>>

-------------------------------------------------------------------------------
(* 8. Assets. *)
asked_of(asset, rules, prohibitions, collections) ==
  [base_request EXCEPT !.dataset = asset, !.policies[1].permissions = rules,
     !.policies[1].prohibitions = prohibitions, !.assetCollections = collections]
two_asset_request(asset) ==
  asked_of(asset, <<targeted_rule("use", "urn:asset:A", <<>>)>>,
           <<targeted_rule("use", "urn:asset:B", <<>>)>>, {})
collection_request(collections) ==
  asked_of("urn:asset:A", <<targeted_rule("use", "urn:asset:collection", <<>>)>>, <<>>, collections)
on_target(asset) == {exactly("use"), Says("on target", 0, <<asset>>), unconstrained}
off_target ==
  and_dataset(deny({Says("permission covers the action", 1, <<"probe">>),
                    Says("but targets", 0, <<"urn:asset:collection", "urn:asset:A">>)}),
              "urn:asset:A")

asset_per_rule_target_hit ==
  build("asset-per-rule-target-hit", two_asset_request("urn:asset:A"),
        and_dataset(allow({matched(1, "probe")} \cup on_target("urn:asset:A")), "urn:asset:A"))
asset_per_rule_target_miss ==
  build("asset-per-rule-target-miss", two_asset_request("urn:asset:B"),
        and_dataset(deny({Says("prohibition matched", 1, <<"probe">>)} \cup on_target("urn:asset:B")),
                    "urn:asset:B"))
asset_target_not_a_collection ==
  build("asset-target-not-a-collection", collection_request({}), off_target)
asset_collection_membership_hit ==
  build("asset-collection-membership-hit", collection_request({"urn:asset:collection"}),
        and_dataset(allow({matched(1, "probe")} \cup on_target("urn:asset:collection")), "urn:asset:A"))
asset_collection_membership_wrong_collection_miss ==
  build("asset-collection-membership-wrong-collection-miss",
        collection_request({"urn:asset:some-other-collection"}), off_target)
asset_output_ignored ==
  build("asset-output-ignored", patched(base_request, {<<"rule", "output">>}), allow(base_allow_reason))

asset_probes ==
  <<asset_per_rule_target_hit, asset_per_rule_target_miss, asset_target_not_a_collection,
    asset_collection_membership_hit, asset_collection_membership_wrong_collection_miss,
    asset_output_ignored>>

-------------------------------------------------------------------------------
(* 9. Conflict. *)
conflicting(strategy) ==
  [base_request EXCEPT !.policies[1].prohibitions = <<rule("use", <<>>)>>,
                       !.policies[1].conflict = strategy]
void_reason ==
  {Says("void", 0, <<"probe">>), Says("permission and", 1, <<>>),
   Says("prohibition matched", 1, <<>>), Says("strategy invalid", 0, <<>>)}
prohibition_named(id) == {Says("prohibition matched", 1, <<id>>)}

conflict_default_invalid_voids ==
  build("conflict-default-invalid-voids", conflicting("invalid"),
        excluding(deny(void_reason), prohibition_named("probe")))
conflict_invalid_declared_explicitly ==
  build("conflict-invalid-declared-explicitly", conflicting("invalid"),
        excluding(deny(void_reason), prohibition_named("probe")))
conflict_perm_allows ==
  build("conflict-perm-allows", conflicting("perm"),
        allow(base_allow_reason \cup {Says("perm over prohibition", 1, <<>>)}))
conflict_prohibit_denies ==
  build("conflict-prohibit-denies", conflicting("prohibit"),
        excluding(deny(prohibition_named("probe") \cup
                       {exactly("use"), unconstrained, Says("prohibit over permission", 1, <<>>)}),
                  {Says("void", 0, <<"probe">>)}))
conflict_no_collision_inert ==
  build("conflict-no-collision-inert", [base_request EXCEPT !.policies[1].conflict = "perm"],
        allow(base_allow_reason))
conflict_profile_strategy_unparseable ==
  build("conflict-profile-strategy-unparseable",
        patched(conflicting("ex:assigneeWins"), {<<"config", "odrl:conflict">>}),
        unparseable("ex:assigneeWins"))

conflict_probes ==
  <<conflict_default_invalid_voids, conflict_invalid_declared_explicitly, conflict_perm_allows,
    conflict_prohibit_denies, conflict_no_collision_inert, conflict_profile_strategy_unparseable>>

-------------------------------------------------------------------------------
(* 10. Behaviour, identifiers, profiles, inheritance, references. *)
open_default(id) == {Says("open default", 0, <<id>>)}
empty_permissions(behaviour) ==
  [base_request EXCEPT !.config.behaviour = behaviour, !.policies[1].permissions = <<>>]

beh_open_empty == build("beh-open-empty", empty_permissions("open"), allow(open_default("probe")))
beh_closed_empty ==
  build("beh-closed-empty", empty_permissions("closed"),
        excluding(closed_deny("use"), open_default("probe")))
beh_default_alias == build("beh-default-alias", empty_permissions("default"), closed_deny("use"))
beh_absent_defaults_open ==
  build("beh-absent-defaults-open", empty_permissions("absent"), allow(open_default("probe")))
beh_closed_with_matching_permission ==
  meets("beh-closed-with-matching-permission", german, "nationality" :> s("DE"))

uid_request == [one(german, "nationality" :> s("DE")) EXCEPT !.policies[1].id = "policies/p-42"]
uid_reason == {matched(1, "policies/p-42"), exactly("use"), stating(german)}
uid_policy_in_reason == build("uid-policy-in-reason", uid_request, allow(uid_reason))
uid_rule_index_not_uid ==
  build("uid-rule-index-not-uid", patched(uid_request, {<<"rule", "uid">>}),
        excluding(allow(uid_reason), {matched(1, "urn:rule:r-7")}))
uid_constraint_no_uid ==
  build("uid-constraint-no-uid", patched(uid_request, {<<"constraint", "uid">>}),
        excluding(allow(uid_reason), {matched(1, "urn:constraint:c-9")}))

anonymize_under(profile) ==
  [base_request EXCEPT !.action = "anonymize", !.config = flat_config(<<"use", "anonymize">>),
     !.policies = <<[policy("probe", <<rule("anonymize", <<>>)>>) EXCEPT !.profile = {profile}]>>]
profile_unrecognised_stops_processing ==
  build("profile-unrecognised-stops-processing", anonymize_under("profiles/A"),
        error({Says("profile not recognised", 0, <<"probe", "profiles/A">>)}))
profile_loaded_processed ==
  build("profile-loaded-processed", anonymize_under(PROFILE_ID),
        allow({matched(1, "probe"), exactly("anonymize"), unconstrained}))

(* A parent addressed to Mallory and a child addressed to the caller: what *)
(* the parent rules reaches the caller by inheritance only.                *)
isolated_parent(permissions, prohibitions) ==
  [policy("parent", permissions) EXCEPT !.assignee = mallory, !.prohibitions = prohibitions]
child_addressed_to_caller(inherits, permissions) ==
  [policy("child", permissions) EXCEPT
     !.assignee = alice, !.inheritFrom = IF inherits THEN <<"parent">> ELSE <<>>]
isolated(actions, behaviour, parent, child) ==
  identified([base_request EXCEPT
    !.config = [flat_config(actions) EXCEPT !.behaviour = behaviour],
    !.policies = <<parent, child>>, !.claims = sub_is(alice)])

safe_direction(inherits) ==
  isolated(<<"use", "notify">>, "closed", isolated_parent(<<rule("use", <<>>)>>, <<>>),
           child_addressed_to_caller(inherits, <<rule("notify", <<>>)>>))
inheritfrom_safe_direction_hit ==
  build("inheritfrom-safe-direction-hit", safe_direction(TRUE),
        allow({matched(2, "child"), exactly("use"), unconstrained}))
inheritfrom_safe_direction_control ==
  build("inheritfrom-safe-direction-control", safe_direction(FALSE),
        deny({Says("no permission covered and matched", 0, <<"child", "use">>)}))

fail_open(inherits) ==
  isolated(<<"use">>, "open", isolated_parent(<<>>, <<rule("use", <<>>)>>),
           child_addressed_to_caller(inherits, <<>>))
inheritfrom_fail_open_hit ==
  build("inheritfrom-fail-open-hit", fail_open(TRUE),
        deny(prohibition_named("child") \cup {exactly("use"), unconstrained}))
inheritfrom_fail_open_control ==
  build("inheritfrom-fail-open-control", fail_open(FALSE), allow(open_default("child")))

strategies(ofParent, ofChild) ==
  isolated(<<"use">>, "open",
           [isolated_parent(<<rule("use", <<>>)>>, <<rule("use", <<>>)>>) EXCEPT !.conflict = ofParent],
           [child_addressed_to_caller(TRUE, <<>>) EXCEPT !.conflict = ofChild])
inheritfrom_conflict_divergence_hit ==
  build("inheritfrom-conflict-divergence-hit", strategies("perm", "prohibit"),
        deny({Says("void", 0, <<"child">>), Says("permission and", 1, <<>>),
              Says("prohibition matched", 1, <<>>),
              Says("merged more than one strategy", 0, <<"prohibit">>)}))
inheritfrom_conflict_divergence_control ==
  build("inheritfrom-conflict-divergence-control", strategies("prohibit", "prohibit"),
        deny(prohibition_named("child") \cup
             {exactly("use"), unconstrained, Says("prohibit over permission", 1, <<>>)}))

region(v) == c("spatial", "eq", <<v>>)
ror_literal_eq == meets("ror-literal-eq", region("regions/eu"), "spatial" :> s("regions/eu"))
ror_not_dereferenced == misses("ror-not-dereferenced", region("regions/eu"), "spatial" :> s("DE"))
ror_reference_key_ignored ==
  falls_short_of(
    build("ror-reference-key-ignored",
          patched(one(region("XX"), "spatial" :> s("DE")), {<<"constraint", "rightOperandReference">>}),
          closed_deny("use")), "error")

other_probes ==
  <<beh_open_empty, beh_closed_empty, beh_default_alias, beh_absent_defaults_open,
    beh_closed_with_matching_permission, uid_policy_in_reason, uid_rule_index_not_uid,
    uid_constraint_no_uid, profile_unrecognised_stops_processing, profile_loaded_processed,
    inheritfrom_safe_direction_hit, inheritfrom_safe_direction_control,
    inheritfrom_fail_open_hit, inheritfrom_fail_open_control,
    inheritfrom_conflict_divergence_hit, inheritfrom_conflict_divergence_control,
    ror_literal_eq, ror_not_dereferenced, ror_reference_key_ignored>>

probes ==
  action_probes \o left_operand_probes \o operator_probes \o logical_probes
    \o policy_class_probes \o party_probes \o duty_probes \o asset_probes
    \o conflict_probes \o other_probes

(* What a probe adds to see it ignored is a key the engine does not read.  *)
ASSUME ProbesAreNotVacuous ==
  \A i \in DOMAIN probes : \A patch \in probes[i].request.unread :
    patch[2] \notin KnownKeys[patch[1]]

-------------------------------------------------------------------------------
(* The rows of the vocabulary: the status the repository documents for     *)
(* each, and the probes that hold it to that.  A row no request can pose   *)
(* is documented instead; one such falls short for good.                   *)
row(id, status, ofRow) ==
  [id |-> id, status |-> status, probe_ids |-> [i \in DOMAIN ofRow |-> ofRow[i].id],
   documented_because |-> FALSE, full_compliance_gap |-> FALSE]
documented_row(id, status) == [row(id, status, <<>>) EXCEPT !.documented_because = TRUE]
falls_short_at_row_level(r) == [r EXCEPT !.full_compliance_gap = TRUE]

action_rows ==
  <<row("actions.open-vocabulary", "Implemented", <<act_base_exact, act_includedin_1hop>>),
    row("actions.included-in-transitive", "Partial", <<
        act_includedin_2hop, act_includedin_undeclared_gap>>),
    row("actions.implies", "NotImplemented", <<act_implies_ignored, act_includedin_1hop>>),
    row("actions.spec-taxonomy", "Partial", <<
        act_taxonomy_display_play_use, act_taxonomy_extract_reproduce_use,
        act_taxonomy_sell_transfer>>),
    row("actions.unrecognized-is-error", "Implemented", <<
        act_unrecognized_error, act_unrecognized_outranks_allow>>)>>

left_operand_rows ==
  <<row("left-operands.extension", "Implemented", <<lo_extension_hit, lo_extension_miss>>),
    row("left-operands.datetime", "Partial", <<
        lo_datetime_hit, lo_datetime_miss, lo_datetime_absent_no_clock>>),
    row("left-operands.numeric", "Partial", <<
        lo_count_hit, lo_count_miss, lo_count_absent_not_stateful, lo_count_nonnumeric_miss,
        lo_count_infinity_rejected, lo_payamount_decimal>>),
    row("left-operands.spatial", "Partial", <<lo_spatial_flat_hit, lo_spatial_no_containment>>),
    row("left-operands.opaque", "Partial", <<
        lo_purpose_opaque_hit, lo_language_no_bcp47, lo_event_no_period_ordering>>),
    row("left-operands.durations", "Partial", <<
        lo_duration_metering_example, lo_duration_malformed_miss>>),
    row("left-operands.coordinates", "NotImplemented", <<
        lo_coordinates_string_eq, lo_coordinates_no_geometry,
        lo_absoluteposition_no_ordering>>),
    row("left-operands.unit-of-count", "NotImplemented", <<
        lo_unitofcount_page, lo_unitofcount_volume, lo_unitofcount_as_plain_key>>),
    row("left-operands.policy-usage", "NotImplemented", <<
        lo_policyusage_literal, lo_policyusage_absent>>)>>

operator_rows ==
  <<row("operators.eq", "Partial", <<op_eq_single, op_eq_multi_membership, op_eq_no_concat>>),
    row("operators.neq", "Partial", <<op_neq_hit, op_neq_absent_miss>>),
    row("operators.set-operators", "Implemented", <<
        op_isanyof_hit, op_isanyof_miss, op_isanyof_comma_unescapable,
        op_isanyof_comma_control, op_isallof_hit, op_isallof_miss, op_isnoneof_hit,
        op_isnoneof_miss, op_isnoneof_absent_satisfies>>),
    row("operators.is-part-of", "Partial", <<
        op_ispartof_hit, op_ispartof_no_hierarchy, op_ispartof_mirrors_isanyof>>),
    row("operators.ordering", "Partial", <<
        op_lt_fractional_chronological, op_lteq_xsd_date, op_lt_offset_datetime,
        op_gteq_numeric_boundary, op_gt_numeric_boundary, op_lt_mixed_type_miss>>),
    row("operators.isa-haspart", "NotImplemented", <<
        op_isa_unparseable, op_haspart_unparseable, op_isa_control_eq>>),
    row("operators.profile-extension", "OutOfScope", <<op_profile_operator_unparseable>>)>>

logical_rows ==
  <<row("logical.and", "Implemented", <<lc_and_both, lc_and_one_false, lc_and_empty_vacuous>>),
    row("logical.or", "Implemented", <<lc_or_second, lc_or_none, lc_or_empty_never>>),
    row("logical.xone", "Implemented", <<
        lc_xone_exactly_one, lc_xone_zero, lc_xone_two_denies, lc_or_two_allows_control>>),
    row("logical.and-sequence", "Partial", <<
        lc_andsequence_honored, lc_andsequence_miss, lc_and_control_honored>>),
    row("logical.profile-extension", "OutOfScope", <<lc_custom_logical_ignored>>)>>

policy_class_rows ==
  <<row("policy-classes.discrimination", "Partial", <<
        pc_kind_agreement_ignores_assignee, pc_kind_agreement_assignee_claim_hit,
        pc_kind_agreement_assignee_claim_excludes_a_mismatch,
        pc_kind_offer_assignee_inert_even_on_a_match,
        pc_kind_offer_assignee_inert_even_on_a_mismatch, pc_kind_ticket_with_assignee,
        pc_kind_nonsense>>),
    row("policy-classes.set-default", "Partial", <<pc_kind_set, pc_kind_nonsense>>),
    row("policy-classes.profile-subclass", "OutOfScope", <<
        pc_kind_profile_subclass, pc_kind_nonsense>>)>>

party_rows ==
  <<row("party.assigner-assignee", "Partial", <<
        pf_assignee_mismatch, pf_assignee_null_control, pf_assignee_scoped_hit,
        pf_assignee_scoped_miss, pf_collection_member_hit, pf_collection_other_miss,
        pf_assignee_as_claim>>),
    falls_short_at_row_level(documented_row("party.collections", "Partial")),
    row("party.inverse-properties", "NotImplemented", <<
        pf_assignerof_inert, pf_assignee_null_control>>),
    row("party.common-functions", "NotImplemented", <<
        pf_common_functions_inert, pf_assignee_null_control>>),
    row("party.profile-roles", "OutOfScope", <<
        pf_common_functions_inert, pf_assignee_null_control>>)>>

duty_rows ==
  <<row("duty.obligation", "Partial", <<
        duty_obligation_unresolved_advise, duty_obligation_satisfied_by_claims,
        duty_obligation_deny_mode>>),
    row("duty.per-permission", "Partial", <<
        duty_per_permission_unresolved_deny, duty_per_permission_satisfied,
        duty_per_permission_advisory, duty_per_permission_scoped_to_its_own_permission>>),
    row("duty.consequence", "Partial", <<
        duty_consequence_resolves_where_the_primary_did_not,
        duty_consequence_itself_unresolved>>),
    row("duty.remedy", "Partial", <<
        duty_remedy_unresolved_does_not_drop_the_prohibition,
        duty_remedy_satisfied_still_denies,
        duty_remedy_not_reported_when_the_prohibition_does_not_fire>>),
    row("duty.profile-rule-classes", "OutOfScope", <<
        duty_profile_rule_class_inert, act_base_exact>>)>>

asset_rows ==
  <<row("assets.collections", "Partial", <<
        asset_collection_membership_hit, asset_collection_membership_wrong_collection_miss,
        asset_target_not_a_collection>>),
    row("assets.target", "Partial", <<asset_per_rule_target_hit, asset_per_rule_target_miss>>),
    row("assets.output", "NotImplemented", <<asset_output_ignored, act_base_exact>>),
    documented_row("assets.has-policy", "OutOfScope")>>

conflict_rows ==
  <<row("conflict.property", "Implemented", <<
        conflict_default_invalid_voids, conflict_perm_allows, conflict_prohibit_denies>>),
    row("conflict.fixed-strategy", "Implemented", <<
        conflict_default_invalid_voids, conflict_invalid_declared_explicitly>>),
    row("conflict.profile-strategies", "OutOfScope", <<
        conflict_profile_strategy_unparseable, conflict_no_collision_inert>>)>>

other_rows ==
  <<row("other.uid", "Partial", <<
        uid_policy_in_reason, uid_rule_index_not_uid, uid_constraint_no_uid>>),
    row("other.profile-property", "Implemented", <<
        profile_unrecognised_stops_processing, profile_loaded_processed>>),
    row("other.inherit-from", "Partial", <<
        inheritfrom_safe_direction_hit, inheritfrom_safe_direction_control,
        inheritfrom_fail_open_hit, inheritfrom_fail_open_control,
        inheritfrom_conflict_divergence_hit, inheritfrom_conflict_divergence_control>>),
    row("other.right-operand-reference", "NotImplemented", <<
        ror_literal_eq, ror_not_dereferenced, ror_reference_key_ignored>>),
    row("other.behaviour", "Implemented", <<
        beh_open_empty, beh_closed_empty, beh_default_alias, beh_absent_defaults_open,
        beh_closed_with_matching_permission>>),
    row("other.error-on-unrecognized", "Implemented", <<
        act_unrecognized_error, act_unrecognized_outranks_allow>>)>>

rows ==
  action_rows \o left_operand_rows \o operator_rows \o logical_rows \o policy_class_rows
    \o party_rows \o duty_rows \o asset_rows \o conflict_rows \o other_rows


===============================================================================
