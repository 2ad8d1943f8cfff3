--------------------------- MODULE MCConfiguration ---------------------------
(* Instance of Configuration: a setting, a role, two pipelines, a field, a   *)
(* health rule and a policy; a pool of two connections.                      *)
EXTENDS Configuration

CONSTANTS currency, seller, funnel, renewals, region, idleDeals, discounts, primary, secondary, hq

Kinds == [x \in Item |->
    CASE x = currency -> "settings" [] x = seller -> "roles" [] x \in {funnel, renewals} -> "pipelines"
      [] x \in {region} -> "customFields" [] x = idleDeals -> "dealHealthRules" [] x = discounts -> "approvalPolicies"]
Orgs == [x \in Item |-> hq]
Start == LET one(i, v) == [id |-> i, value |-> v, version |-> 1, class |-> "open"] IN
    {[x \in Item |-> CASE x = currency -> {row \in {one(7, primary)} : role = {}} [] x = seller -> role [] x = funnel -> {one(2, primary)} [] x = renewals -> {one(3, secondary)}
        [] x = region -> {[one(4, primary) EXCEPT !.class = "kept"]} [] x = idleDeals -> {one(5, primary)}
        [] x = discounts -> {row \in {one(6, secondary)} : role # {}} [] OTHER -> {}] :
        role \in {{}, {[one(1, primary) EXCEPT !.class = "kept"]}}}
Presented == {[x \in {currency, idleDeals} |-> secondary], [x \in {renewals, discounts} |-> primary], [x \in {seller, region} |-> secondary]}
=============================================================================
