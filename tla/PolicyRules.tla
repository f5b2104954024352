---------------------------- MODULE PolicyRules ----------------------------
(***************************************************************************)
(* The words that rules, marks and verdicts are written in: the actions of *)
(* NetPolicyRule, which double as marks, and the directions of a rule.     *)
(***************************************************************************)
\* NetPolicyRule
kDeny == 0
kAllow == 1
kMark == 2
kAllowRsp == 3
kAllowReq == 4
kDefault == 5

RuleActions == {kDeny, kAllow, kMark}

Dirs == {"ingress", "egress"}
Opposite(dir) == IF dir = "ingress" THEN "egress" ELSE "ingress"
=============================================================================
