----------------------------- MODULE MCRelease -----------------------------
(* One small host with the constrained settings; two hosts with the rolling  *)
(* ones and one larger host, for payments alone: with the rolling settings it *)
(* gets by default and with a percentage of its own.  A stack has no public  *)
(* edge, one is refused for its payments tasks and one for its percentages.  *)
EXTENDS Release

Overrides(pay, shop) == [s \in Services |-> IF s = "payments" THEN pay ELSE shop]

Fleet(stack, hosts, micro, mode, payments) ==
  [stack |-> stack, min |-> hosts, hosts |-> hosts, max |-> hosts, perHost |-> 1, micro |-> micro,
   shop |-> 1, payments |-> payments, mode |-> mode, domain |-> FALSE,
   minimum |-> Overrides(None, None), maximum |-> Overrides(None, None)]

Larger(hosts) == [Fleet("production", hosts, FALSE, "cloudfront", 1) EXCEPT !.shop = 0]

MCFleets ==
  {Fleet("stage", 1, TRUE, "cloudfront", 1), Larger(2),
   Fleet("production", 1, TRUE, None, 1), Fleet("production", 1, TRUE, "cloudfront", 2),
   Larger(1), [Larger(1) EXCEPT !.minimum = Overrides(0, None)],
   [Larger(1) EXCEPT !.maximum = Overrides(90, None)]}
=============================================================================
