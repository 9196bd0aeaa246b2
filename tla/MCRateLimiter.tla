---------------------------- MODULE MCRateLimiter ---------------------------
(***************************************************************************)
(* Two hosts of one IPv6 prefix and an IPv4 host, of which two write       *)
(* header entries of their own before the proxy adds its, and a monitor on *)
(* another route that does not come by way of the proxy.                   *)
(***************************************************************************)
EXTENDS RateLimiter, TLC

Addr(family, prefix, host) == [family |-> family, prefix |-> prefix, host |-> host]
MCProxy == Addr("v4", "lo", 1)
Six(h) == Addr("v6", "p", h)
Four == Addr("v4", "q", 9)
Monitor == Addr("v4", "m", 5)

MCAddresses == {Six(1), Six(2), Four, Monitor}
Via(route, real, claimed) == [route |-> route, real |-> real, claimed |-> claimed, proxied |-> TRUE]

MCRequests ==
    {Via("challenge", Six(1), <<>>), Via("challenge", Six(2), <<None>>),
     Via("challenge", Four, <<Six(1)>>),
     [Via("assertion", Monitor, <<>>) EXCEPT !.proxied = FALSE]}

MCLimit == [r \in {"challenge", "assertion"} |-> IF r = "challenge" THEN 1 ELSE 2]
ThreadSymmetry == Permutations(Threads)
=============================================================================
