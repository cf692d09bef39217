---------------------------- MODULE MCProxyRules ----------------------------
(* ProxyRules on small instances.                                          *)
EXTENDS ProxyRules, TLC

CONSTANTS p1, p2, h1, h2

Rule(kind, port, domain, tls, on) ==
  [kind |-> kind, port |-> port, domain |-> domain, tls |-> tls, on |-> on]

\* Rules that move between two ports, get in each other's way by domain and
\* by TLS, and are switched off.
SomeContents ==
  {Rule("http", p1, "a", FALSE, TRUE), Rule("http", p1, "a", TRUE, TRUE),
   Rule("http", p2, "a", FALSE, TRUE), Rule("llm", p1, "b", FALSE, TRUE),
   Rule("http", p1, "a", TRUE, FALSE)}

HandlerSymmetry == Permutations(Handlers)
=============================================================================
