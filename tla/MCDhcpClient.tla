---------------------------- MODULE MCDhcpClient ----------------------------
(* Small instances of DhcpClient for TLC.                                  *)
EXTENDS DhcpClient, TLC

CONSTANTS s1, s2, a1, a2

G(l, r, b) == [lease |-> l, t1 |-> r, t2 |-> b]

\* A lease whose timers the client estimates, one whose timers the server
\* states, and an ACK without a lease time.
MCGrants == {G(4, 0, 0), G(3, 2, 2), G(0, 0, 0)}

\* One lease of each length the estimate treats differently.
MCShortGrants == {G(1, 0, 0), G(3, 0, 0)}

\* One good lease.
MCOneGrant == {G(4, 0, 0)}

\* A lease whose T2 is longer than any retry timeout.
MCLongGrant == {G(9, 0, 0)}

Symmetry == Permutations({s1, s2}) \cup Permutations({a1, a2})
=============================================================================
