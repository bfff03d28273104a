------------------------------ MODULE MCServer ------------------------------
(***************************************************************************)
(* A small instance of Server.                                             *)
(***************************************************************************)
EXTENDS Server

CONSTANTS absent, c1, c2, c3

Plain == [addr |-> "a", protocol |-> "http", tls_cert |-> absent, tls_key |-> absent,
          tls_client_ca |-> absent, acme |-> absent]
Https == [Plain EXCEPT !.addr = "b", !.protocol = "https", !.tls_cert = "good", !.tls_key = "good"]
Mutual == [Https EXCEPT !.tls_client_ca = "good"]
Keyless == [Https EXCEPT !.tls_key = absent]
Expired == [Https EXCEPT !.tls_cert = "empty"]
PlainCa == [Plain EXCEPT !.tls_client_ca = "good"]
Managed == [Plain EXCEPT !.addr = "b", !.protocol = "https",
            !.acme = [domains |-> 1, directory_url |-> absent, ca_cert |-> absent]]
Untrusted == [Managed EXCEPT !.acme.ca_cert = "unreadable"]
ManagedCa == [Managed EXCEPT !.tls_client_ca = "good"]
Misspelt == [Plain EXCEPT !.addr = "bad"]
Gopher == [Plain EXCEPT !.protocol = "gopher"]

\* Lists that serve; that fail at the second listener, with the first open;
\* that validation refuses, each for a reason of its own.
Lists == {<<Plain>>, <<Plain, Mutual>>, <<Managed>>,
          <<Plain, Plain>>, <<Plain, Expired>>, <<Plain, Untrusted>>,
          << >>, <<Keyless>>, <<Misspelt>>, <<PlainCa>>, <<ManagedCa>>, <<Gopher>>}

=============================================================================
