------------------------------ MODULE Settings ------------------------------
(***************************************************************************)
(* The configuration file as it is written, and what Config::validate of   *)
(* torana-core/src/config.rs accepts of it.  Texts are classes: an address *)
(* that does not parse, a name the compiler's features leave out.          *)
(***************************************************************************)
EXTENDS Integers, Sequences

CONSTANTS
    Absent,     \* an optional field that is not set
    Features,   \* cargo features of the build, of "acme" and "plugins"
    MaxUpstreamWeight,
    U64Mod      \* 2^64

File == {"good", "empty", "unreadable"}     \* what a PEM path leads to
Optional(S) == S \cup {Absent}

AcmeConfig == [domains : Nat, directory_url : Optional({"url", "bad"}), ca_cert : Optional(File)]

ListenerConfig == [addr          : STRING,     \* "bad" does not parse
                   protocol      : STRING,
                   tls_cert      : Optional(File),
                   tls_key       : Optional(File),
                   tls_client_ca : Optional(File),
                   acme          : Optional(AcmeConfig)]

ValidAcme(l) ==
    /\ l.tls_cert = Absent /\ l.tls_key = Absent /\ l.tls_client_ca = Absent
    /\ l.acme.domains > 0 /\ l.acme.directory_url # "bad" /\ "acme" \in Features

\* Mutant: a certificate alone is enough for HTTPS.
ValidListenerKeyless(l) ==
    /\ l.addr # "bad"
    /\ \/ l.protocol = "http" /\ l.acme = Absent
       \/ l.protocol = "https" /\ IF l.acme = Absent THEN l.tls_cert # Absent ELSE ValidAcme(l)
    /\ l.tls_client_ca # Absent => l.protocol = "https"

\* Mutant: the client CA of a plaintext listener goes unnoticed.
ValidListenerPlainCa(l) ==
    /\ l.addr # "bad"
    /\ \/ l.protocol = "http" /\ l.acme = Absent
       \/ /\ l.protocol = "https"
          /\ IF l.acme = Absent THEN l.tls_cert # Absent /\ l.tls_key # Absent ELSE ValidAcme(l)

ValidListener(l) ==
    /\ l.addr # "bad"
    /\ \/ l.protocol = "http" /\ l.acme = Absent
       \/ /\ l.protocol = "https"
          /\ IF l.acme = Absent THEN l.tls_cert # Absent /\ l.tls_key # Absent ELSE ValidAcme(l)
    /\ l.tls_client_ca # Absent => l.protocol = "https"

\* load_tls_config: every file that is named must hold what is looked for.
TlsLoads(l) == l.tls_cert = "good" /\ l.tls_key = "good" /\ l.tls_client_ca \in {"good", Absent}

\* acme::build.
AcmeBuilds(a) == a.domains > 0 /\ a.ca_cert \in {"good", Absent}

-----------------------------------------------------------------------------
(* Routes. *)

\* A duration is digits and a unit, both of which may be missing; more digits
\* than a u64 holds do not parse.
Duration == [digits : Optional(Nat), unit : STRING]

ParsesDuration(d) == d.digits \in 0..(U64Mod - 1) /\ d.unit \in {"ms", "s", "m"}

\* In milliseconds.  The minutes' product wraps where overflow is not checked.
DurationOf(d) == CASE d.unit = "ms" -> d.digits
                   [] d.unit = "s"  -> d.digits * 1000
                   [] d.unit = "m"  -> ((d.digits * 60) % U64Mod) * 1000

\* An upstream's address.  A host may be one that no URI can hold.
Address == [scheme : STRING, host : STRING, port : Optional(Nat)]

\* upstream_host_port: only http:// is taken off, so that https:// leaves the
\* host "https" and a port that does not parse.
ParsesAddress(a) == a.scheme # "https" /\ a.host # "" /\ (a.port # Absent => a.port < 65536)

\* Keys as they are written: two spellings may be one header.
OverrideKey == [name : STRING, spelling : STRING]
ValidOverrides(o) == \A k \in DOMAIN o : k.name # "bad name" /\ o[k] # "bad value"

\* Mutant: the response's overrides are not looked at.
ValidHeadersRequestOnly(r) == ValidOverrides(r.request)
ValidHeaders(r) == ValidOverrides(r.request) /\ ValidOverrides(r.response)

ValidRoute(r) ==
    /\ r.upstream # << >> /\ r.path # "relative" /\ r.retries # 0
    /\ \A i \in DOMAIN r.upstream :
           /\ r.upstream[i].addr.scheme # "https" /\ ParsesAddress(r.upstream[i].addr)
           /\ r.upstream[i].weight # Absent => r.upstream[i].weight <= MaxUpstreamWeight
    /\ \A d \in {r.total, r.interval, r.timeout} : d # Absent => ParsesDuration(d)
    /\ r.plugin # Absent => "plugins" \in Features
    /\ r.mirror # Absent =>
           ParsesAddress(r.mirror.addr) /\ (r.mirror.rate # Absent => r.mirror.rate <= 100)
    /\ ValidHeaders(r)

=============================================================================
