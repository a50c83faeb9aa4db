----------------------------- MODULE MCSSRules -----------------------------
(* A small instance of SSApply whose configurations are made by SSRules.   *)
EXTENDS SSApply, SSRules, TLC

CONSTANTS a1

OneApply == {a1}

FewBits == (4 :> 2) @@ (6 :> 3)

Sources == UNION {[family : {f}, addr : Address(f)] : f \in Family}

ALine(kind, family, addr, len) == [kind |-> kind, family |-> family, addr |-> addr, len |-> len]

Lines ==
  {ALine("blank", 4, <<0, 0>>, 0), ALine("comment", 4, <<0, 1>>, 2),
   ALine("unreadable", 4, <<0, 0>>, 0),
   ALine("address", 4, <<0, 1>>, 0), ALine("address", 6, <<1, 1, 0>>, 0),
   ALine("network", 4, <<1, 1>>, 1), ALine("network", 4, <<0, 0>>, 0),
   ALine("network", 6, <<1, 0, 1>>, 2)}

Values ==
  [enabled |-> BOOLEAN, protocol |-> {"shadowsocks", "socks", "vmess"},
   listen_port |-> {0, 1, 65535, 65536}, password |-> {"", "pw"},
   method |-> {"aes-128-gcm", "rc4"}, udp_enabled |-> BOOLEAN,
   socks_auth_enabled |-> BOOLEAN, socks_username |-> {"", "user"}, socks_password |-> {"", "pw"},
   ip_allowlist |-> {<<>>} \cup {<<a>> : a \in Lines} \cup {<<a, b>> : a, b \in Lines},
   sniff_enabled |-> BOOLEAN, sniff_protocols |-> {{}, {"tls"}, {"smtp"}},
   log_enabled |-> BOOLEAN, log_level |-> {"debug", "loud"},
   dns_primary |-> [scheme : {"https", "tls", "quic", "tcp", "udp", "plain"},
                    host : {"ip", "domain", "none"}]
                   \cup [scheme : {"empty", "space"}, host : {"none"}],
   dns_strategy |-> {"prefer_ipv6", "any"}]

\* A payload with one key changed or left out.
Varied(p) ==
  UNION {{(key :> value) @@ p : value \in Values[key]} : key \in DOMAIN Values}
    \cup {Restrict(p, DOMAIN p \ {key}) : key \in DOMAIN p}

Complete(protocol) ==
  [DefaultConfig EXCEPT !.enabled = TRUE, !.protocol = protocol, !.password = "pw",
                        !.socks_username = "user", !.socks_password = "pw"]

\* All that differ in one or two keys from a complete payload.
Payloads == UNION {UNION {Varied(q) : q \in Varied(Complete(protocol))} :
                     protocol \in SupportedProtocols}

WithUdpDns(host) == [Complete("shadowsocks") EXCEPT !.dns_primary = [scheme |-> "udp", host |-> host]]

\* One that sing-box starts with, and one that it refuses.
Configs     == {Render(Load(WithUdpDns(host))) : host \in {"ip", "domain"}}
GoodConfigs == {c \in Configs : Starts(c)}
FirstConfig == Render(Load(WithUdpDns("ip")))

\* Every payload that can be stored is looked at in a state of its own; the apply
\* runs from one of them, with the two configurations above.
Applied == WithUdpDns("ip")

RulesInit ==
  /\ Init
  /\ ss \in Accepted
  /\ ss = Applied \/ (stored = First /\ status = "never")

RulesNext == ss = Applied /\ Next /\ UNCHANGED ss

RulesSpec == RulesInit /\ [][RulesNext]_<<vars, ss>> /\ Fairness
=============================================================================
