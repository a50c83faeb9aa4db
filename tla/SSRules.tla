------------------------------- MODULE SSRules -------------------------------
(***************************************************************************)
(* backend/deploy/singbox_config.py: which "save" payloads are accepted,   *)
(* how they are completed with defaults (_load_ss), what sing-box          *)
(* configuration is made of them, and what sing-box makes of that.         *)
(*                                                                         *)
(* A payload is a function from the keys it has.  Strings that are only    *)
(* passed on are left out or stand for being empty or not, a flag is what  *)
(* Python takes it for; an address is its bits; a DNS address is its       *)
(* scheme and what its host is, "none" when it cannot be parsed.           *)
(***************************************************************************)
EXTENDS Integers, Sequences, SequencesExt

CONSTANTS
  Payload,  \* payloads a client may send
  Bits,     \* how many bits an address of a family has
  Source    \* addresses connections come from

VARIABLE ss \* the row's ss_config, a payload that put_ss has accepted

SupportedMethods   == {"2022-blake3-aes-128-gcm", "aes-128-gcm"}
SupportedProtocols == {"shadowsocks", "socks"}
SupportedSniffers  == {"tls", "http"}
DnsStrategies      == {"ipv4_only", "prefer_ipv6"}
Ports              == 1..65535
LogLevels          == {"warn", "debug"}
Resolved           == {"https", "tls", "quic"}  \* schemes whose host gets a resolver

DefaultConfig ==
  [enabled |-> FALSE, protocol |-> "shadowsocks", listen_port |-> 8388,
   password |-> "", method |-> "2022-blake3-aes-128-gcm", udp_enabled |-> TRUE,
   socks_auth_enabled |-> TRUE, socks_username |-> "", socks_password |-> "",
   ip_allowlist |-> <<>>, sniff_enabled |-> FALSE, sniff_protocols |-> {"tls", "http"},
   log_enabled |-> FALSE, log_level |-> "warn",
   dns_primary |-> [scheme |-> "https", host |-> "ip"], dns_strategy |-> "ipv4_only"]

Get(cfg, key, default) == IF key \in DOMAIN cfg THEN cfg[key] ELSE default

\* _load_ss: what is stored, completed.
Load(payload) ==
  [key \in DOMAIN payload \cup DOMAIN DefaultConfig |->
     IF key \in DOMAIN payload THEN payload[key] ELSE DefaultConfig[key]]

-----------------------------------------------------------------------------
(* The allowlist: lines that are blank or comments, an address, a network, *)
(* or nothing that can be read.                                            *)

Family == {4, 6}
Address(family) == [1..Bits[family] -> {0, 1}]

Line ==
  UNION {[kind : {"blank", "comment", "unreadable", "address", "network"}, family : {f},
          addr : Address(f), len : 0..Bits[f]] : f \in Family}

\* The first bits of an address, the others cut off.
Masked(addr, len) == [i \in DOMAIN addr |-> IF i <= len THEN addr[i] ELSE 0]

Readable(line) == line.kind \in {"blank", "comment", "address", "network"}

\* An address is a network of full length; host bits are cut off.
Network(line) ==
  LET len == IF line.kind = "address" THEN Bits[line.family] ELSE line.len IN
  [family |-> line.family, len |-> len, addr |-> Masked(line.addr, len)]

\* _parse_ip_allowlist, for readable lines.
Allowlist(lines) ==
  {Network(line) : line \in {l \in ToSet(lines) : l.kind \in {"address", "network"}}}

Covers(net, source) ==
  net.family = source.family /\ Masked(source.addr, net.len) = net.addr

-----------------------------------------------------------------------------
(* validate_ss_config.                                                     *)

\* Mutated form: an empty list of sniffers passes.
ValidSniff_Empty(cfg) ==
  Get(cfg, "sniff_enabled", FALSE) => Get(cfg, "sniff_protocols", {}) \subseteq SupportedSniffers

ValidSniff(cfg) ==
  Get(cfg, "sniff_enabled", FALSE) =>
    LET sniffers == Get(cfg, "sniff_protocols", {}) IN
    sniffers # {} /\ sniffers \subseteq SupportedSniffers

ValidInbound(cfg) ==
  /\ Get(cfg, "listen_port", 0) \in Ports
  /\ \/ /\ Get(cfg, "protocol", "shadowsocks") = "shadowsocks"
        /\ Get(cfg, "method", "") \in SupportedMethods /\ Get(cfg, "password", "") # ""
     \/ /\ Get(cfg, "protocol", "shadowsocks") = "socks"
        /\ Get(cfg, "socks_auth_enabled", TRUE) =>
             Get(cfg, "socks_username", "") # "" /\ Get(cfg, "socks_password", "") # ""

\* dns_primary only has to be there; log_enabled counts as set when it is absent.
Valid(cfg) ==
  /\ ValidInbound(cfg)
  /\ Get(cfg, "dns_strategy", "ipv4_only") \in DnsStrategies
  /\ "dns_primary" \in DOMAIN cfg /\ cfg.dns_primary.scheme # "empty"
  /\ \A line \in ToSet(Get(cfg, "ip_allowlist", <<>>)) : Readable(line)
  /\ ValidSniff(cfg)
  /\ Get(cfg, "log_enabled", TRUE) => Get(cfg, "log_level", "warn") \in LogLevels

Flag == {"enabled", "udp_enabled", "socks_auth_enabled", "sniff_enabled", "log_enabled"}

ASSUME RulesAssumption ==
  /\ Bits \in [Family -> Nat]
  /\ Source \subseteq UNION {[family : {f}, addr : Address(f)] : f \in Family}
  /\ \A p \in Payload :
       /\ \A key \in Flag \cap DOMAIN p : p[key] \in BOOLEAN
       /\ Get(p, "ip_allowlist", <<>>) \in Seq(Line)

\* put_ss stores what is valid, as it was sent.
Accepted == {p \in Payload : Valid(p)}

-----------------------------------------------------------------------------
(* render_singbox_config.                                                  *)

Server(tag, type, host, resolver) ==
  [tag |-> tag, type |-> type, host |-> host, resolver |-> resolver]

\* A host without a scheme is a UDP server, white space is the default.
Primary(dns) ==
  CASE dns.scheme = "space" -> [scheme |-> "https", host |-> "ip"]
    [] dns.scheme = "plain" -> [scheme |-> "udp", host |-> dns.host]
    [] OTHER -> dns

\* _parse_dns_server raises.
Raises(cfg) == Primary(cfg.dns_primary).host = "none"

\* A resolver for the resolver's own name comes first in the list.
Servers(cfg) ==
  LET dns == Primary(cfg.dns_primary) IN
  IF dns.scheme \in Resolved /\ dns.host = "domain"
  THEN <<Server("dns-bootstrap", "udp", "ip", "none"),
         Server("doh-primary", dns.scheme, dns.host, "dns-bootstrap")>>
  ELSE <<Server("doh-primary", dns.scheme, dns.host, "none")>>

\* Mutated form: the first server, as sing-box itself would choose.
Default_First(servers) == servers[1].tag

\* The first server that is not the bootstrap.
Default(servers) ==
  servers[SelectInSeq(servers, LAMBDA s : s.tag # "dns-bootstrap")].tag

InboundTag(cfg) == IF cfg.protocol = "shadowsocks" THEN "ss-in" ELSE "socks-in"

Inbound(cfg) ==
  [tag |-> InboundTag(cfg), port |-> cfg.listen_port,
   network |-> IF cfg.protocol = "shadowsocks" /\ ~ cfg.udp_enabled THEN {"tcp"} ELSE {"tcp", "udp"},
   needs |-> IF cfg.protocol = "shadowsocks" THEN {cfg.method, cfg.password}
             ELSE IF cfg.socks_auth_enabled THEN {cfg.socks_username, cfg.socks_password}
             ELSE {}]

Rule(cfg, action, nets, sniffers) ==
  [inbound |-> InboundTag(cfg), action |-> action, nets |-> nets, sniffers |-> sniffers]

\* Mutated form: the reject comes before the networks.
Rules_RejectFirst(cfg) ==
  LET nets == Allowlist(cfg.ip_allowlist) IN
  (IF cfg.sniff_enabled THEN <<Rule(cfg, "sniff", {}, cfg.sniff_protocols)>> ELSE <<>>)
    \o (IF nets # {} THEN <<Rule(cfg, "reject", {}, {}), Rule(cfg, "route", nets, {})>> ELSE <<>>)

\* A rule without networks matches every source.
Rules(cfg) ==
  LET nets == Allowlist(cfg.ip_allowlist) IN
  (IF cfg.sniff_enabled THEN <<Rule(cfg, "sniff", {}, cfg.sniff_protocols)>> ELSE <<>>)
    \o (IF nets # {} THEN <<Rule(cfg, "route", nets, {}), Rule(cfg, "reject", {}, {})>> ELSE <<>>)

Render(cfg) ==
  [servers |-> Servers(cfg), final |-> Default(Servers(cfg)), resolver |-> Default(Servers(cfg)),
   strategy |-> cfg.dns_strategy,
   log |-> IF cfg.log_enabled THEN cfg.log_level ELSE "disabled",
   inbounds |-> IF cfg.enabled THEN <<Inbound(cfg)>> ELSE <<>>,
   rules |-> IF cfg.enabled THEN Rules(cfg) ELSE <<>>]

-----------------------------------------------------------------------------
(* What sing-box does with a configuration.                                *)

\* It starts when all that is named is there, and each name of a DNS server
\* can be resolved without that server.
Starts(conf) ==
  /\ \A i \in DOMAIN conf.servers : LET s == conf.servers[i] IN
       \/ s.host = "ip"
       \/ \E j \in DOMAIN conf.servers : conf.servers[j].tag = s.resolver /\ conf.servers[j].host = "ip"
  /\ \A i, j \in DOMAIN conf.servers : i # j => conf.servers[i].tag # conf.servers[j].tag
  /\ {conf.final, conf.resolver} \subseteq {conf.servers[i].tag : i \in DOMAIN conf.servers}
  /\ conf.log \in LogLevels \cup {"disabled"}
  /\ \A i \in DOMAIN conf.inbounds : LET in == conf.inbounds[i] IN
       in.port \in Ports /\ "" \notin in.needs
  /\ \A i \in DOMAIN conf.rules : LET r == conf.rules[i] IN
       /\ r.inbound \in {conf.inbounds[j].tag : j \in DOMAIN conf.inbounds}
       /\ r.action = "sniff" => r.sniffers # {} /\ r.sniffers \subseteq SupportedSniffers

\* The first rule that matches and decides; a connection no rule decides goes out.
Admits(conf, source) ==
  LET Decides(r) == /\ r.action # "sniff"
                    /\ r.nets = {} \/ \E net \in r.nets : Covers(net, source)
      first == SelectInSeq(conf.rules, Decides)
  IN conf.inbounds # <<>> /\ (first = 0 \/ conf.rules[first].action = "route")

-----------------------------------------------------------------------------
(***************************************************************************)
(* What "save" accepts, "apply" does not refuse once the defaults are      *)
(* merged in, and sing-box starts with it: unless the DNS address cannot   *)
(* be parsed, which only rendering finds out, or is a name reached by      *)
(* plain TCP or UDP, which gets no resolver.                               *)
(***************************************************************************)
ValidConfigStarts ==
  LET cfg == Load(ss)
      dns == Primary(cfg.dns_primary)
  IN /\ Valid(cfg)
     /\ dns.host = "ip" \/ (dns.host = "domain" /\ dns.scheme \in Resolved)
          => Starts(Render(cfg))

(***************************************************************************)
(* The bootstrap server only resolves the name of the primary server: no   *)
(* query of the traffic goes to it, although it is the first in the list.  *)
(***************************************************************************)
QueriesUsePrimary ==
  ~ Raises(Load(ss)) =>
    LET conf == Render(Load(ss)) IN
    \A s \in ToSet(conf.servers) :
      s.tag \in {conf.final, conf.resolver} => s.type = Primary(Load(ss).dns_primary).scheme

(***************************************************************************)
(* An enabled inbound admits exactly the sources that a line of the        *)
(* allowlist names, every source when no line names any, and none when it  *)
(* is disabled, whether or not traffic is sniffed first.                   *)
(***************************************************************************)
Named(line, source) ==
  /\ line.kind \in {"address", "network"}
  /\ line.family = source.family
  /\ IF line.kind = "address" THEN line.addr = source.addr
     ELSE \A i \in 1..line.len : line.addr[i] = source.addr[i]

AllowlistIsExact ==
  ~ Raises(Load(ss)) =>
    LET lines == ToSet(Get(ss, "ip_allowlist", <<>>)) IN
    \A source \in Source :
      Admits(Render(Load(ss)), source) <=>
        /\ Get(ss, "enabled", FALSE)
        /\ \/ \A line \in lines : line.kind \in {"blank", "comment"}
           \/ \E line \in lines : Named(line, source)

=============================================================================
