---------------------------- MODULE SSRulesProofs ----------------------------
(***************************************************************************)
(* What is proved of SSRules for every accepted payload, every allowlist   *)
(* and addresses of any width.                                             *)
(***************************************************************************)
EXTENDS SSRules, TLAPS

-----------------------------------------------------------------------------
(* Keys and their defaults.                                                *)

Keys == {"enabled", "protocol", "listen_port", "password", "method", "udp_enabled",
         "socks_auth_enabled", "socks_username", "socks_password", "ip_allowlist",
         "sniff_enabled", "sniff_protocols", "log_enabled", "log_level", "dns_primary",
         "dns_strategy"}

LEMMA Defaults ==
  /\ DOMAIN DefaultConfig = Keys
  /\ DefaultConfig["enabled"] = FALSE /\ DefaultConfig["protocol"] = "shadowsocks"
  /\ DefaultConfig["udp_enabled"] = TRUE /\ DefaultConfig["socks_auth_enabled"] = TRUE
  /\ DefaultConfig["ip_allowlist"] = <<>> /\ DefaultConfig["sniff_enabled"] = FALSE
  /\ DefaultConfig["log_enabled"] = FALSE /\ DefaultConfig["log_level"] = "warn"
  /\ DefaultConfig["dns_strategy"] = "ipv4_only"
BY DEF DefaultConfig, Keys

\* A loaded payload has every key: its own value, or else the default.
LEMMA Loaded ==
  ASSUME NEW p
  PROVE  /\ Keys \subseteq DOMAIN Load(p)
         /\ \A key \in Keys : Load(p)[key] = IF key \in DOMAIN p THEN p[key] ELSE DefaultConfig[key]
BY Defaults DEF Load

LEMMA GetLoaded ==
  ASSUME NEW p, NEW key \in Keys, NEW d
  PROVE  Get(Load(p), key, d) = IF key \in DOMAIN p THEN p[key] ELSE DefaultConfig[key]
BY Loaded DEF Get

\* A key whose default is the one the code asks with.
LEMMA SameDefault ==
  ASSUME NEW p, NEW key \in Keys, NEW d, d = DefaultConfig[key]
  PROVE  Get(Load(p), key, d) = Get(p, key, d) /\ Load(p)[key] = Get(p, key, d)
BY GetLoaded, Loaded DEF Get

\* A key that is there, because the code would not have accepted its absence.
LEMMA SameValue ==
  ASSUME NEW p, NEW key \in Keys, NEW d, Get(p, key, d) # d
  PROVE  Get(Load(p), key, d) = Get(p, key, d) /\ Load(p)[key] = Get(p, key, d)
BY GetLoaded, Loaded DEF Get

\* What an accepted payload is like, and that it is still accepted when its
\* missing keys have been filled in.
LEMMA LoadedIsValid ==
  ASSUME NEW p, Valid(p)
  PROVE  Valid(Load(p))
<1> DEFINE L == Load(p)
<1>0. /\ "enabled" \in Keys /\ "protocol" \in Keys /\ "listen_port" \in Keys /\ "password" \in Keys
      /\ "method" \in Keys /\ "socks_auth_enabled" \in Keys /\ "socks_username" \in Keys
      /\ "socks_password" \in Keys /\ "ip_allowlist" \in Keys /\ "sniff_enabled" \in Keys
      /\ "sniff_protocols" \in Keys /\ "log_enabled" \in Keys /\ "log_level" \in Keys
      /\ "dns_primary" \in Keys /\ "dns_strategy" \in Keys
  BY DEF Keys
<1>1. /\ Get(L, "protocol", "shadowsocks") = Get(p, "protocol", "shadowsocks")
      /\ Get(L, "socks_auth_enabled", TRUE) = Get(p, "socks_auth_enabled", TRUE)
      /\ Get(L, "ip_allowlist", <<>>) = Get(p, "ip_allowlist", <<>>)
      /\ Get(L, "sniff_enabled", FALSE) = Get(p, "sniff_enabled", FALSE)
      /\ Get(L, "log_level", "warn") = Get(p, "log_level", "warn")
      /\ Get(L, "dns_strategy", "ipv4_only") = Get(p, "dns_strategy", "ipv4_only")
  <2>1. Get(L, "protocol", "shadowsocks") = Get(p, "protocol", "shadowsocks")
    <3>1. "protocol" \in Keys /\ "shadowsocks" = DefaultConfig["protocol"]
      BY <1>0, Defaults
    <3> QED BY <3>1, SameDefault
  <2>2. Get(L, "socks_auth_enabled", TRUE) = Get(p, "socks_auth_enabled", TRUE)
    <3>1. "socks_auth_enabled" \in Keys /\ TRUE = DefaultConfig["socks_auth_enabled"]
      BY <1>0, Defaults
    <3> QED BY <3>1, SameDefault
  <2>3. Get(L, "ip_allowlist", <<>>) = Get(p, "ip_allowlist", <<>>)
    <3>1. "ip_allowlist" \in Keys /\ <<>> = DefaultConfig["ip_allowlist"]
      BY <1>0, Defaults
    <3> QED BY <3>1, SameDefault
  <2>4. Get(L, "sniff_enabled", FALSE) = Get(p, "sniff_enabled", FALSE)
    <3>1. "sniff_enabled" \in Keys /\ FALSE = DefaultConfig["sniff_enabled"]
      BY <1>0, Defaults
    <3> QED BY <3>1, SameDefault
  <2>5. Get(L, "log_level", "warn") = Get(p, "log_level", "warn")
    <3>1. "log_level" \in Keys /\ "warn" = DefaultConfig["log_level"]
      BY <1>0, Defaults
    <3> QED BY <3>1, SameDefault
  <2>6. Get(L, "dns_strategy", "ipv4_only") = Get(p, "dns_strategy", "ipv4_only")
    <3>1. "dns_strategy" \in Keys /\ "ipv4_only" = DefaultConfig["dns_strategy"]
      BY <1>0, Defaults
    <3> QED BY <3>1, SameDefault
  <2> QED BY <2>1, <2>2, <2>3, <2>4, <2>5, <2>6
<1>2. /\ Get(p, "method", "") \in SupportedMethods => Get(L, "method", "") = Get(p, "method", "")
      /\ Get(p, "password", "") # "" => Get(L, "password", "") = Get(p, "password", "")
      /\ Get(p, "socks_username", "") # "" => Get(L, "socks_username", "") = Get(p, "socks_username", "")
      /\ Get(p, "socks_password", "") # "" => Get(L, "socks_password", "") = Get(p, "socks_password", "")
      /\ Get(p, "sniff_protocols", {}) # {} => Get(L, "sniff_protocols", {}) = Get(p, "sniff_protocols", {})
  <2>1. "" \notin SupportedMethods
    BY DEF SupportedMethods
  <2>2. Get(p, "method", "") \in SupportedMethods => Get(L, "method", "") = Get(p, "method", "")
    BY <1>0, <2>1, SameValue
  <2>3. Get(p, "password", "") # "" => Get(L, "password", "") = Get(p, "password", "")
    BY <1>0, SameValue
  <2>4. Get(p, "socks_username", "") # "" => Get(L, "socks_username", "") = Get(p, "socks_username", "")
    BY <1>0, SameValue
  <2>5. Get(p, "socks_password", "") # "" => Get(L, "socks_password", "") = Get(p, "socks_password", "")
    BY <1>0, SameValue
  <2>6. Get(p, "sniff_protocols", {}) # {} => Get(L, "sniff_protocols", {}) = Get(p, "sniff_protocols", {})
    BY <1>0, SameValue
  <2> QED BY <2>2, <2>3, <2>4, <2>5, <2>6
<1>3. ValidInbound(p)
  BY DEF Valid
<1>4. Get(L, "listen_port", 0) = Get(p, "listen_port", 0)
  <2>1. 0 \notin Ports
    BY DEF Ports
  <2>2. Get(p, "listen_port", 0) # 0
    BY <1>3, <2>1, Zenon DEF ValidInbound
  <2> QED BY <1>0, <2>2, SameValue
<1>5. Get(L, "log_enabled", TRUE) => Get(p, "log_enabled", TRUE)
  <2>1. CASE "log_enabled" \in DOMAIN p
    <3>1. Get(L, "log_enabled", TRUE) = p["log_enabled"]
      BY <1>0, <2>1, GetLoaded
    <3>2. Get(p, "log_enabled", TRUE) = p["log_enabled"]
      BY <2>1 DEF Get
    <3> QED BY <3>1, <3>2
  <2>2. CASE "log_enabled" \notin DOMAIN p
    <3>1. Get(p, "log_enabled", TRUE)
      BY <2>2 DEF Get
    <3> QED BY <3>1
  <2> QED BY <2>1, <2>2
<1>6. "dns_primary" \in DOMAIN L /\ L.dns_primary = p.dns_primary
  BY <1>0, Loaded DEF Valid
<1> HIDE DEF L
<1>7. ValidInbound(L)
  BY <1>1, <1>2, <1>3, <1>4, Zenon DEF ValidInbound
<1>8. ValidSniff(L)
  BY <1>1, <1>2 DEF Valid, ValidSniff
<1>9. Get(L, "dns_strategy", "ipv4_only") \in DnsStrategies
  BY <1>1 DEF Valid
<1>10. "dns_primary" \in DOMAIN L /\ L.dns_primary.scheme # "empty"
  BY <1>6 DEF Valid
<1>11. \A line \in ToSet(Get(L, "ip_allowlist", <<>>)) : Readable(line)
  BY <1>1 DEF Valid
<1>12. Get(L, "log_enabled", TRUE) => Get(L, "log_level", "warn") \in LogLevels
  BY <1>1, <1>5 DEF Valid
<1> QED BY <1>7, <1>8, <1>9, <1>10, <1>11, <1>12 DEF Valid, L

-----------------------------------------------------------------------------
(* The DNS servers.                                                        *)

Bootstrap  == Server("dns-bootstrap", "udp", "ip", "none")

\* The list of servers, and the one that is the default.
LEMMA TheServers ==
  ASSUME NEW cfg
  PROVE  LET dns == Primary(cfg.dns_primary) IN
         \/ /\ dns.scheme \in Resolved /\ dns.host = "domain"
            /\ Servers(cfg) = <<Bootstrap, Server("doh-primary", dns.scheme, dns.host, "dns-bootstrap")>>
         \/ /\ ~ (dns.scheme \in Resolved /\ dns.host = "domain")
            /\ Servers(cfg) = <<Server("doh-primary", dns.scheme, dns.host, "none")>>
BY DEF Servers, Bootstrap

LEMMA TheDefault ==
  ASSUME NEW cfg
  PROVE  Default(Servers(cfg)) = "doh-primary"
<1> DEFINE dns == Primary(cfg.dns_primary)
           main(resolver) == Server("doh-primary", dns.scheme, dns.host, resolver)
           s == Servers(cfg)
           I == {i \in 1..Len(s) : s[i].tag # "dns-bootstrap"}
<1>1. Bootstrap.tag = "dns-bootstrap" /\ \A x : main(x).tag = "doh-primary"
  BY DEF Bootstrap, Server
<1>2. CASE dns.scheme \in Resolved /\ dns.host = "domain"
  <2>1. s = <<Bootstrap, main("dns-bootstrap")>>
    BY <1>2, TheServers
  <2>2. Len(s) = 2 /\ s[1] = Bootstrap /\ s[2] = main("dns-bootstrap")
    BY <2>1
  <2> HIDE DEF s, main
  <2>3. I = {2}
    BY <1>1, <2>2
  <2>4. Min(I) = 2
    BY <2>3 DEF Min
  <2>5. SelectInSeq(s, LAMBDA x : x.tag # "dns-bootstrap") = 2
    BY <2>3, <2>4 DEF SelectInSeq
  <2> QED BY <1>1, <2>2, <2>5 DEF Default, s
<1>3. CASE ~ (dns.scheme \in Resolved /\ dns.host = "domain")
  <2>1. s = <<main("none")>>
    BY <1>3, TheServers
  <2>2. Len(s) = 1 /\ s[1] = main("none")
    BY <2>1
  <2> HIDE DEF s, main
  <2>3. I = {1}
    BY <1>1, <2>2
  <2>4. Min(I) = 1
    BY <2>3 DEF Min
  <2>5. SelectInSeq(s, LAMBDA x : x.tag # "dns-bootstrap") = 1
    BY <2>3, <2>4 DEF SelectInSeq
  <2> QED BY <1>1, <2>2, <2>5 DEF Default, s
<1> QED BY <1>2, <1>3

(***************************************************************************)
(* The default servers are the primary one, never the bootstrap server     *)
(* that comes first in the list when the primary one has to be resolved.   *)
(***************************************************************************)
THEOREM PrimaryIsQueried == ss \in Accepted => QueriesUsePrimary
<1> DEFINE L == Load(ss)
           dns == Primary(L.dns_primary)
           conf == Render(L)
<1>1. conf.servers = Servers(L) /\ conf.final = "doh-primary" /\ conf.resolver = "doh-primary"
  BY TheDefault DEF Render
<1>2. ASSUME NEW s \in ToSet(Servers(L)), s.tag = "doh-primary" PROVE s.type = dns.scheme
  <2>1. PICK i \in DOMAIN Servers(L) : s = Servers(L)[i]
    BY <1>2 DEF ToSet
  <2>2. Bootstrap.tag # "doh-primary" /\ \A h, x : Server("doh-primary", dns.scheme, h, x).type = dns.scheme
    BY DEF Bootstrap, Server
  <2> HIDE DEF L, dns
  <2>3. \/ Servers(L) = <<Bootstrap, Server("doh-primary", dns.scheme, dns.host, "dns-bootstrap")>>
        \/ Servers(L) = <<Server("doh-primary", dns.scheme, dns.host, "none")>>
    BY TheServers DEF dns
  <2> QED BY <1>2, <2>1, <2>2, <2>3
<1> HIDE DEF conf, L, dns
<1> QED BY <1>1, <1>2 DEF QueriesUsePrimary, conf, L, dns

-----------------------------------------------------------------------------
(* What sing-box starts with.                                              *)

\* The flags of a loaded payload.
LEMMA FlagsAreTyped ==
  ASSUME NEW p \in Payload
  PROVE  LET L == Load(p) IN
         /\ L.enabled \in BOOLEAN /\ L.udp_enabled \in BOOLEAN /\ L.socks_auth_enabled \in BOOLEAN
         /\ L.sniff_enabled \in BOOLEAN /\ L.log_enabled \in BOOLEAN
         /\ L.ip_allowlist \in Seq(Line) /\ L.ip_allowlist = Get(p, "ip_allowlist", <<>>)
<1>1. ASSUME NEW key \in {"enabled", "udp_enabled", "socks_auth_enabled", "sniff_enabled", "log_enabled"}
      PROVE  Load(p)[key] \in BOOLEAN
  <2>1. key \in Keys /\ DefaultConfig[key] \in BOOLEAN /\ key \in Flag
    BY Defaults DEF Keys, Flag
  <2>2. key \in DOMAIN p => p[key] \in BOOLEAN
    BY <2>1, RulesAssumption
  <2> QED BY <2>1, <2>2, Loaded
<1>2. "ip_allowlist" \in Keys
  BY DEF Keys
<1>3. Load(p).ip_allowlist = Get(p, "ip_allowlist", <<>>)
  BY <1>2, Defaults, SameDefault
<1>4. Get(p, "ip_allowlist", <<>>) \in Seq(Line)
  BY RulesAssumption
<1> QED BY <1>1, <1>3, <1>4

LEMMA OneAndTwo ==
  ASSUME NEW a, NEW b, NEW c
  PROVE  <<a>> \o <<b, c>> = <<a, b, c>>
<1> DEFINE s == <<a>> \o <<b, c>>
           t == <<a, b, c>>
           X == {a, b, c}
<1>1. s \in Seq(X) /\ t \in Seq(X)
  OBVIOUS
<1>2. Len(s) = 3 /\ Len(t) = 3
  OBVIOUS
<1>3. s[1] = a
  OBVIOUS
<1>4. s[2] = b
  OBVIOUS
<1>5. s[3] = c
  OBVIOUS
<1>6. t[1] = a /\ t[2] = b /\ t[3] = c
  OBVIOUS
<1> HIDE DEF s, t, X
<1>7. \A i \in 1..3 : s[i] = t[i]
  BY <1>3, <1>4, <1>5, <1>6
<1>8. s = [i \in 1..3 |-> s[i]]
  BY <1>1, <1>2
<1>9. t = [i \in 1..3 |-> t[i]]
  BY <1>1, <1>2
<1>10. s = t
  BY <1>7, <1>8, <1>9
<1> QED BY <1>10 DEF s, t

\* The rules there can be.
LEMMA TheRules ==
  ASSUME NEW cfg
  PROVE  LET nets == Allowlist(cfg.ip_allowlist)
             sniff == Rule(cfg, "sniff", {}, cfg.sniff_protocols)
             pass == Rule(cfg, "route", nets, {})
             reject == Rule(cfg, "reject", {}, {})
         IN Rules(cfg) = IF cfg.sniff_enabled
                         THEN IF nets # {} THEN <<sniff, pass, reject>> ELSE <<sniff>>
                         ELSE IF nets # {} THEN <<pass, reject>> ELSE <<>>
<1> DEFINE nets == Allowlist(cfg.ip_allowlist)
           sniff == Rule(cfg, "sniff", {}, cfg.sniff_protocols)
           pass == Rule(cfg, "route", nets, {})
           reject == Rule(cfg, "reject", {}, {})
<1>1. Rules(cfg) = (IF cfg.sniff_enabled THEN <<sniff>> ELSE <<>>)
                     \o (IF nets # {} THEN <<pass, reject>> ELSE <<>>)
  BY DEF Rules
<1> HIDE DEF nets, sniff, pass, reject
<1>20. <<sniff>> \o <<pass, reject>> = <<sniff, pass, reject>>
  BY OneAndTwo
<1>21. <<sniff>> \o <<>> = <<sniff>>
  OBVIOUS
<1>22. <<>> \o <<pass, reject>> = <<pass, reject>>
  OBVIOUS
<1>23. <<>> \o <<>> = <<>>
  OBVIOUS
<1>3. Rules(cfg) = IF cfg.sniff_enabled
                   THEN IF nets # {} THEN <<sniff, pass, reject>> ELSE <<sniff>>
                   ELSE IF nets # {} THEN <<pass, reject>> ELSE <<>>
  BY <1>1, <1>20, <1>21, <1>22, <1>23
<1> QED BY <1>3 DEF nets, sniff, pass, reject

\* The inbound of an accepted configuration.
LEMMA InboundStarts ==
  ASSUME NEW L, ValidInbound(L), Keys \subseteq DOMAIN L, L.socks_auth_enabled \in BOOLEAN
  PROVE  Inbound(L).port \in Ports /\ "" \notin Inbound(L).needs
<1>1. /\ "protocol" \in Keys /\ "listen_port" \in Keys /\ "password" \in Keys /\ "method" \in Keys
      /\ "socks_auth_enabled" \in Keys /\ "socks_username" \in Keys /\ "socks_password" \in Keys
  BY DEF Keys
<1>2. \A key \in Keys : \A d : Get(L, key, d) = L[key]
  BY DEF Get
<1>3. L.listen_port \in Ports
  BY <1>1, <1>2, Zenon DEF ValidInbound
<1>4. \/ L.protocol = "shadowsocks" /\ L.method \in SupportedMethods /\ L.password # ""
      \/ /\ L.protocol = "socks"
         /\ L.socks_auth_enabled => L.socks_username # "" /\ L.socks_password # ""
  BY <1>1, <1>2, Zenon DEF ValidInbound
<1>5. "" \notin SupportedMethods
  BY DEF SupportedMethods
<1>6. Inbound(L).port = L.listen_port
  BY DEF Inbound
<1>7. Inbound(L).needs = IF L.protocol = "shadowsocks" THEN {L.method, L.password}
                         ELSE IF L.socks_auth_enabled THEN {L.socks_username, L.socks_password}
                         ELSE {}
  BY DEF Inbound
<1>8. "" \notin Inbound(L).needs
  BY <1>4, <1>5, <1>7
<1> QED BY <1>3, <1>6, <1>8

(***************************************************************************)
(* "apply" does not refuse what "save" has accepted, and sing-box starts   *)
(* with what is made of it, unless the DNS address cannot be parsed or is  *)
(* a name reached by plain TCP or UDP.                                     *)
(***************************************************************************)
THEOREM ConfigsStart == ss \in Accepted => ValidConfigStarts
<1> DEFINE L == Load(ss)
           dns == Primary(L.dns_primary)
           conf == Render(L)
<1> SUFFICES ASSUME ss \in Accepted
             PROVE  /\ Valid(L)
                    /\ dns.host = "ip" \/ (dns.host = "domain" /\ dns.scheme \in Resolved) => Starts(conf)
  BY DEF ValidConfigStarts
<1>1. Valid(L)
  BY LoadedIsValid DEF Accepted
<1>2. ss \in Payload
  BY DEF Accepted
<1>3. /\ L.enabled \in BOOLEAN /\ L.socks_auth_enabled \in BOOLEAN
      /\ L.sniff_enabled \in BOOLEAN /\ L.log_enabled \in BOOLEAN
  BY <1>2, FlagsAreTyped
<1>4. Keys \subseteq DOMAIN L
  BY Loaded
<1>5. "log_enabled" \in Keys /\ "log_level" \in Keys /\ "sniff_enabled" \in Keys /\ "sniff_protocols" \in Keys
  BY DEF Keys
<1> HIDE DEF L
<1>6. \A key \in Keys : \A d : Get(L, key, d) = L[key]
  BY <1>4 DEF Get
<1>7. ASSUME dns.host = "ip" \/ (dns.host = "domain" /\ dns.scheme \in Resolved)
      PROVE  Starts(conf)
  <2> DEFINE one == Server("doh-primary", dns.scheme, dns.host, "none")
             two == Server("doh-primary", dns.scheme, dns.host, "dns-bootstrap")
             S == conf.servers
             tag == InboundTag(L)
  <2>1. /\ S = Servers(L) /\ conf.final = "doh-primary" /\ conf.resolver = "doh-primary"
        /\ conf.log = IF L.log_enabled THEN L.log_level ELSE "disabled"
        /\ conf.inbounds = IF L.enabled THEN <<Inbound(L)>> ELSE <<>>
        /\ conf.rules = IF L.enabled THEN Rules(L) ELSE <<>>
    BY TheDefault DEF Render
  <2>2. /\ Bootstrap.tag = "dns-bootstrap" /\ Bootstrap.host = "ip"
        /\ one.tag = "doh-primary" /\ one.host = dns.host
        /\ two.tag = "doh-primary" /\ two.resolver = "dns-bootstrap"
    BY DEF Bootstrap, Server
  <2>3. S = <<Bootstrap, two>> \/ (dns.host = "ip" /\ S = <<one>>)
    BY <1>7, <2>1, TheServers
  <2> HIDE DEF conf, dns, one, two, S
  <2>4. \A i \in DOMAIN S : \/ S[i].host = "ip"
                            \/ \E j \in DOMAIN S : S[j].tag = S[i].resolver /\ S[j].host = "ip"
    BY <2>2, <2>3
  <2>5. \A i, j \in DOMAIN S : i # j => S[i].tag # S[j].tag
    BY <2>2, <2>3
  <2>6. \E i \in DOMAIN S : S[i].tag = "doh-primary"
    BY <2>2, <2>3
  <2>7. {conf.final, conf.resolver} \subseteq {S[i].tag : i \in DOMAIN S}
    BY <2>1, <2>6
  <2>8. conf.log \in LogLevels \cup {"disabled"}
    <3>1. L.log_enabled => L.log_level \in LogLevels
      BY <1>1, <1>5, <1>6, Zenon DEF Valid
    <3> QED BY <1>3, <2>1, <3>1
  <2>9. ASSUME NEW i \in DOMAIN conf.inbounds
        PROVE  conf.inbounds[i].port \in Ports /\ "" \notin conf.inbounds[i].needs
    <3>1. conf.inbounds[i] = Inbound(L)
      BY <1>3, <2>1, <2>9
    <3>2. Inbound(L).port \in Ports /\ "" \notin Inbound(L).needs
      BY <1>1, <1>3, <1>4, InboundStarts DEF Valid
    <3> QED BY <3>1, <3>2
  <2>10. ASSUME NEW i \in DOMAIN conf.rules
         PROVE  LET r == conf.rules[i] IN
                /\ r.inbound \in {conf.inbounds[j].tag : j \in DOMAIN conf.inbounds}
                /\ r.action = "sniff" => r.sniffers # {} /\ r.sniffers \subseteq SupportedSniffers
    <3> DEFINE r == conf.rules[i]
               nets == Allowlist(L.ip_allowlist)
               sniff == Rule(L, "sniff", {}, L.sniff_protocols)
               pass == Rule(L, "route", nets, {})
               reject == Rule(L, "reject", {}, {})
    <3>1. L.enabled /\ conf.rules = Rules(L)
      BY <1>3, <2>1, <2>10
    <3>2. \/ r = sniff /\ L.sniff_enabled
          \/ r = pass \/ r = reject
      <4>1. Rules(L) = IF L.sniff_enabled
                       THEN IF nets # {} THEN <<sniff, pass, reject>> ELSE <<sniff>>
                       ELSE IF nets # {} THEN <<pass, reject>> ELSE <<>>
        BY TheRules
      <4> HIDE DEF nets, sniff, pass, reject
      <4> QED BY <1>3, <2>10, <3>1, <4>1
    <3>3. /\ sniff.inbound = tag /\ pass.inbound = tag /\ reject.inbound = tag
          /\ sniff.action = "sniff" /\ sniff.sniffers = L.sniff_protocols
          /\ pass.action # "sniff" /\ reject.action # "sniff"
      BY DEF Rule
    <3>4. L.sniff_enabled => L.sniff_protocols # {} /\ L.sniff_protocols \subseteq SupportedSniffers
      BY <1>1, <1>5, <1>6, Zenon DEF Valid, ValidSniff
    <3>5. conf.inbounds = <<Inbound(L)>> /\ Inbound(L).tag = tag
      BY <2>1, <3>1 DEF Inbound
    <3> HIDE DEF r, sniff, pass, reject, tag
    <3>6. r.inbound = tag /\ (r.action = "sniff" => r.sniffers # {} /\ r.sniffers \subseteq SupportedSniffers)
      BY <3>2, <3>3, <3>4
    <3>7. tag \in {conf.inbounds[j].tag : j \in DOMAIN conf.inbounds}
      BY <3>5
    <3> QED BY <3>6, <3>7 DEF r
  <2> QED BY <2>4, <2>5, <2>7, <2>8, <2>9, <2>10 DEF Starts, S
<1> QED BY <1>1, <1>7

-----------------------------------------------------------------------------
(* Who is admitted.                                                        *)

LEMMA SamePrefix ==
  ASSUME NEW n \in Nat, NEW a \in [1..n -> {0, 1}], NEW b \in [1..n -> {0, 1}], NEW len \in 0..n
  PROVE  Masked(a, len) = Masked(b, len) <=> \A i \in 1..len : a[i] = b[i]
<1>1. /\ DOMAIN a = 1..n /\ DOMAIN b = 1..n
      /\ \A i \in 1..len : i \in 1..n /\ i <= len
  OBVIOUS
<1>2. ASSUME Masked(a, len) = Masked(b, len), NEW i \in 1..len PROVE a[i] = b[i]
  <2>1. Masked(a, len)[i] = a[i] /\ Masked(b, len)[i] = b[i]
    BY <1>1 DEF Masked
  <2> QED BY <1>2, <2>1
<1>3. ASSUME \A i \in 1..len : a[i] = b[i] PROVE Masked(a, len) = Masked(b, len)
  <2>1. \A i \in 1..n : (IF i <= len THEN a[i] ELSE 0) = (IF i <= len THEN b[i] ELSE 0)
    BY <1>3
  <2> QED BY <1>1, <2>1 DEF Masked
<1> QED BY <1>2, <1>3

\* The network that is made of a line covers the addresses the line names.
LEMMA CoversIsNamed ==
  ASSUME NEW line \in Line, line.kind \in {"address", "network"}, NEW source \in Source
  PROVE  Covers(Network(line), source) <=> Named(line, source)
<1>1. PICK f \in Family : line \in [kind : {"blank", "comment", "unreadable", "address", "network"},
                                    family : {f}, addr : Address(f), len : 0..Bits[f]]
  BY DEF Line
<1>2. PICK g \in Family : source \in [family : {g}, addr : Address(g)]
  BY RulesAssumption
<1>3. line.family = f /\ source.family = g
  BY <1>1, <1>2
<1> DEFINE len == IF line.kind = "address" THEN Bits[f] ELSE line.len
<1>4. Network(line).family = f /\ Network(line).len = len /\ Network(line).addr = Masked(line.addr, len)
  BY <1>3 DEF Network
<1>5. CASE f # g
  BY <1>3, <1>4, <1>5 DEF Covers, Named
<1>6. CASE f = g
  <2>1. Bits[f] \in Nat /\ len \in 0..Bits[f]
    BY <1>1, RulesAssumption
  <2>2. line.addr \in [1..Bits[f] -> {0, 1}] /\ source.addr \in [1..Bits[f] -> {0, 1}]
    BY <1>1, <1>2, <1>6 DEF Address
  <2>3. Covers(Network(line), source) <=> \A i \in 1..len : line.addr[i] = source.addr[i]
    <3>1. Covers(Network(line), source) <=> Masked(source.addr, len) = Masked(line.addr, len)
      BY <1>3, <1>4, <1>6 DEF Covers
    <3> HIDE DEF len
    <3>2. Masked(source.addr, len) = Masked(line.addr, len) <=> \A i \in 1..len : source.addr[i] = line.addr[i]
      BY <2>1, <2>2, SamePrefix
    <3> QED BY <3>1, <3>2
  <2>4. CASE line.kind = "address"
    <3>1. len = Bits[f]
      BY <2>4
    <3>2. line.addr = source.addr <=> \A i \in 1..len : line.addr[i] = source.addr[i]
      <4> DEFINE n == Bits[f]
                 a == line.addr
                 b == source.addr
      <4>1. a = [i \in 1..n |-> a[i]] /\ b = [i \in 1..n |-> b[i]] /\ len = n
        BY <2>2, <3>1
      <4> HIDE DEF a, b, n, len
      <4>2. a = b <=> \A i \in 1..len : a[i] = b[i]
        BY <4>1
      <4> QED BY <4>2 DEF a, b
    <3>3. Named(line, source) <=> line.addr = source.addr
      BY <1>3, <1>6, <2>4 DEF Named
    <3> QED BY <2>3, <3>2, <3>3
  <2>5. CASE line.kind # "address"
    <3>1. len = line.len
      BY <2>5
    <3>2. Named(line, source) <=> \A i \in 1..line.len : line.addr[i] = source.addr[i]
      BY <1>3, <1>6, <2>5 DEF Named
    <3> QED BY <2>3, <3>1, <3>2
  <2> QED BY <2>4, <2>5
<1> QED BY <1>5, <1>6

\* The least of a set of numbers.
LEMMA LeastOf ==
  ASSUME NEW I, NEW k \in I, \A i \in I : i \in Int /\ k <= i
  PROVE  Min(I) = k
<1>1. \E x \in I : \A y \in I : x =< y
  OBVIOUS
<1>2. Min(I) \in I /\ \A y \in I : Min(I) =< y
  BY <1>1, Zenon DEF Min
<1>3. Min(I) =< k /\ k <= Min(I)
  BY <1>2
<1> QED BY <1>2, <1>3

\* What a list of readable lines is made into.
LEMMA NetsAreNamed ==
  ASSUME NEW list \in Seq(Line), \A line \in ToSet(list) : Readable(line), NEW source \in Source
  PROVE  /\ Allowlist(list) = {} <=> \A line \in ToSet(list) : line.kind \in {"blank", "comment"}
         /\ (\E net \in Allowlist(list) : Covers(net, source))
              <=> \E line \in ToSet(list) : Named(line, source)
<1> DEFINE lines == ToSet(list)
<1>1. lines \subseteq Line
  BY DEF ToSet
<1>2. Allowlist(list) = {Network(line) : line \in {l \in lines : l.kind \in {"address", "network"}}}
  BY DEF Allowlist
<1>3. \A line \in lines : line.kind \in {"address", "network"} \/ line.kind \in {"blank", "comment"}
  BY DEF Readable
<1> HIDE DEF lines
<1>4. Allowlist(list) = {} <=> \A line \in lines : line.kind \in {"blank", "comment"}
  BY <1>2, <1>3
<1>5. (\E net \in Allowlist(list) : Covers(net, source))
        <=> \E line \in lines : line.kind \in {"address", "network"} /\ Covers(Network(line), source)
  BY <1>2
<1>6. \A line \in lines : line.kind \in {"address", "network"} /\ Covers(Network(line), source)
                           <=> Named(line, source)
  <2> SUFFICES ASSUME NEW line \in lines
               PROVE  line.kind \in {"address", "network"} /\ Covers(Network(line), source)
                        <=> Named(line, source)
    OBVIOUS
  <2>1. Named(line, source) => line.kind \in {"address", "network"}
    BY DEF Named
  <2>2. line.kind \in {"address", "network"} => (Covers(Network(line), source) <=> Named(line, source))
    BY <1>1, CoversIsNamed
  <2> QED BY <2>1, <2>2
<1> QED BY <1>4, <1>5, <1>6 DEF lines

\* The rules let a source pass when there are no networks or one covers it.
LEMMA RulesDecide ==
  ASSUME NEW conf, NEW cfg, NEW source, cfg.sniff_enabled \in BOOLEAN, conf.rules = Rules(cfg)
  PROVE  Admits(conf, source)
           <=> /\ conf.inbounds # <<>>
               /\ \/ Allowlist(cfg.ip_allowlist) = {}
                  \/ \E net \in Allowlist(cfg.ip_allowlist) : Covers(net, source)
<1> DEFINE nets == Allowlist(cfg.ip_allowlist)
           sniff == Rule(cfg, "sniff", {}, cfg.sniff_protocols)
           pass == Rule(cfg, "route", nets, {})
           reject == Rule(cfg, "reject", {}, {})
           rules == conf.rules
           Decides(r) == r.action # "sniff" /\ (r.nets = {} \/ \E net \in r.nets : Covers(net, source))
           I == {i \in 1..Len(rules) : Decides(rules[i])}
           covered == \E net \in nets : Covers(net, source)
<1>1. Admits(conf, source) <=>
        /\ conf.inbounds # <<>>
        /\ \/ (IF I # {} THEN Min(I) ELSE 0) = 0
           \/ rules[IF I # {} THEN Min(I) ELSE 0].action = "route"
  BY DEF Admits, SelectInSeq
<1>2. rules = IF cfg.sniff_enabled
              THEN IF nets # {} THEN <<sniff, pass, reject>> ELSE <<sniff>>
              ELSE IF nets # {} THEN <<pass, reject>> ELSE <<>>
  BY TheRules
<1>3. /\ sniff.action = "sniff"
      /\ pass.action = "route" /\ pass.nets = nets
      /\ reject.action = "reject" /\ reject.nets = {}
  BY DEF Rule
<1>4. ~ Decides(sniff) /\ Decides(reject) /\ (nets # {} => (Decides(pass) <=> covered))
  BY <1>3
<1> HIDE DEF nets, sniff, pass, reject, rules, covered, Decides
<1> DEFINE lead == IF cfg.sniff_enabled THEN 1 ELSE 0
<1>5. CASE nets = {}
  <2>1. \A i \in 1..Len(rules) : rules[i] = sniff
    BY <1>2, <1>5
  <2>2. I = {}
    BY <1>4, <2>1
  <2> QED BY <1>1, <1>5, <2>2 DEF nets
<1>6. CASE nets # {}
  <2>1. /\ Len(rules) = lead + 2 /\ rules[lead + 1] = pass /\ rules[lead + 2] = reject
        /\ \A i \in 1..lead : rules[i] = sniff
    BY <1>2, <1>6
  <2>2. lead \in {0, 1}
    OBVIOUS
  <2> HIDE DEF lead
  <2>3. I = IF covered THEN {lead + 1, lead + 2} ELSE {lead + 2}
    <3>1. \A i \in 1..Len(rules) : i \in 1..lead \/ i = lead + 1 \/ i = lead + 2
      BY <2>1, <2>2
    <3>2. lead + 1 \in 1..Len(rules) /\ lead + 2 \in 1..Len(rules)
      BY <2>1, <2>2
    <3> QED BY <1>4, <1>6, <2>1, <3>1, <3>2
  <2> HIDE DEF I
  <2>4. CASE covered
    <3>1. Min(I) = lead + 1 /\ I # {}
      BY <2>2, <2>3, <2>4, LeastOf
    <3> QED BY <1>1, <1>3, <2>1, <2>4, <3>1 DEF covered, nets
  <2>5. CASE ~ covered
    <3>1. Min(I) = lead + 2 /\ I # {}
      BY <2>2, <2>3, <2>5, LeastOf
    <3> QED BY <1>1, <1>3, <1>6, <2>1, <2>2, <2>5, <3>1 DEF covered, nets
  <2> QED BY <2>4, <2>5
<1> QED BY <1>5, <1>6

(***************************************************************************)
(* An enabled inbound admits exactly the sources that a line names, every  *)
(* source when no line names any, and none when it is disabled.            *)
(***************************************************************************)
THEOREM AllowlistHolds == ss \in Accepted => AllowlistIsExact
<1> DEFINE L == Load(ss)
           conf == Render(L)
           lines == ToSet(Get(ss, "ip_allowlist", <<>>))
           nets == Allowlist(L.ip_allowlist)
<1> SUFFICES ASSUME ss \in Accepted, NEW source \in Source
             PROVE  Admits(conf, source) <=>
                      /\ Get(ss, "enabled", FALSE)
                      /\ \/ \A line \in lines : line.kind \in {"blank", "comment"}
                         \/ \E line \in lines : Named(line, source)
  BY DEF AllowlistIsExact
<1>1. ss \in Payload /\ Valid(ss)
  BY DEF Accepted
<1>2. /\ L.enabled \in BOOLEAN /\ L.sniff_enabled \in BOOLEAN
      /\ L.ip_allowlist \in Seq(Line) /\ L.ip_allowlist = Get(ss, "ip_allowlist", <<>>)
  BY <1>1, FlagsAreTyped
<1>3. L.enabled = Get(ss, "enabled", FALSE)
  <2>1. "enabled" \in Keys
    BY DEF Keys
  <2> QED BY <2>1, Defaults, SameDefault
<1>4. \A line \in lines : Readable(line)
  BY <1>1 DEF Valid
<1> HIDE DEF L
<1>5. /\ nets = {} <=> \A line \in lines : line.kind \in {"blank", "comment"}
      /\ (\E net \in nets : Covers(net, source)) <=> \E line \in lines : Named(line, source)
  BY <1>2, <1>4, NetsAreNamed
<1>6. /\ conf.inbounds = IF L.enabled THEN <<Inbound(L)>> ELSE <<>>
      /\ conf.rules = IF L.enabled THEN Rules(L) ELSE <<>>
  BY DEF Render
<1> HIDE DEF conf, lines, nets
<1>7. CASE L.enabled
  <2>1. conf.inbounds # <<>> /\ conf.rules = Rules(L)
    BY <1>6, <1>7
  <2>2. Admits(conf, source) <=> nets = {} \/ \E net \in nets : Covers(net, source)
    <3>1. Admits(conf, source)
            <=> /\ conf.inbounds # <<>>
                /\ \/ Allowlist(L.ip_allowlist) = {}
                   \/ \E net \in Allowlist(L.ip_allowlist) : Covers(net, source)
      <4>1. L.sniff_enabled \in BOOLEAN
        BY <1>2
      <4>2. conf.rules = Rules(L)
        BY <2>1
      <4> QED BY <4>1, <4>2, RulesDecide
    <3> QED BY <2>1, <3>1, Zenon DEF nets
  <2> QED BY <1>3, <1>5, <1>7, <2>2
<1>8. CASE ~ L.enabled
  <2>1. conf.inbounds = <<>>
    BY <1>6, <1>8
  <2>2. ~ Admits(conf, source)
    BY <2>1 DEF Admits
  <2> QED BY <1>3, <1>8, <2>2
<1> QED BY <1>2, <1>7, <1>8

=============================================================================
