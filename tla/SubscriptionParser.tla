------------------------- MODULE SubscriptionParser -------------------------
(* From a subscription's body to sing-box nodes: the three document kinds   *)
(* (sing-box JSON, Clash JSON or YAML, a list of URIs), the wrappings tried *)
(* one after the other, and the conversion of each protocol.  An entry is a *)
(* record of the fields the converters look at; "" is an absent field.      *)
EXTENDS Integers, Sequences, SequencesExt, TLC

Supported == {"vless", "vmess", "trojan", "shadowsocks", "shadowsocksr", "socks", "http",
              "hysteria2", "tuic", "anytls"}

NoEntry == [kind |-> "", tag |-> "", server |-> "", port |-> 0, user |-> "", password |-> "",
            method |-> "", tls |-> "", sni |-> "", insecure |-> FALSE, ws |-> FALSE, opts |-> {},
            resolver |-> "", detour |-> ""]
Entry(overrides) == [f \in DOMAIN NoEntry |->
                       IF f \in DOMAIN overrides THEN overrides[f] ELSE NoEntry[f]]

\* A node's own domain_resolver and detour.
NoDial == [resolver |-> "", detour |-> ""]
NoTls == [name |-> "", insecure |-> FALSE, utls |-> FALSE, reality |-> FALSE]
Or(value, default) == IF value = "" THEN default ELSE value

Node(e, type, tag, port, secret, tls, ws, opts) ==
    [type |-> type, tag |-> tag, server |-> e.server, port |-> port, secret |-> secret,
     tls |-> tls, ws |-> ws, opts |-> opts, dial |-> NoDial]

----------------------------------------------------------------------------
(* Clash entries                                                            *)

ClashType == [vmess |-> "vmess", vless |-> "vless", trojan |-> "trojan", ss |-> "shadowsocks",
              hysteria2 |-> "hysteria2", tuic |-> "tuic", anytls |-> "anytls"]

\* The field a protocol cannot do without: uuid for the first group.
ClashSecret(e) == IF e.kind \in {"vmess", "vless", "tuic"} THEN e.user ELSE e.password

\* build_basic_tls_config: the server's name unless an SNI is given.
BasicTls(e) == [NoTls EXCEPT !.name = Or(e.sni, e.server), !.insecure = e.insecure]

\* vmess and vless copy servername only if it is there; trojan has TLS unless
\* it is switched off, and does not read skip-cert-verify.
ClashTls(e) ==
    CASE e.kind \in {"vmess", "vless"} ->
           IF e.tls \in {"tls", "reality"} THEN [NoTls EXCEPT !.name = e.sni, !.utls = TRUE]
           ELSE NoTls
      [] e.kind = "trojan" ->
           IF e.tls = "off" THEN NoTls ELSE [NoTls EXCEPT !.name = Or(e.sni, e.server)]
      [] e.kind = "ss" -> NoTls
      [] OTHER -> BasicTls(e)

ClashOpts == [vmess |-> {"cipher"}, vless |-> {}, trojan |-> {}, ss |-> {},
              hysteria2 |-> {"alpn", "up", "down"},
              tuic |-> {"alpn", "password", "congestion", "udp_relay", "rtt", "disable_sni"},
              anytls |-> {"alpn", "idle"}]

\* convert_clash_node_to_singbox, as the sequence of at most one node.
ClashNode(e) ==
    IF /\ e.kind \in DOMAIN ClashType
       /\ "" \notin {e.tag, e.server, ClashSecret(e)}
       /\ e.port # 0
       /\ e.kind = "ss" => e.method # ""
    THEN <<Node(e, ClashType[e.kind], e.tag, e.port, ClashSecret(e), ClashTls(e),
                e.ws /\ e.kind = "vmess", e.opts \cap ClashOpts[e.kind])>>
    ELSE <<>>

----------------------------------------------------------------------------
(* URIs                                                                     *)

\* The part before @ is the user for every scheme but ss and vmess.
UriSecret(e) == IF e.kind \in {"vless", "vmess", "tuic"} THEN e.user ELSE e.password

UriTls(e) ==
    CASE e.kind = "vless" ->
           IF e.tls \in {"tls", "reality"} \/ e.sni # ""
           THEN [name |-> Or(e.sni, e.server), insecure |-> FALSE, utls |-> TRUE,
                 reality |-> e.tls = "reality"]
           ELSE NoTls
      [] e.kind = "vmess" ->
           IF e.tls = "tls" THEN [NoTls EXCEPT !.name = Or(e.sni, e.server), !.utls = TRUE]
           ELSE NoTls
      [] e.kind = "trojan" -> [BasicTls(e) EXCEPT !.utls = TRUE]
      [] e.kind = "ss" -> NoTls
      [] OTHER -> BasicTls(e)

UriOpts == [vmess |-> {"cipher"}, vless |-> {"flow"}, trojan |-> {}, ss |-> {},
            hysteria2 |-> {"alpn"},
            tuic |-> {"alpn", "password", "congestion", "udp_relay", "rtt", "heartbeat",
                      "network", "udp_over_stream"},
            anytls |-> {"alpn", "idle", "min_idle"}]

UriPort(e) == IF e.port = 0 THEN 443 ELSE e.port

\* decode_tag falls back to scheme-host:port (0 for an absent port), vmess to
\* its effective port, ss to a constant; ps and the ss fragment are trimmed.
UriTag(e) ==
    CASE e.kind = "ss" /\ e.tag \in {"", " "} -> "shadowsocks"
      [] e.kind = "vmess" /\ e.tag \in {"", " "} ->
           "vmess-" \o e.server \o ":" \o ToString(UriPort(e))
      [] e.kind \notin {"ss", "vmess"} /\ e.tag = "" ->
           e.kind \o "-" \o e.server \o ":" \o ToString(e.port)
      [] OTHER -> e.tag

\* convert_uri_node_to_singbox; ss alone needs a port and a method, and its
\* host ends at the first colon, so an IPv6 literal has no port.
UriNode(e) ==
    IF /\ e.kind \in DOMAIN UriOpts
       /\ e.server # "" /\ UriSecret(e) # ""
       /\ e.kind = "ss" => (e.method # "" /\ e.port # 0 /\ e.server # "[v6]")
    THEN <<Node(e, ClashType[e.kind], UriTag(e), UriPort(e), UriSecret(e), UriTls(e),
                e.ws /\ e.kind \in {"vmess", "vless", "trojan"},
                e.opts \cap UriOpts[e.kind])>>
    ELSE <<>>

----------------------------------------------------------------------------
(* Documents: [form, entries, wrap]                                         *)

\* A sing-box outbound is taken as it is, with the DNS server and the outbound
\* it dials through; a missing tag is type-server.  The
\* search through the groups is reached when no outbound is supported and
\* looks at the same outbounds, so it finds none.
Outbound(e) ==
    IF e.kind \in Supported
    THEN <<[Node(e, e.kind, Or(e.tag, e.kind \o "-" \o Or(e.server, "unknown")), e.port,
                 Or(e.user, e.password), IF e.tls = "" THEN NoTls ELSE BasicTls(e), e.ws, e.opts)
              EXCEPT !.dial = [resolver |-> e.resolver, detour |-> e.detour]]>>
    ELSE <<>>

\* Any other array of a JSON object: objects with a type and a name or a
\* server.  The name counts as a tag and is not copied to it.
LooseOutbound(e) ==
    IF e.tag = "" /\ e.server = "" THEN <<>>
    ELSE [i \in DOMAIN Outbound(e) |->
            IF e.tag = "" THEN Outbound(e)[i] ELSE [Outbound(e)[i] EXCEPT !.tag = ""]]

Convert(form, e) ==
    CASE form = "singbox" -> Outbound(e)
      [] form = "clash"   -> ClashNode(e)
      [] form = "uri"     -> UriNode(e)
      [] form = "loose"   -> LooseOutbound(e)
      [] OTHER            -> <<>>

Converted(doc) == FlattenSeq([i \in 1..Len(doc.entries) |-> Convert(doc.form, doc.entries[i])])

\* The last pass gives a node that still has an empty tag one with its index.
Retagged(nodes) ==
    [i \in 1..Len(nodes) |->
       IF nodes[i].tag # "" THEN nodes[i]
       ELSE [nodes[i] EXCEPT !.tag = nodes[i].type \o "-" \o Or(nodes[i].server, "unknown")
                                     \o "-" \o ToString(i - 1)]]

\* extract_nodes_from_subscription sees through no wrapping.
Extract(doc) == IF doc.wrap = "plain" THEN Retagged(Converted(doc)) ELSE <<>>

Unwrapped(doc, wrap) == IF doc.wrap = wrap THEN [doc EXCEPT !.wrap = "plain"] ELSE doc

\* write_downloaded_subscription_config tries the body, its base64 decoding,
\* and the decoding of what is left when every scheme prefix is removed.
DownloadedNodes(doc) ==
    LET plain == Extract(doc)
        decoded == Extract(Unwrapped(doc, "base64"))
    IN IF plain # <<>> THEN plain
       ELSE IF decoded # <<>> THEN decoded
       ELSE Extract(Unwrapped(doc, "prefixed"))

\* write_manual_subscription_config stops after the second.
ManualNodes(doc) ==
    LET plain == Extract(doc)
    IN IF plain # <<>> THEN plain ELSE Extract(Unwrapped(doc, "base64"))
=============================================================================
