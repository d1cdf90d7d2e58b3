--------------------------- MODULE ConfigContent ---------------------------
(* What a generated configuration file says: the skeleton written from the  *)
(* settings, the nodes of a subscription, the settings patched into the     *)
(* file afterwards instead of generating it anew, the custom rules, and the *)
(* small in-place edits of the mode switch, the IP version switch and the   *)
(* start of the kernel.  How commands interleave is ConfigFiles' subject;   *)
(* here each command is one step.                                           *)
EXTENDS SubscriptionParser, FiniteSets

CONSTANTS
    Groups,      \* the application groups, in order (Telegram, YouTube, ...)
    Ranges,      \* values of the fake DNS address ranges
    DefaultRange,
    Documents,   \* bodies a subscription can have
    RuleLists,   \* lists of custom rules the user can have stored
    Varied,      \* bound: the settings a run changes, and how many of
    MaxChanged   \* them differ from the default at the same time

ASSUME GroupsAssumption == /\ Groups \in Seq(STRING)
                           /\ \A i, j \in DOMAIN Groups : Groups[i] = Groups[j] => i = j
                           /\ \A i \in DOMAIN Groups :
                                Groups[i] \notin {"auto", "manual", "direct", "block"}
ASSUME RangeAssumption == DefaultRange \in Ranges
ASSUME DocumentsAssumption ==
    \A doc \in Documents : /\ DOMAIN doc = {"form", "entries", "wrap"}
                           /\ doc.entries \in Seq(ToSet(doc.entries))
ASSUME RuleListsAssumption == /\ <<>> \in RuleLists
                              /\ \A list \in RuleLists : list \in Seq(ToSet(list))

VARIABLES
    settings,    \* the AppConfig fields that reach the file
    userRules,   \* the custom_rules row
    nodes,       \* nodes of the last import
    file         \* the active configuration file

vars == <<settings, userRules, nodes, file>>

NoFile == [outbounds |-> <<>>]
Settings ==
    [ads : BOOLEAN, groups : BOOLEAN, hijack : BOOLEAN, fake : {"off", "proxy_only", "global"},
     range : Ranges, outbound : {"manual", "auto"}, detour : {"direct", "manual"},
     dns : {"ip", "domain", "local", "bad"}, ipv6 : BOOLEAN, tun : BOOLEAN,
     exclude : {"none", "user"}]

Default == [ads |-> FALSE, groups |-> TRUE, hijack |-> TRUE, fake |-> "off",
            range |-> DefaultRange, outbound |-> "manual", detour |-> "direct", dns |-> "ip",
            ipv6 |-> FALSE, tun |-> FALSE, exclude |-> "none"]
ASSUME VariedAssumption == Varied \subseteq DOMAIN Default

Init == /\ settings = Default /\ userRules = <<>> /\ nodes = <<>> /\ file = NoFile

----------------------------------------------------------------------------
(* Parts of the file                                                        *)

\* The elements of seq at the given positions, in their order: SelectSeq, in a
\* form the proofs can unfold.
Only(seq, positions) ==
    LET kept[n \in 0 .. Len(seq)] ==
            IF n = 0 THEN <<>>
            ELSE IF n \in positions THEN Append(kept[n - 1], seq[n]) ELSE kept[n - 1]
    IN kept[Len(seq)]

\* A rule matches a condition or rule sets; to is an outbound, a DNS server
\* or an action.
On(cond, to) == [on |-> cond, sets |-> {}, to |-> to, user |-> FALSE]
Matching(sets, to) == [on |-> "rule_set", sets |-> sets, to |-> to, user |-> FALSE]
Ads == Matching({"ads"}, "reject")
Sniff == On("any", "sniff")
Hijack == On("dns", "hijack-dns")
FakeOn(range) == "fake-" \o range
FakeRoute(range) == On(FakeOn(range), "direct")
FakeRoutes == {FakeRoute(range) : range \in Ranges}
GroupSet == {Groups[i] : i \in DOMAIN Groups}
If(cond, seq) == IF cond THEN seq ELSE <<>>

Strategy(s) == IF s.ipv6 THEN "prefer_ipv6" ELSE "ipv4_only"

\* build_dns_server_config: detour direct is left out, local has no detour,
\* and only a domain needs a resolver; an unparsable address is an error.
ServerFor(tag, address, s) ==
    [tag |-> tag, address |-> address, range |-> "",
     detour |-> IF tag = "dns_proxy" /\ address # "local" THEN s.outbound ELSE "",
     resolver |-> IF address = "domain" THEN <<"dns_resolver", Strategy(s)>> ELSE <<>>]
AddressOf(tag, s) ==
    CASE tag = "dns_proxy" -> s.dns [] tag = "dns_cn" -> "domain" [] OTHER -> "ip"
FakeServer(s) == [tag |-> "dns_fakeip", address |-> "", range |-> s.range, detour |-> "",
                  resolver |-> <<>>]
IsFakeServer(server) == server.tag = "dns_fakeip"

\* apply_fake_dns_rules and sync_fake_dns_rules.
FakeDnsRule(s) == IF s.fake = "global" THEN On("address", "dns_fakeip")
                  ELSE [Matching({"notcn"}, "dns_fakeip") EXCEPT !.on = "address"]
WithFakeDnsRules(rules, s) ==
    LET kept == Only(rules, {i \in DOMAIN rules : rules[i].to # "dns_fakeip"})
        position == SelectInSeq(kept, LAMBDA r : r.sets = {"notcn"})
    IN CASE s.fake = "off" -> kept
         [] s.fake = "proxy_only" /\ position # 0 -> InsertAt(kept, position, FakeDnsRule(s))
         [] OTHER -> Append(kept, FakeDnsRule(s))

----------------------------------------------------------------------------
(* apply_app_settings_to_config                                             *)

PatchedServers(servers, s) ==
    LET rebuilt == [i \in DOMAIN servers |->
            LET tag == servers[i].tag IN
            IF IsFakeServer(servers[i]) \/ AddressOf(tag, s) = "bad" THEN servers[i]
            ELSE ServerFor(tag, AddressOf(tag, s), s)]
    IN Only(rebuilt, {i \in DOMAIN rebuilt : ~IsFakeServer(rebuilt[i])})
       \o If(s.fake # "off", <<FakeServer(s)>>)

\* The rule goes first if it is missing; only the first one found is removed.
PatchedDnsRules(rules, s) ==
    LET ads == SelectInSeq(rules, LAMBDA r : r.sets = {"ads"})
        synced == CASE s.ads /\ ads = 0  -> <<Ads>> \o rules
                    [] s.ads /\ ads # 0  -> [rules EXCEPT ![ads].to = "reject"]
                    [] ~s.ads /\ ads # 0 -> RemoveAt(rules, ads)
                    [] OTHER             -> rules
    IN WithFakeDnsRules(synced, s)

\* Rule sets no longer wanted are removed; none is ever added.
PatchedRuleSets(sets, s) ==
    LET kept == Only(sets, {i \in DOMAIN sets : /\ sets[i].tag = "ads" => s.ads
                                                /\ sets[i].tag \in GroupSet => s.groups})
    IN [i \in DOMAIN kept |-> [kept[i] EXCEPT !.detour = s.detour]]

WithSniff(rules) ==
    IF \E i \in DOMAIN rules : rules[i].to = "sniff" THEN rules ELSE <<Sniff>> \o rules

WithHijack(rules, s) ==
    LET sniff == SelectInSeq(rules, LAMBDA r : r.to = "sniff")
        hijack == SelectInSeq(rules, LAMBDA r : r.to = "hijack-dns")
    IN CASE s.hijack /\ hijack = 0  -> InsertAt(rules, sniff + 1, Hijack)
         [] ~s.hijack /\ hijack # 0 -> RemoveAt(rules, hijack)
         [] OTHER                   -> rules

\* The rule that is missing goes last.
WithAdsRoute(rules, s) ==
    LET ads == SelectInSeq(rules, LAMBDA r : r.sets = {"ads"} /\ r.to = "reject")
    IN CASE s.ads /\ ads = 0  -> Append(rules, Ads)
         [] ~s.ads /\ ads # 0 -> RemoveAt(rules, ads)
         [] OTHER             -> rules

\* Mutant: only the ranges of the settings and the default are cleaned up.
CleanupRangesNoServers(servers, s) == {s.range, DefaultRange}

\* The ranges whose route rule is cleaned up: of the settings, the default,
\* and of the fake DNS servers found in the file.
CleanupRanges(servers, s) ==
    {s.range, DefaultRange} \cup {servers[i].range : i \in {j \in DOMAIN servers :
                                                             IsFakeServer(servers[j])}}

\* Redirected: the global and the non-CN rule follow the default outbound.
Redirected(r, s) ==
    IF r.on = "mode-global" \/ r.sets = {"notcn"} THEN [r EXCEPT !.to = s.outbound] ELSE r

PatchedRules(f, s) ==
    LET sniffed == WithSniff(f.rules)
        redirected == [i \in DOMAIN sniffed |-> Redirected(sniffed[i], s)]
        ads == WithAdsRoute(WithHijack(redirected, s), s)
        stale == {FakeRoute(range) : range \in CleanupRanges(f.servers, s)}
        kept == Only(ads, {i \in DOMAIN ads :
                             /\ (ads[i].sets \in {{g} : g \in GroupSet}) => s.groups
                             /\ ads[i] \notin stale})
    IN kept \o If(s.fake # "off", <<FakeRoute(s.range)>>)

\* TunProxyOptions::to_inbounds and the mixed inbound next to it.
Inbounds(s, exclude) ==
    <<[tag |-> "mixed-in", exclude |-> ""]>>
    \o If(s.tun, <<[tag |-> "tun-in", exclude |-> exclude]>>)

\* A TUN exclusion list in the file is kept unless the settings have one.
PatchedInbounds(f, s) ==
    LET tun == SelectSeq(f.inbounds, LAMBDA ib : ib.tag = "tun-in")
        exclude == IF s.exclude # "none" THEN s.exclude
                   ELSE IF tun # <<>> THEN tun[1].exclude ELSE "default"
    IN Inbounds(s, exclude)

Patch(f, s) ==
    [f EXCEPT !.servers = PatchedServers(@, s), !.dnsRules = PatchedDnsRules(@, s),
              !.ruleSets = PatchedRuleSets(@, s), !.rules = PatchedRules(f, s),
              !.inbounds = PatchedInbounds(f, s),
              !.outbounds = Only(@, {i \in DOMAIN @ : @[i].tag \in GroupSet => s.groups}),
              !.final = s.outbound, !.resolver = Strategy(s), !.uiDetour = s.detour,
              !.rdrc = s.fake # "off", !.reverse = s.fake # "off", !.dnsStrategy = ""]

----------------------------------------------------------------------------
(* generate_base_config and inject_nodes                                    *)

Group(tag, members) == [tag |-> tag, members |-> members, server |-> "", resolver |-> "",
                        dial |-> NoDial]

\* The fallback of an address that does not parse is an IP address or a domain.
BaseServers(s) ==
    [i \in 1..3 |-> LET tag == <<"dns_proxy", "dns_cn", "dns_resolver">>[i] IN
        ServerFor(tag, IF AddressOf(tag, s) = "bad" THEN "ip" ELSE AddressOf(tag, s), s)]
    \o If(s.fake # "off", <<FakeServer(s)>>)

BaseDnsRules(s) ==
    WithFakeDnsRules(
        <<On("mode-direct", "dns_cn"), On("mode-global", "dns_proxy")>> \o If(s.ads, <<Ads>>)
        \o <<Matching({"cn", "geoip-cn"}, "dns_cn"), Matching({"notcn"}, "dns_proxy")>>, s)

BaseRuleSets(s) ==
    LET tags == If(s.ads, <<"ads">>) \o <<"cn", "notcn">> \o If(s.groups, Groups)
                \o <<"private", "geoip-cn">>
    IN [i \in DOMAIN tags |->
          [tag |-> tags[i], detour |-> IF tags[i] = "private" THEN "direct" ELSE s.detour]]

BaseRules(s) ==
    <<Sniff>> \o If(s.hijack, <<Hijack>>)
    \o <<On("mode-global", s.outbound), On("mode-direct", "direct")>> \o If(s.ads, <<Ads>>)
    \o If(s.groups, [i \in DOMAIN Groups |-> Matching({Groups[i]}, Groups[i])])
    \o <<Matching({"private"}, "direct"), On("cidr", "direct"),
         Matching({"cn", "geoip-cn"}, "direct"), Matching({"notcn"}, s.outbound)>>
    \o If(s.fake # "off", <<FakeRoute(s.range)>>)

BaseConfig(s) ==
    Patch([outbounds |-> <<Group("auto", <<"direct">>), Group("manual", <<"auto">>)>>
             \o If(s.groups, [i \in DOMAIN Groups |-> Group(Groups[i], <<"manual", "auto">>)])
             \o <<Group("direct", <<>>), Group("block", <<>>)>>,
           servers |-> BaseServers(s), dnsRules |-> BaseDnsRules(s),
           ruleSets |-> BaseRuleSets(s), rules |-> BaseRules(s), inbounds |-> <<>>,
           final |-> s.outbound, resolver |-> Strategy(s), uiDetour |-> s.detour,
           rdrc |-> s.fake # "off", reverse |-> s.fake # "off", dnsStrategy |-> "",
           mode |-> "rule"], s)

Tags(outbounds) == {outbounds[i].tag : i \in DOMAIN outbounds}

Numbered(raw, k) == "node-" \o raw \o "-" \o ToString(k)

\* Mutant: the index makes the tag unique, so it is not looked up.
FreeTagUnchecked(taken, raw, idx) == IF raw \notin taken THEN raw ELSE Numbered(raw, idx)

\* A tag that is taken is tried with the node's index, then with 1, 2, ...
FreeTag(taken, raw, idx) ==
    LET free == {k \in 1..(Cardinality(taken) + 1) : Numbered(raw, k) \notin taken}
    IN IF raw \notin taken THEN raw
       ELSE IF Numbered(raw, idx) \notin taken THEN Numbered(raw, idx)
       ELSE Numbered(raw, CHOOSE k \in free : \A other \in free : k <= other)

\* server = 0.0.0.0 is a notice of the provider, not a node.
Dialable(node) == node.server \notin {"", "0.0.0.0"}
IsDomain(server) == server \in {"h", "h2"}

\* resolver is the domain_resolver of this program's own; a node that brings one keeps
\* it (dial), and its detour, as they are.
NodeOutbound(taken, node, idx) ==
    [tag |-> FreeTag(taken, node.tag, idx), members |-> <<>>, server |-> node.server,
     resolver |-> IF IsDomain(node.server) /\ node.dial.resolver = "" THEN "dns_resolver" ELSE "",
     dial |-> node.dial]

\* The outbounds so far and the node's index are what each node sees.
NodeOutbounds(taken, list) ==
    LET done[n \in 0 .. Len(list)] ==
            IF n = 0 THEN <<>>
            ELSE LET before == done[n - 1] IN
                 Append(before, NodeOutbound(taken \cup Tags(before), list[n], n - 1))
    IN done[Len(list)]

\* Mutant: the provider's notices are offered like nodes.
OfferedAll(outbounds) == [i \in DOMAIN outbounds |-> outbounds[i].tag]

Offered(outbounds) ==
    LET usable == Only(outbounds, {i \in DOMAIN outbounds : Dialable(outbounds[i])})
    IN [i \in DOMAIN usable |-> usable[i].tag]

Members(ob, offered) ==
    IF ob.tag = "auto" THEN IF offered = <<>> THEN <<"direct">> ELSE offered
    ELSE IF ob.tag = "manual" THEN <<"auto">> \o offered
    ELSE IF ob.tag \in GroupSet THEN <<"manual", "auto">> \o offered
    ELSE ob.members

WithNodes(f, list) ==
    LET new == NodeOutbounds(Tags(f.outbounds), list)
        offered == Offered(new)
    IN [f EXCEPT !.outbounds =
          [i \in DOMAIN @ |-> [@[i] EXCEPT !.members = Members(f.outbounds[i], offered)]] \o new]

\* inject_nodes gives up on the first node whose tag is blank.
Rejected(list) == \E i \in DOMAIN list : list[i].tag \in {"", " "}

Generated(s, list) == WithNodes(BaseConfig(s), list)

----------------------------------------------------------------------------
(* Custom rules                                                             *)

\* to_route_rule, with the outbound a proxy rule gets.
RouteRule(rule, s) ==
    [on |-> rule.match, sets |-> {}, user |-> TRUE,
     to |-> CASE rule.action = "direct" -> "direct"
              [] rule.action = "proxy"  -> s.outbound
              [] OTHER                  -> "reject"]

\* Mutant: the rules go behind the built-in ones.
InsertBeforeEnd(rules) == Len(rules) + 1

\* Before the first rule on a rule set, an address or a domain.
InsertBefore(rules) ==
    LET anchor == SelectInSeq(rules, LAMBDA r :
                    r.on = "rule_set" \/ r.on \in {"cidr", "domain", "domain_suffix"}
                                                \cup {FakeOn(range) : range \in Ranges})
    IN IF anchor = 0 THEN Len(rules) + 1 ELSE anchor

WithUserRules(f, list, s) ==
    LET stripped == Only(f.rules, {i \in DOMAIN f.rules : ~f.rules[i].user})
        enabled == Only(list, {i \in DOMAIN list : list[i].enabled})
        at == InsertBefore(stripped)
    IN [f EXCEPT !.rules = SubSeq(stripped, 1, at - 1)
                           \o [i \in DOMAIN enabled |-> RouteRule(enabled[i], s)]
                           \o SubSeq(stripped, at, Len(stripped))]

----------------------------------------------------------------------------
(* Commands                                                                 *)

HasFile == file # NoFile

\* download_subscription and add_manual_subscription without
\* use_original_config; a failed import leaves the file alone.
Import(doc, manual) ==
    LET list == IF manual THEN ManualNodes(doc) ELSE DownloadedNodes(doc) IN
    /\ list # <<>> /\ ~Rejected(list)
    /\ nodes' = list
    /\ file' = WithUserRules(Generated(settings, list), userRules, settings)
    /\ UNCHANGED <<settings, userRules>>

\* db_save_app_config with a runtime change that patches the active file.
SaveSettings(field, value) ==
    /\ settings' = [settings EXCEPT ![field] = value]
    /\ settings' # settings
    /\ Cardinality({f \in Varied : settings'[f] # Default[f]}) <= MaxChanged
    /\ file' = IF HasFile THEN Patch(file, settings') ELSE file
    /\ UNCHANGED <<userRules, nodes>>

EditRules(list) ==
    /\ list # userRules
    /\ userRules' = list
    /\ file' = IF HasFile THEN WithUserRules(file, list, settings) ELSE file
    /\ UNCHANGED <<settings, nodes>>

\* set_active_config_path of the same file: inject, then patch.
Activate ==
    /\ HasFile
    /\ file' = Patch(WithUserRules(file, userRules, settings), settings)
    /\ UNCHANGED <<settings, userRules, nodes>>

\* modify_default_mode replaces the whole cache_file object.
ToggleMode(mode) ==
    /\ HasFile
    /\ file' = [file EXCEPT !.mode = mode, !.rdrc = FALSE]
    /\ UNCHANGED <<settings, userRules, nodes>>

\* A start writes the inbounds of the runtime state, where an unset exclusion
\* list is the default one, and dns.strategy.
StartKernel ==
    /\ HasFile
    /\ LET exclude == IF settings.exclude = "none" THEN "default" ELSE settings.exclude IN
       file' = [file EXCEPT !.dnsStrategy = Strategy(settings),
                            !.inbounds = Inbounds(settings, exclude)]
    /\ UNCHANGED <<settings, userRules, nodes>>

\* toggle_ip_version writes the strategy it is given, whatever is stored.
ToggleIpVersion(prefer_ipv6) ==
    /\ HasFile
    /\ file' = [file EXCEPT !.dnsStrategy = IF prefer_ipv6 THEN "prefer_ipv6" ELSE "ipv4_only"]
    /\ UNCHANGED <<settings, userRules, nodes>>

Values == [ads |-> BOOLEAN, groups |-> BOOLEAN, hijack |-> BOOLEAN,
           fake |-> {"off", "proxy_only", "global"}, range |-> Ranges,
           outbound |-> {"manual", "auto"}, detour |-> {"direct", "manual"},
           dns |-> {"ip", "domain", "local", "bad"}, ipv6 |-> BOOLEAN, tun |-> BOOLEAN,
           exclude |-> {"none", "user"}]

Next ==
    \/ \E doc \in Documents, manual \in BOOLEAN : Import(doc, manual)
    \/ \E field \in Varied : \E value \in Values[field] : SaveSettings(field, value)
    \/ \E list \in RuleLists : EditRules(list)
    \/ Activate
    \/ \E mode \in {"global", "rule"} : ToggleMode(mode)
    \/ StartKernel
    \/ \E prefer \in BOOLEAN : ToggleIpVersion(prefer)

Spec == Init /\ [][Next]_vars

----------------------------------------------------------------------------
(* Properties                                                               *)

\* The settings are settings and the file, if there is one, has rules that
\* are either built in or the user's, with nothing in between.
TypeOK ==
    /\ settings \in Settings
    /\ userRules \in RuleLists
    /\ HasFile => /\ file.mode \in {"rule", "global"}
                  /\ file.dnsStrategy \in {"", "prefer_ipv6", "ipv4_only"}
                  /\ \A i \in DOMAIN file.inbounds :
                       file.inbounds[i].exclude \in {"", "default", "user"}
                  /\ {file.rdrc, file.reverse} \subseteq BOOLEAN

Actions == {"sniff", "reject", "hijack-dns"}

\* Whatever was imported and whichever settings and rules were changed since,
\* everything this program makes the file refer to by tag is in it: the outbounds
\* of rules, groups, downloads and DNS servers, the DNS servers of rules and
\* resolvers; and no two outbounds have the same tag.  What a node of the
\* subscription says of its own dialling is not this program's (NodesDialKnownTags).
TagsResolve ==
    HasFile =>
      LET tags == Tags(file.outbounds)
          servers == {d.tag : d \in ToSet(file.servers)}
      IN /\ Cardinality(tags) = Len(file.outbounds)
         /\ \A r \in ToSet(file.rules) : r.to \in tags \cup Actions
         /\ \A ob \in ToSet(file.outbounds) :
              /\ ToSet(ob.members) \subseteq tags
              /\ ob.resolver \in servers \cup {""}
         /\ {file.final, file.uiDetour} \subseteq tags
         /\ \A rs \in ToSet(file.ruleSets) : rs.detour \in tags
         /\ \A d \in ToSet(file.servers) :
              /\ d.detour \in tags \cup {""}
              /\ d.resolver # <<>> => d.resolver[1] \in servers \ {d.tag}
         /\ \A r \in ToSet(file.dnsRules) : r.to \in servers \cup {"reject"}

\* An import that brought a usable node never leaves automatic selection on
\* direct or on one of the provider's notices, and every group that is still
\* in the file offers each usable node.
GroupsOfferNodes ==
    HasFile =>
      LET new == SubSeq(file.outbounds, Len(file.outbounds) - Len(nodes) + 1,
                        Len(file.outbounds))
          usable == {ob.tag : ob \in {n \in ToSet(new) : Dialable(n)}}
      IN \A ob \in ToSet(file.outbounds) :
           CASE ob.tag = "auto" ->
                  ToSet(ob.members) = (IF usable = {} THEN {"direct"} ELSE usable)
             [] ob.tag = "manual" -> ToSet(ob.members) = {"auto"} \cup usable
             [] ob.tag \in GroupSet -> ToSet(ob.members) = {"auto", "manual"} \cup usable
             [] OTHER -> ob.members = <<>>

\* However settings, imports and edits alternate, a custom rule is decided
\* before every built-in rule on a rule set or an address.
UserRulesFirst ==
    HasFile => \A i, j \in DOMAIN file.rules :
                 (/\ file.rules[i].user /\ ~file.rules[j].user
                  /\ file.rules[j].to \notin {"sniff", "hijack-dns"}
                  /\ file.rules[j].on \notin {"mode-global", "mode-direct"})
                 => i < j

\* What a patch manages of a file.  Left out: where the advertisement rule
\* stands, the application groups and the advertisement rule set, which a
\* patch removes and never puts back, a DNS server whose address does not
\* parse, and an exclusion list kept from the file.
Managed(f, s) ==
    [final |-> f.final, resolver |-> f.resolver, uiDetour |-> f.uiDetour, rdrc |-> f.rdrc,
     reverse |-> f.reverse, dnsStrategy |-> f.dnsStrategy,
     servers |-> {d \in ToSet(f.servers) : d.tag = "dns_proxy" => s.dns # "bad"},
     dnsRules |-> SelectSeq(f.dnsRules, LAMBDA r : r # Ads),
     rules |-> SelectSeq(f.rules, LAMBDA r : /\ r \notin {Ads} \cup FakeRoutes /\ ~r.user
                                             /\ r.sets \notin {{g} : g \in GroupSet}),
     ads |-> <<Ads \in ToSet(f.dnsRules), Ads \in ToSet(f.rules)>>,
     fake |-> SelectSeq(f.rules, LAMBDA r : r \in FakeRoutes),
     inbounds |-> {ib \in ToSet(f.inbounds) : s.exclude # "none" \/ ib.tag # "tun-in"},
     tun |-> \E ib \in ToSet(f.inbounds) : ib.tag = "tun-in",
     detours |-> {rs.detour : rs \in ToSet(f.ruleSets)}]

\* Patching the file that a long history of commands has left gives, for all
\* a patch manages, what generating it anew from the settings would give.
PatchMatchesFresh ==
    [][(HasFile /\ settings' # settings)
       => Managed(file', settings') = Managed(Generated(settings', nodes), settings')]_vars

\* What the comments of apply_app_settings_to_config and
\* apply_profile_settings_if_present promise for a generated file whose
\* settings are synchronized: the rules only use rule sets the file defines.
RuleSetsResolve ==
    HasFile => \A r \in ToSet(file.rules) \cup ToSet(file.dnsRules) :
                 r.sets \subseteq {rs.tag : rs \in ToSet(file.ruleSets)}

\* What TagsResolve leaves out: the DNS server and the outbound a node itself names.
NodesDialKnownTags ==
    HasFile => \A ob \in ToSet(file.outbounds) :
                 /\ ob.dial.resolver \in {d.tag : d \in ToSet(file.servers)} \cup {""}
                 /\ ob.dial.detour \in Tags(file.outbounds) \cup {""}

\* What the comment of generate_base_config on store_rdrc and the patch of
\* cache_file promise: while fake DNS is on its mapping is persisted.
FakeDnsPersisted == HasFile => (file.rdrc <=> settings.fake # "off")

\* What the comment on URI lists in extract_nodes_from_subscription promises:
\* an entry in a bad format does not keep the others from being imported.
BadEntrySkipped ==
    \A doc \in Documents :
      LET list == DownloadedNodes(doc) IN
      (\E i \in DOMAIN list : ~Rejected(<<list[i]>>)) => ENABLED Import(doc, FALSE)
=============================================================================
