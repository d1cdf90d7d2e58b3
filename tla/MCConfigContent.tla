-------------------------- MODULE MCConfigContent --------------------------
(* Instance for TLC: two application groups, bodies that collide with the   *)
(* built-in tags and with each other, notices, blank names and wrappings.   *)
EXTENDS ConfigContent

MCGroups == <<"telegram", "google">>

Ss(tag, server) == Entry([kind |-> "ss", tag |-> tag, server |-> server, port |-> 1,
                          password |-> "p", method |-> "m"])
Vless(tag, server) == Entry([kind |-> "vless", tag |-> tag, server |-> server, port |-> 1,
                             user |-> "u", tls |-> "tls"])
Doc(form, entries, wrap) == [form |-> form, entries |-> entries, wrap |-> wrap]

\* Tags that collide with a group, with each other and with the renamed ones;
\* a notice; a list in base64; a prefixed list; a loose object, whose node dials
\* through a group and a DNS server that are not imported.
MCDocuments ==
    {Doc("clash", <<Ss("auto", "h"), Ss("a", "1.1.1.1"), Ss("node-a-3", "h"), Ss("a", "h")>>, "plain"),
     Doc("uri", <<Ss("", "0.0.0.0"), Ss("", "[v6]"), Vless("", "h")>>, "base64"),
     Doc("uri", <<Ss("a", "0.0.0.0")>>, "prefixed"),
     Doc("loose", <<Entry([kind |-> "selector", tag |-> "s"]),
                    Entry([kind |-> "http", tag |-> "x", server |-> "h", resolver |-> "dns_isp",
                           detour |-> "s"])>>, "plain")}
BlankDocuments == {Doc("uri", <<Vless("a", "h"), Vless(" ", "h")>>, "plain")}
\* A node with the name of an application group.
NamedDocuments == {Doc("uri", <<Ss("telegram", "h")>>, "plain")}

Rule(match, action, enabled) == [match |-> match, action |-> action, enabled |-> enabled]
MCRuleLists ==
    {<<>>, <<Rule("domain", "proxy", TRUE), Rule("cidr", "direct", FALSE),
             Rule("domain_keyword", "block", TRUE)>>}

\* The hypothesis of EveryTagResolves and EveryGroupOffersTheNodes, for the
\* numbers that the nodes of these documents can get.
Numbers == 0 .. 8
ASSUME \A list \in {DownloadedNodes(doc) : doc \in Documents \ NamedDocuments}
                  \cup {ManualNodes(doc) : doc \in Documents \ NamedDocuments} :
         \A tag \in {list[n].tag : n \in DOMAIN list} :
           /\ {tag} \cup {Numbered(tag, k) : k \in Numbers} \subseteq STRING \ GroupSet
           /\ \A j, k \in Numbers : Numbered(tag, j) = Numbered(tag, k) => j = k
=============================================================================
