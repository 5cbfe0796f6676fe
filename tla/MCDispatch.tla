----------------------------- MODULE MCDispatch -----------------------------
EXTENDS Dispatch

At(n, p) == [name |-> n, port |-> p]
Entry(scheme, host, port, root, mtls) == [scheme |-> scheme, host |-> host, port |-> port, root |-> root, mtls |-> mtls]
Db(kind, down, far, downTls, upTls, mtls) ==
  [kind |-> kind, down |-> down, up |-> far, downTls |-> downTls, upTls |-> upTls, mtls |-> mtls]

MCGrants ==
  <<[kind |-> "token", allow |-> <<Entry("https", "a", 443, "bundle", FALSE), Entry("http", "a", 8080, NoName, FALSE),
                                   Entry("tcp", "ip_a", 8080, NoName, FALSE), Entry("https", "b", 443, NoName, TRUE),
                                   Entry("tcp", "ip_a", 9000, NoName, FALSE), Entry("https", "*", 22, NoName, FALSE),
                                   Entry("ssh", "b", 8080, NoName, FALSE)>>],
    Db("redis", At("a", 6379), At("far1", 6379), TRUE, TRUE, FALSE),
    Db("redis", At("b", 6379), At("far2", 6379), TRUE, FALSE, FALSE),
    Db("redis", At("a", 6380), At("far3", 6380), TRUE, FALSE, TRUE),
    Db("redis", At("a", 6381), At("far4", 6381), FALSE, TRUE, FALSE),
    Db("postgres", At("b", 5432), At("far5", 5432), FALSE, TRUE, TRUE),
    [kind |-> "ssh", allow |-> <<Entry("ssh", "a", 22, NoName, FALSE)>>]>>

Hellos == {<<Part("tls"), Hello("a"), Data(1)>>, <<Hello("b"), Data(1)>>, <<Hello(NoName), Data(1)>>, <<Part("tls"), Part("tls"), Part("tls"), Data(1)>>}
Others == {<<Part("http"), Request("GET", At(NoName, 0), At("a", 0)), Data(1)>>, <<Request("GET", At(NoName, 0), At("b", 80)), Data(1)>>,
           <<Part("ssh"), Banner, Data(1)>>, <<Part("ssh"), Data(1)>>, <<Data(1), Data(2)>>}
Payloads == Hellos \cup Others
Ports == {443, 8080, 6379, 6380, 6381, 5432, 22, 80}

(* Only some scopes ask a guest for its certificate. *)
Certs(port) == IF port \in {443, 6380, 5432} THEN {"ours", "none"} ELSE {"none"}
Connects == [via : {"explicit"}, name : {"a", "b"}, port : Ports, cert : {"ours", "none"}, body : Payloads]
Proxied == {[via |-> "explicit", name |-> c.name, port |-> c.port, cert |-> c.cert,
             script |-> <<Part("http"), Request("CONNECT", At(c.name, c.port), At(NoName, 0))>> \o c.body] : c \in {d \in Connects : d.cert \in Certs(d.port) /\ (d.name = "b" => d.port \notin {6380, 6381, 80})}}
Forwarded == {[via |-> "explicit", name |-> n, port |-> p, cert |-> "none", script |-> <<Request("GET", At(n, p), At(n, p)), Data(1)>>]
              : n \in {"a", "b", "bad", NoName}, p \in {80, 8080}}
             \cup {[via |-> "explicit", name |-> "a", port |-> 0, cert |-> "none", script |-> s]
                   : s \in {<<Data(1), Request("GET", At("a", 80), At("a", 80))>>, <<Part("http"), Part("http"), Part("http"), Part("http")>>}}
Captured == {o \in [via : {"captured"}, name : {"ip_a"}, port : Ports \ {80}, cert : {"ours", "none"}, script : Payloads]
             : o.cert \in Certs(o.port)}
            \cup {[via |-> "captured", name |-> "ip_a", port |-> 9000, cert |-> "none", script |-> s]
                  : s \in {<<Data(1), Data(2)>>, <<Hello("a"), Data(1)>>}}

MCOpens == Proxied \cup Forwarded \cup Captured
(* The leaf caches are the databases': two connections of those arms are   *)
(* enough to meet each other's leaves.                                     *)
MCLeafOpens == {o \in Proxied \cup Captured : o.port \in {6379, 6380, 5432} /\ Len(o.script) > 1}
=============================================================================
