----------------------------- MODULE MCStartup -----------------------------
(***************************************************************************)
(* Every upstream proxy alone, and pairs of sound ones, with one inbound   *)
(* configured; and every choice of listeners on two addresses without      *)
(* upstream proxies.                                                       *)
(***************************************************************************)
EXTENDS Startup, TLC

Proxies ==
  [protocol : {"http", "socks4", "socks5", "quic"}, layer : {Empty, "tls", "ssl"}, server : {"good", "bad"},
   user : Credentials, password : Credentials \ {Empty}]

Sound ==
  {p \in Proxies : p.layer = "tls" /\ p.server = "good" /\ p.protocol \in {"http", "socks5"}
                    /\ p.user \in {"absent", "good"} /\ p.password # "bad"}

Lists == {<<>>, <<"a">>, <<"a", "b">>, <<"a", "a">>}

Listen(h, t, d) == "http" :> h @@ "tproxy" :> t @@ "dns" :> d

MCConfigs ==
  [proxies : {<<p>> : p \in Proxies} \cup (Sound \X Sound), listen : {Listen(<<"a">>, <<>>, <<>>)}, redir : {TRUE}]
    \cup
  [proxies : {<<>>}, listen : {Listen(h, t, d) : h, t, d \in Lists}, redir : BOOLEAN]
=============================================================================
