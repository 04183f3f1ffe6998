-------------------------------- MODULE MCAttach --------------------------------
(* Attach for TLC: attach strings of the documented form from fields that   *)
(* hold the parser's own marks where the form allows them, with options,    *)
(* variables and both.                                                      *)
EXTENDS Attach

AllWords == Fields \cup Schemes \cup
    {"FB://", "localhost", "SYSDBA", "UTF8", "scott", "SCOTT", "ann", "ANN", "tiger",
     "server", "other", "WIN1252", "3051", "65535", "65536", "no", "1",
     "a", "b", "h", "x", "y", "C"}
UpperCase == "scott" :> "SCOTT" @@ "ann" :> "ANN"
LowerCase == "FB://" :> "fb://"
Numbers   == "3051" :> 3051 @@ "65535" :> 65535 @@ "65536" :> 65536

Optionally(field, texts) == {<<>>} \cup {field :> text : text \in texts}

Attachable ==
    {u @@ w @@ h @@ p @@ b @@ c :
       u \in Optionally("user", {<<"scott">>, <<Quote, "scott", Quote>>}),
       w \in Optionally("password", {<<"tiger">>, <<"a", ":", "b">>, <<"a", "/", "b">>}),
       h \in {"host" :> host : host \in {<<"server">>, <<"h">>, <<":", ":", "1">>}},
       p \in Optionally("port", {<<"3051">>, <<"65536">>, <<"no">>}),
       b \in {"database" :> db : db \in {<<"x">>, <<"/", "x">>, <<"C", ":", "x">>,
                                        <<"a", "@", "b">>}},
       c \in Optionally("charset", {<<"WIN1252">>})}

Options == {<<>>, "user" :> <<"ann">> @@ "username" :> <<"scott">>,
            "pass" :> <<>>, "port" :> <<"65535">>, "port" :> <<"no">>,
            "host" :> <<"other">> @@ "db" :> <<"y">>, "database" :> <<>>}

NoEnv  == [f \in Fields |-> <<>>]
AllEnv == [f \in Fields |-> CASE f = "port" -> <<"3051">> [] OTHER -> <<"ann">>]
Variables == {NoEnv, AllEnv, [AllEnv EXCEPT !["port"] = <<"ann">>]}
================================================================================
