------------------------------ MODULE MCReports ------------------------------
(***************************************************************************)
(* The inputs on which TLC checks Reports.                                 *)
(***************************************************************************)
EXTENDS Reports

CONSTANT MaxTemplate   \* longest meminfo topic that is enumerated

\* Every source of a password at every mode of the files, under a plain host
\* name; and the other names and missing files one at a time.
Usual == [variable |-> "absent", secret |-> "missing", home |-> TRUE,
          config |-> "private", explicit |-> FALSE, hostname |-> <<"box">>]
Host(name) == [Usual EXCEPT !.hostname = name]
MCLoneSites == {Usual, Host(<<"{", "prefix", "}">>)}
MCSites ==
  MCLoneSites
  \cup {[Usual EXCEPT !.variable = v, !.secret = s, !.config = c] :
          v \in {"absent", "set"}, s \in {"missing", "blank", "private", "open"},
          c \in {"private", "open"}}
  \cup {Host(<<"}">>), Host(<<>>), [Usual EXCEPT !.variable = "blank"],
        [Usual EXCEPT !.secret = "private", !.home = FALSE]}
  \cup {[Usual EXCEPT !.config = c, !.explicit = e] : c \in {"absent", "unreadable"}, e \in BOOLEAN}

At_(path, values) == {[path |-> path, value |-> v] : v \in values}
Texts(texts) == {Str(t) : t \in texts}
Secret == Str(<<"hush">>)

MCEdits ==
  UNION {
    At_(<<"mqtt">>, {Null, Map(<<>>)}),
    At_(<<"mqtt", "username">>, Texts({<<"user">>})),
    At_(<<"mqtt", "password">>, {Secret, Null, List(<<Secret>>)}),
    At_(<<"mqtt", "password_file">>, Texts({<<"file">>, <<"~", "/", "file">>, <<"~">>})),
    At_(<<"mqtt", "password_env">>, {Null}),
    At_(<<"mqtt", "qos">>, {Num(2), Num(3)}),
    At_(<<"mqtt", "reconnect_min_delay_secs">>, {Num(3)}),
    At_(<<"mqtt", "reconnect_max_delay_secs">>, {Num(1), Num(3)}),
    At_(<<"mqtt", "publish_timeout_secs">>, {Num(1), Float("huge"), Float("nan")}),
    At_(<<"mqtt", "tls">>,
        {Bool(TRUE), Map([enabled |-> Bool(TRUE)]),
         Map([enabled |-> Bool(TRUE), certfile |-> Str(<<"cert">>)])}),
    At_(<<"mqtt", "tls", "keyfile">>, Texts({<<"key">>})),
    At_(<<"mqtt", "tls", "ca_certs">>, Texts({<<"ca">>})),
    At_(<<"mqtt", "tls", "insecure">>, {Bool(TRUE)}),
    At_(<<"mqtt", "pasword">>, {Secret}),
    At_(<<"old">>, {List(<<Map([password |-> Secret])>>), Map([password |-> List(<<Secret>>)])}),
    At_(<<"old", "deep", "password">>, {Secret}),
    At_(<<NullKey>>, {Secret}),
    At_(<<"topics", "prefix">>,
        Texts({<<>>, <<"{", "hostname", "}", "/", "/">>, <<"{", "prefix", "}">>})),
    At_(<<"topics", "status">>,
        Texts({<<"{", "hostname", "}">>, <<"{", "{", "x", "}", "}">>, <<"{", "name", "}">>})),
    At_(<<"topics", "json">>, Texts({<<"a", "+">>, <<"{", "prefix", "}">>})),
    At_(<<"report", "publish_plain">>, {Bool(FALSE)}),
    At_(<<"report", "publish_json">>, {Bool(FALSE)}),
    At_(<<"metrics", "uptime_minutes", "enabled">>, {Bool(FALSE)}),
    At_(<<"metrics", "meminfo", "enabled">>, {Bool(FALSE)}),
    At_(<<"metrics", "meminfo", "topic">>, Texts({<<"{", "hostname", "}", "{", "name", "}">>})),
    At_(<<"metrics", "meminfo", "fields">>,
        {List(<<Str(<<"MemFree">>), Str(<<"MemTotal">>), Str(<<"MemFree">>)>>),
         List(<<Str(<<"MemTotal">>), Str(<<"Odd", "+">>)>>), List(<<Str(<<"Absent">>)>>)})}

\* Every knob and section with a value of every kind, at the edges of its
\* range, and every meminfo topic over the tokens that templates are made of.
Oddities == {Null, Bool(TRUE), Num(-1), Num(0), Num(1), Num(MaxInt), Num(MaxInt + 1),
             Float("tiny"), Float("ok"), Str(<<" ">>), Str(<<"x">>), List(<<>>),
             List(<<Null>>), Map(<<>>)}
Templates == UNION {[1..n -> {"{", "}", "name"}] : n \in 0..MaxTemplate}

MCLoneEdits ==
  UNION {At_(path, Oddities) : path \in Knobs \cup Sections}
  \cup At_(<<"metrics", "meminfo", "topic">>, Texts(Templates)) \cup At_(<<>>, {Garbled})

Line(key, value) == [key |-> <<key>>, colon |-> TRUE, value |-> value]
Lines == {Line("MemTotal", [num |-> 1]), Line("MemTotal", [num |-> 2]),
          Line("MemFree", [num |-> 3]), Line("MemFree", [word |-> "none"]),
          [key |-> <<"MemTotal">>, colon |-> FALSE, value |-> [num |-> 4]],
          [key |-> <<"Odd", "+">>, colon |-> TRUE, value |-> [num |-> 5]]}
Uptimes == {Unreadable} \cup
  {[text |-> t] : t \in {<<>>, <<[word |-> "NaN"]>>, <<[word |-> "soon"], [num |-> 60]>>,
                         <<[num |-> -1]>>, <<[num |-> 59], [num |-> 0]>>,
                         <<[num |-> 120]>>, <<[num |-> MaxSeconds]>>}}
Block(kind, text) == <<Begin(kind), Words(text), End(kind)>>
Leaf == Block("CERTIFICATE", "leaf")
Chain == Leaf \o Block("CERTIFICATE", "issuer")
Key == Block("PRIVATE KEY", "key")
MCBundles == {<<>>, Leaf, Chain, Key, Chain \o Key, Key \o <<Words("note")>> \o Chain,
              Leaf \o Key \o Leaf, Block("RSA PRIVATE KEY", "key") \o Chain,
              Key \o <<Begin("CERTIFICATE"), Words("leaf")>>,
              <<End("CERTIFICATE")>> \o Chain}
Memories == {Unreadable} \cup {[text |-> t] : t \in UNION {[1..n -> Lines] : n \in 0..2}}
Proc(u, m) == [uptime |-> u, meminfo |-> m, hostname |-> <<>>]
MCProcs ==
  LET plenty == [text |-> <<Line("MemFree", [num |-> 3]), Line("MemTotal", [num |-> 1])>>]
      hour == [text |-> <<[num |-> 120]>>]
  IN  {Proc(u, m) : u \in Uptimes, m \in {Unreadable, plenty}}
      \cup {Proc(u, m) : u \in {Unreadable, hour}, m \in Memories}
      \cup {[Proc(hour, plenty) EXCEPT !.hostname = <<<<"box">>>>]}
=============================================================================
