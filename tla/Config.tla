------------------------------- MODULE Config -------------------------------
(***************************************************************************)
(* The configuration as src/config.rs and src/config/secrets.rs build it   *)
(* at start-up: built-in defaults merged with the operator's file, checked *)
(* against the shape of the defaults, templates formatted, the password    *)
(* resolved, and everything odd reported as a warning.                     *)
(*                                                                         *)
(* A YAML value is a record with one field that names its kind: null,      *)
(* bool, int, float, str, list or map (a function from keys).  A string is *)
(* the sequence of its tokens: the characters that the code looks at       *)
(* ("{", "}", "/", " ", "+" for the characters that no topic may contain)  *)
(* and words for the text in between.  The recursion of the code over the  *)
(* defaults is unrolled: defaults.yaml has three levels of keys.           *)
(***************************************************************************)
EXTENDS Collectors, SequencesExt, Integers

CONSTANT MaxInt      \* stands for u64::MAX, and MaxInt - 1 for u16::MAX
ASSUME MaxIntAssumption == MaxInt \in Nat /\ MaxInt >= 4

-----------------------------------------------------------------------------
(* Values.                                                                 *)

Null == [null |-> TRUE]
Bool(b) == [bool |-> b]
Num(n) == [int |-> n]
Float(class) == [float |-> class]   \* "tiny" < 0.1 <= "ok" < "huge", and "nan"
Str(tokens) == [str |-> tokens]
List(values) == [list |-> values]
Map(entries) == [map |-> entries]

Yes == Bool(TRUE)
No == Bool(FALSE)

NullKey == "~"       \* the key of a mapping entry that YAML reads as null

Is(kind, v) == kind \in DOMAIN v

\* value[key]: Null when there is no such entry, or no mapping.
At(v, key) == IF Is("map", v) /\ key \in DOMAIN v.map THEN v.map[key] ELSE Null

Keys(v) == IF Is("map", v) THEN DOMAIN v.map ELSE {}

\* dig, and whether there is something at the path at all.
Dig(v, path) ==
  LET node[n \in 0..Len(path)] == IF n = 0 THEN v ELSE At(node[n - 1], path[n])
  IN  node[Len(path)]

Has(v, path) == \A n \in DOMAIN path : path[n] \in Keys(Dig(v, SubSeq(path, 1, n - 1)))

\* as_str, as_sequence.
Textual(v) == Is("str", v) /\ v.str \in Seq(STRING)
Listed(v) == Is("list", v) /\ Len(v.list) \in Nat /\ DOMAIN v.list = 1..Len(v.list)

Text(v) == IF Is("str", v) THEN v.str ELSE <<>>
Number(v) == IF Is("int", v) THEN v.int ELSE 0
Fields(v) == IF Is("list", v) THEN [i \in DOMAIN v.list |-> Text(v.list[i])] ELSE <<>>

\* The strings that trim() leaves empty.
Blank(tokens) == \A i \in DOMAIN tokens : tokens[i] = " "

-----------------------------------------------------------------------------
(* defaults.yaml.                                                          *)

OnPrefix(topic) == Str(<<"{", "prefix", "}", "/">> \o topic)

TlsDefaults ==
  Map([enabled |-> No, ca_certs |-> Null, certfile |-> Null,
       keyfile |-> Null, insecure |-> No])

MqttDefaults ==
  Map([host |-> Str(<<"localhost">>), port |-> Num(1), client_id |-> Null,
       keepalive_secs |-> Num(3), username |-> Null, password |-> Null,
       password_file |-> Null, password_env |-> Str(<<"VARIABLE">>),
       qos |-> Num(0), retain |-> No, clean_session |-> Yes,
       reconnect_min_delay_secs |-> Num(1), reconnect_max_delay_secs |-> Num(2),
       recreate_client_after_secs |-> Num(3), publish_timeout_secs |-> Float("ok"),
       max_queued_messages |-> Num(2), tls |-> TlsDefaults])

TopicsDefaults ==
  Map([prefix |-> Str(<<"/", "{", "hostname", "}">>),
       status |-> OnPrefix(<<"status">>), json |-> OnPrefix(<<"json">>),
       payload_online |-> Str(<<"online">>), payload_offline |-> Str(<<"offline">>),
       status_retain |-> Yes])

ReportDefaults ==
  Map([interval_secs |-> Num(2), report_on_start |-> Yes,
       publish_plain |-> Yes, publish_json |-> Yes])

UptimeDefaults == Map([enabled |-> Yes, topic |-> OnPrefix(<<"uptime">>)])

MeminfoDefaults ==
  Map([enabled |-> Yes, topic |-> OnPrefix(<<"{", "name", "}">>),
       fields |-> List(<<Str(<<"MemTotal">>), Str(<<"MemFree">>)>>)])

MetricsDefaults == Map([uptime_minutes |-> UptimeDefaults, meminfo |-> MeminfoDefaults])

KnobsDefaults == Map([log_to_console |-> No, log_level_debug |-> No])

Defaults ==
  Map([mqtt |-> MqttDefaults, topics |-> TopicsDefaults, report |-> ReportDefaults,
       metrics |-> MetricsDefaults, knobs |-> KnobsDefaults])

WithKeys(paths) ==
  paths \cup UNION {{Append(p, k) : k \in Keys(Dig(Defaults, p))} : p \in paths}
Known == WithKeys(WithKeys(WithKeys({<<>>})))

Sections == {p \in Known : Is("map", Dig(Defaults, p))}
Knobs == Known \ Sections

-----------------------------------------------------------------------------
(* deep_merge.  An entry of the file meets one of the defaults: two        *)
(* mappings are merged, anything else is replaced whole.                   *)

\* *base = overlay; mutant: an entry left empty does not override the default.
NullKeepsDefault(base, overlay) == IF Is("null", overlay) THEN base ELSE overlay
Overrides(base, overlay) == overlay

\* One call, with what it makes of an entry that both sides have.
Merged(base, overlay, Entry(_, _)) ==
  IF Is("map", base) /\ Is("map", overlay)
  THEN Map([k \in DOMAIN base.map \cup DOMAIN overlay.map |->
              IF k \notin DOMAIN overlay.map THEN base.map[k]
              ELSE IF k \notin DOMAIN base.map THEN overlay.map[k]
              ELSE Entry(base.map[k], overlay.map[k])])
  ELSE Overrides(base, overlay)

MergeInner(base, overlay) == Merged(base, overlay, Overrides)
MergeSection(base, overlay) == Merged(base, overlay, MergeInner)
DeepMerge(overlay) == Merged(Defaults, overlay, MergeSection)

\* The paths deep_merge warns about, in the order-free form of a set.
Strange(base, overlay, path, Entry(_, _, _)) ==
  IF Is("map", base) /\ Is("map", overlay)
  THEN UNION {IF k \in DOMAIN base.map
              THEN Entry(base.map[k], overlay.map[k], Append(path, k))
              ELSE {Append(path, k)} : k \in DOMAIN overlay.map}
  ELSE {}

NothingStrange(base, overlay, path) == {}
StrangeInner(base, overlay, path) == Strange(base, overlay, path, NothingStrange)
StrangeSection(base, overlay, path) == Strange(base, overlay, path, StrangeInner)
Unknown(overlay) == Strange(Defaults, overlay, <<>>, StrangeSection)

-----------------------------------------------------------------------------
(* validate_shape and validate.                                            *)

IntRange(path) ==
  CASE path = <<"mqtt", "port">> -> 1..(MaxInt - 1)
    [] path = <<"mqtt", "keepalive_secs">> -> 2..(MaxInt - 1)
    [] path = <<"mqtt", "qos">> -> 0..2
    [] path \in {<<"mqtt", "recreate_client_after_secs">>, <<"mqtt", "max_queued_messages">>}
         -> 0..MaxInt
    [] OTHER -> 1..MaxInt

\* The shape a default asks for, at a path below which there are no others.
LeafShape(v, default, path) ==
  CASE Is("null", default)  -> Is("null", v) \/ (Textual(v) /\ ~Blank(v.str))
    [] Is("bool", default)  -> Is("bool", v)
    [] Is("float", default) -> \/ Is("float", v) /\ v.float \in {"ok", "huge"}
                               \/ Is("int", v) /\ v.int >= 1
    [] Is("int", default)   -> Is("int", v) /\ v.int \in IntRange(path)
    [] Is("str", default)   ->
         \/ path = <<"mqtt", "password_env">> /\ Is("null", v)
         \/ Textual(v) /\ (path = <<"topics", "prefix">> \/ ~Blank(v.str))
    [] Is("list", default)  ->
         /\ Listed(v) /\ Len(v.list) # 0
         /\ \A i \in DOMAIN v.list : Textual(v.list[i]) /\ ~Blank(v.list[i].str)

\* The recursion over the defaults visits each of their paths.
Shape(v) ==
  /\ \A p \in Sections : Is("map", Dig(v, p))
  /\ \A p \in Knobs : LeafShape(Dig(v, p), Dig(Defaults, p), p)

\* check_topic.
Publishable(topic) == topic # <<>> /\ ~Contains(topic, "+")

Topics == {<<"topics", "status">>, <<"topics", "json">>,
           <<"metrics", "uptime_minutes", "topic">>, <<"metrics", "meminfo", "topic">>}

\* str::contains("{name}"), on the text of the template.
NamesField(template) ==
  \E i \in DOMAIN template : i + 2 <= Len(template)
                             /\ SubSeq(template, i, i + 2) = <<"{", "name", "}">>

DelaysOrdered(data) ==
  Number(Dig(data, <<"mqtt", "reconnect_min_delay_secs">>))
    <= Number(Dig(data, <<"mqtt", "reconnect_max_delay_secs">>))

Off(data, path) == Dig(data, path) = No

Valid(data) ==
  /\ Shape(data)
  /\ DelaysOrdered(data)
  /\ \A p \in Topics : Publishable(Text(Dig(data, p)))
  /\ NamesField(Text(Dig(data, <<"metrics", "meminfo", "topic">>)))
  /\ ~(Off(data, <<"metrics", "uptime_minutes", "enabled">>)
       /\ Off(data, <<"metrics", "meminfo", "enabled">>))
  /\ ~(Off(data, <<"report", "publish_plain">>) /\ Off(data, <<"report", "publish_json">>))

-----------------------------------------------------------------------------
(* format_template, a scanner with one token of lookahead.  A result is    *)
(* [text |-> tokens], or Failed.                                           *)

Failed == [failed |-> TRUE]
Ok(result) == Is("text", result)

\* What is left to scan and what is written once a placeholder is replaced;
\* mutant: the value is scanned in its turn.
Rescanned(value, rest, written) == [rest |-> value \o rest, written |-> written]
Emitted(value, rest, written) == [rest |-> rest, written |-> written \o value]

\* One turn of the loop: what is left to scan, and what is written.
Scan(state, values) ==
  LET rest == state.rest
      c == Head(rest)
      close == SelectInSeq(rest, LAMBDA token : token = "}")
      doubled == Len(rest) > 1 /\ rest[2] = c
      field == SubSeq(rest, 2, close - 1)
  IN  IF state = Failed \/ rest = <<>> THEN state
      ELSE CASE c \in {"{", "}"} /\ doubled ->
                  [rest |-> SubSeq(rest, 3, Len(rest)), written |-> Append(state.written, c)]
             [] c = "{" /\ ~doubled ->
                  IF close = 0 \/ Len(field) # 1 \/ field[1] \notin DOMAIN values
                  THEN Failed
                  ELSE Emitted(values[field[1]], SubSeq(rest, close + 1, Len(rest)),
                               state.written)
             [] c = "}" /\ ~doubled -> Failed
             [] OTHER -> [rest |-> Tail(rest), written |-> Append(state.written, c)]

\* A turn takes one token at least.  values gives hostname, prefix and, for a
\* meminfo topic only, name.
FormatTemplate(template, values) ==
  LET after[n \in 0..Len(template)] ==
        IF n = 0 THEN [rest |-> template, written |-> <<>>] ELSE Scan(after[n - 1], values)
      end == after[Len(template)]
  IN  IF end = Failed THEN Failed ELSE [text |-> end.written]

\* trim_end_matches('/'); mutant: strip_suffix, one slash only.
TrimOne(text) == IF text # <<>> /\ Last(text) = "/" THEN Front(text) ELSE text
TrimSlashes(text) ==
  SubSeq(text, 1, CHOOSE n \in 0..Len(text) : /\ n = 0 \/ text[n] # "/"
                                              /\ \A i \in (n + 1)..Len(text) : text[i] = "/")

\* check_topic on a formatted topic.
Sendable(topic) == IF Ok(topic) /\ Publishable(topic.text) THEN topic ELSE Failed
Topic(data, path, values) == Sendable(FormatTemplate(Text(Dig(data, path)), values))

MeminfoTopic(cfg, field) ==
  Topic(cfg.data, <<"metrics", "meminfo", "topic">>,
        [hostname |-> cfg.hostname, prefix |-> cfg.prefix, name |-> MeminfoTopicName(field)])

-----------------------------------------------------------------------------
(* secrets::resolve.  A password is known by where it comes from.  The     *)
(* site is what surrounds the process: a variable of its environment, the  *)
(* file that password_file names, HOME, and the configuration file.        *)

Expands(filename, site) == Head(filename) # "~" \/ site.home
SecretFile(filename, site) ==
  IF filename = <<"~">> THEN "missing" ELSE site.secret   \* a directory, not a file

Resolve(mqtt, site) ==
  LET filename == At(mqtt, "password_file")
  IN  CASE Is("str", filename) ->
             IF ~Expands(filename.str, site)
                \/ SecretFile(filename.str, site) \in {"missing", "blank"}
             THEN Failed
             ELSE [password |-> "file",
                   warnings |-> IF site.secret = "open" THEN {"secret mode"} ELSE {}]
        [] ~Is("str", filename) /\ Is("str", At(mqtt, "password_env")) /\ site.variable = "set" ->
             [password |-> "env", warnings |-> {}]
        [] OTHER ->
             IF Is("str", At(mqtt, "password"))
             THEN [password |-> "inline", warnings |-> {"inline"}]
             ELSE [password |-> "none", warnings |-> {}]

-----------------------------------------------------------------------------
(* Config::from_yaml and load.  file is the parsed document after YAML     *)
(* merge keys, [garbled |-> TRUE] when it cannot be parsed.                *)

Garbled == [garbled |-> TRUE]
Rejected == [rejected |-> TRUE]

PasswordWarnings(data, password) ==
  LET tls == Dig(data, <<"mqtt", "tls">>)
  IN  (IF Is("str", Dig(data, <<"mqtt", "username">>)) /\ password = "none"
       THEN {"no password"} ELSE {})
      \cup (IF At(tls, "enabled") = Yes /\ At(tls, "insecure") = Yes
            THEN {"insecure"} ELSE {})
      \cup (IF At(tls, "enabled") = No /\ password # "none"
            THEN {"clear text"} ELSE {})

TopicsUnder(data, hostname, prefix) ==
  LET values == [hostname |-> hostname, prefix |-> prefix]
  IN  [prefix |-> prefix,
       status |-> Topic(data, <<"topics", "status">>, values),
       json |-> Topic(data, <<"topics", "json">>, values),
       uptime |-> Topic(data, <<"metrics", "uptime_minutes", "topic">>, values)]

Assembled(data, hostname, topics, secret) ==
  IF secret = Failed \/ \E t \in {"status", "json", "uptime"} : ~Ok(topics[t])
  THEN Rejected
  ELSE [data |-> data, hostname |-> hostname, prefix |-> topics.prefix,
        status_topic |-> topics.status.text, json_topic |-> topics.json.text,
        uptime_topic |-> topics.uptime.text, password |-> secret.password, unknown |-> {},
        warnings |-> secret.warnings \cup PasswordWarnings(data, secret.password)]

\* The configuration of valid data, and whether it can be used.
Resolved(data, hostname, site) ==
  LET formatted == FormatTemplate(Text(Dig(data, <<"topics", "prefix">>)),
                                  [hostname |-> hostname, prefix |-> <<>>])
  IN  IF ~Ok(formatted) THEN Rejected
      ELSE Assembled(data, hostname, TopicsUnder(data, hostname, TrimSlashes(formatted.text)),
                     Resolve(At(data, "mqtt"), site))

MeminfoFields(cfg) == Fields(Dig(cfg.data, <<"metrics", "meminfo", "fields">>))

\* The fields whose topics are formatted at start-up; mutant: one stands for all.
OnlyFirst(cfg) == <<MeminfoFields(cfg)[1]>>
Rehearsed(cfg) == MeminfoFields(cfg)

Checked(cfg, unknown) ==
  IF cfg # Rejected /\ \A i \in DOMAIN Rehearsed(cfg) : Ok(MeminfoTopic(cfg, Rehearsed(cfg)[i]))
  THEN [cfg EXCEPT !.unknown = unknown]
  ELSE Rejected

FromYaml(file, hostname, site) ==
  LET data == DeepMerge(IF Is("null", file) THEN Map(<<>>) ELSE file)
  IN  IF (Is("map", file) \/ Is("null", file)) /\ Valid(data)
      THEN Checked(Resolved(data, hostname, site), Unknown(file))
      ELSE Rejected

\* What load adds to the warnings of a configuration; mutant: the mode of the
\* file is looked at before it is known where the password comes from.
WarnedEarly(cfg, site) ==
  IF cfg = Rejected THEN cfg
  ELSE [cfg EXCEPT !.warnings = @ \cup (IF site.config = "absent" THEN {"no file"} ELSE {})]
Warned(cfg, site) ==
  IF cfg = Rejected THEN cfg
  ELSE [cfg EXCEPT !.warnings =
          @ \cup (IF site.config = "open" /\ "inline" \in @ THEN {"config mode"} ELSE {})
            \cup (IF site.config = "absent" THEN {"no file"} ELSE {})]

\* Only the default path may be absent; explicit says that another was given.
Load(file, hostname, site, explicit) ==
  IF site.config = "unreadable" \/ (site.config = "absent" /\ explicit) THEN Rejected
  ELSE Warned(FromYaml(IF site.config = "absent" THEN Null ELSE file, hostname, site), site)
=============================================================================
