------------------------------- MODULE Reports -------------------------------
(***************************************************************************)
(* From the operator's file to the published report: a file is edited, the *)
(* process loads it (main.rs), prints it or serves it, and every report    *)
(* reads /proc and turns what it finds into messages (reporter.rs).  What  *)
(* the loop and the publisher do with the messages is the subject of       *)
(* Reporter, Daemon and MqttClient.                                        *)
(***************************************************************************)
EXTENDS Printing, TlsIdentity, FiniteSets

CONSTANTS
  Sites,      \* what surrounds the process when it starts
  Edits,      \* entries [path, value] an operator may set, MaxEdits of them
  LoneEdits,  \* entries that are only tried in a file without any other,
  LoneSites,  \* and on these sites
  Procs,      \* what the two files of /proc and the system may answer
  Bundles,    \* what the files of mqtt.tls may hold when they can be read
  MaxEdits

ASSUME EditsAssumption == MaxEdits \in Nat \ {0} /\ LoneSites \subseteq Sites
ASSUME ValuesAssumption ==
  \A entry \in Edits \cup LoneEdits :
    /\ entry.path \in Seq(STRING)
    /\ \E kind \in {"null", "bool", "int", "float", "str", "list", "map", "garbled"} :
         DOMAIN entry.value = {kind}
    /\ \A v \in Nodes(entry.value) : Is("null", v) => v = Null
    /\ Len(entry.path) <= MaxDepth /\ Shallow(entry.value, MaxDepth - Len(entry.path))
ASSUME SitesAssumption ==
  Sites \subseteq [variable : {"absent", "blank", "set"},
                   secret : {"missing", "blank", "private", "open"}, home : BOOLEAN,
                   config : {"absent", "unreadable", "private", "open"}, explicit : BOOLEAN,
                   hostname : Seq(STRING)]
ASSUME ProcsAssumption ==
  Procs \subseteq [uptime : {Unreadable} \cup [text : Seq(ProcWords)],
                   meminfo : {Unreadable} \cup [text : Seq(ProcLines)],
                   hostname : Seq(Seq(STRING))]
ASSUME BundlesAssumption == Bundles \subseteq Seq([mark : {"begin", "end", "text"}, kind : STRING])

VARIABLES
  phase,      \* how far the process is
  file,       \* the document of the configuration file
  edits,      \* how many entries of it were set
  site,
  cfg,        \* the loaded Config, Rejected before
  out         \* what was printed or reported last
vars == <<phase, file, edits, site, cfg, out>>

Nothing == [nothing |-> TRUE]

Init ==
  /\ phase = "editing" /\ file = Null /\ edits = 0
  /\ site \in Sites
  /\ cfg = Rejected /\ out = Nothing

-----------------------------------------------------------------------------
(* The operator.                                                           *)

\* The value at the last key of the path first, then the mappings above it.
Put(v, path, value) ==
  LET put[n \in 0..Len(path)] ==
        IF n = 0 THEN value
        ELSE LET i == Len(path) - n + 1
                 above == Dig(v, SubSeq(path, 1, i - 1))
             IN  Map([k \in Keys(above) \cup {path[i]} |->
                        IF k = path[i] THEN put[n - 1] ELSE above.map[k]])
  IN  put[Len(path)]

Set(entry, count) ==
  /\ phase = "editing" /\ site.config \in {"private", "open"}
  /\ file' = Put(file, entry.path, entry.value)
  /\ edits' = count
  /\ UNCHANGED <<phase, site, cfg, out>>

Edit == edits < MaxEdits /\ \E entry \in Edits : Set(entry, edits + 1)
EditAlone == edits = 0 /\ site \in LoneSites /\ \E entry \in LoneEdits : Set(entry, MaxEdits)

-----------------------------------------------------------------------------
(* Start-up: load, and what is taken from the accepted configuration       *)
(* without looking whether it is there.                                    *)

Step(before, after) == phase = before /\ phase' = after

LoadConfig ==
  /\ phase = "editing"
  /\ cfg' = Load(file, site.hostname, site, site.explicit)
  /\ phase' = IF cfg' = Rejected THEN "rejected" ELSE "loaded"
  /\ UNCHANGED <<file, edits, site, out>>

\* hostname::get fails.
Nameless == Step("editing", "nameless") /\ UNCHANGED <<file, edits, site, cfg, out>>

Unwrapped(kind, section, keys) == {[kind |-> kind, path |-> Append(section, k)] : k \in keys}

ReporterUnwraps ==
  Unwrapped("int", <<"report">>, {"interval_secs"})
  \cup Unwrapped("bool", <<"report">>, {"report_on_start", "publish_plain", "publish_json"})
  \cup Unwrapped("bool", <<"metrics", "uptime_minutes">>, {"enabled"})
  \cup Unwrapped("bool", <<"metrics", "meminfo">>, {"enabled"})
  \cup Unwrapped("list", <<"metrics", "meminfo">>, {"fields"})
  \cup Unwrapped("str", <<"metrics", "meminfo">>, {"topic"})

PublisherUnwraps ==
  Unwrapped("str", <<"mqtt">>, {"host"})
  \cup Unwrapped("int", <<"mqtt">>,
         {"port", "keepalive_secs", "qos", "recreate_client_after_secs",
          "reconnect_min_delay_secs", "reconnect_max_delay_secs", "max_queued_messages"})
  \cup Unwrapped("bool", <<"mqtt">>, {"clean_session", "retain"})
  \cup Unwrapped("bool", <<"mqtt", "tls">>, {"enabled", "insecure"})
  \cup Unwrapped("str", <<"topics">>, {"payload_online", "payload_offline"})
  \cup Unwrapped("bool", <<"topics">>, {"status_retain"})

Panics(data, unwraps) == \E u \in unwraps : ~Is(u.kind, Dig(data, u.path))

\* publish_timeout_secs may be written as an integer.
Timeout(data) == Dig(data, <<"mqtt", "publish_timeout_secs">>)
NoTimeout(data) == ~Is("float", Timeout(data)) /\ ~Is("int", Timeout(data))

\* What the reporter reads of the configuration; the rest is done with.
Served ==
  [cfg EXCEPT
     !.data = Map([report |-> Map([k \in {"publish_plain", "publish_json"} |->
                                     At(At(cfg.data, "report"), k)]),
                   metrics |-> At(cfg.data, "metrics")]),
     !.status_topic = <<>>, !.password = "none", !.warnings = {}, !.unknown = {}]

Serve(unwraps, mode) ==
  /\ Step("loaded", IF Panics(cfg.data, unwraps) THEN "panicked" ELSE mode)
  /\ cfg' = Served /\ file' = Null /\ edits' = 0
  /\ site' = [hostname |-> site.hostname]

\* --print-config: the configuration is shown, and the process ends.
PrintConfig ==
  /\ Step("loaded", IF HasNullKey(Redact(cfg.data)) THEN "unprinted" ELSE "printed")
  /\ out' = [printed |-> Redact(cfg.data)]
  /\ UNCHANGED <<file, edits, site, cfg>>

DryRun == Serve(ReporterUnwraps, "dry run") /\ UNCHANGED out

\* The files that mqtt.tls names, each with what it holds.
Tls == Dig(cfg.data, <<"mqtt", "tls">>)
Named(knob) == At(Tls, "enabled") = Yes /\ Is("str", At(Tls, knob))
Keyfile == IF Named("keyfile") THEN "keyfile" ELSE "certfile"

FilesRead == {knob \in {"ca_certs", "certfile", "keyfile"} :
                Named(knob) /\ (knob = "keyfile" => Named("certfile"))}

Unusable(files) ==
  \/ Named("ca_certs") /\ Anchors(files["ca_certs"]) = Invalid
  \/ Named("certfile") /\ Identity(files["certfile"], files[Keyfile]) = Invalid

\* Publisher::new: a timeout no Duration holds, or a TLS file that cannot be
\* read or used, ends the process.
Start ==
  /\ phase = "loaded"
  /\ \/ \E files \in [FilesRead -> Bundles] :
          /\ Serve(ReporterUnwraps \cup PublisherUnwraps,
                   IF NoTimeout(cfg.data) THEN "panicked"
                   ELSE IF Unusable(files) \/ Timeout(cfg.data) = Float("huge")
                   THEN "refused" ELSE "serving")
          /\ out' = IF Named("certfile") /\ ~Unusable(files)
                    THEN [files |-> [certfile |-> files["certfile"], keyfile |-> files[Keyfile]],
                          identity |-> Identity(files["certfile"], files[Keyfile])]
                    ELSE Nothing
     \/ FilesRead # {} /\ Serve(PublisherUnwraps, "refused") /\ UNCHANGED out

-----------------------------------------------------------------------------
(* Reporter::collect, messages_for and the part of report_once that makes  *)
(* the messages.                                                           *)

Enabled(metric) == Dig(cfg.data, <<"metrics", metric, "enabled">>) = Yes
Publishes(form) == Dig(cfg.data, <<"report", form>>) = Yes

Options ==
  [fields |-> MeminfoFields(cfg), want_uptime |-> Enabled("uptime_minutes"),
   want_meminfo |-> Enabled("meminfo"), hostname |-> cfg.hostname]

PlainMessages(snapshot) ==
  (IF Enabled("uptime_minutes")
   THEN [i \in DOMAIN snapshot.uptime_minutes |->
           [topic |-> [text |-> cfg.uptime_topic], payload |-> snapshot.uptime_minutes[i]]]
   ELSE <<>>)
  \o (IF Enabled("meminfo")
      THEN [i \in DOMAIN snapshot.meminfo |->
              [topic |-> MeminfoTopic(cfg, snapshot.meminfo[i][1]),
               payload |-> snapshot.meminfo[i][2]]]
      ELSE <<>>)

MessagesFor(snapshot) ==
  [plain |-> IF Publishes("publish_plain") THEN PlainMessages(snapshot) ELSE <<>>,
   json |-> IF Publishes("publish_json")
            THEN <<[topic |-> cfg.json_topic,
                      payload |-> ToJsonDict(snapshot)]>>
            ELSE <<>>]

Report ==
  \E proc \in Procs :
    LET snapshot == Collect(Options, proc)
        messages == MessagesFor(snapshot)
        failed == \E i \in DOMAIN messages.plain : ~Ok(messages.plain[i].topic)
    IN  /\ \/ phase = "dry run" /\ phase' = IF failed THEN "unreported" ELSE "reported once"
           \/ phase = "serving" /\ phase' = IF failed THEN "unreported" ELSE "reported"
        /\ out' = [proc |-> proc, logged |-> snapshot.errors,
                   plain |-> messages.plain, json |-> messages.json]
        /\ UNCHANGED <<file, edits, site, cfg>>

Wait == Step("reported", "serving") /\ out' = Nothing /\ UNCHANGED <<file, edits, site, cfg>>

Next ==
  Edit \/ EditAlone \/ LoadConfig \/ Nameless \/ PrintConfig \/ DryRun \/ Start \/ Report \/ Wait

Spec == Init /\ [][Next]_vars

-----------------------------------------------------------------------------
(* Properties.                                                             *)

\* Every phase is one the program can be in, and the topics of an accepted
\* configuration are ones a broker takes: not empty, without wildcards, and
\* under a prefix without a slash at its end.
TypeOK ==
  /\ phase \in {"editing", "nameless", "rejected", "loaded", "refused", "panicked",
                "dry run", "serving", "reported once", "reported", "unreported",
                "printed", "unprinted"}
  /\ edits \in 0..MaxEdits
  /\ (cfg = Rejected) <=> (phase \in {"editing", "nameless", "rejected"})
  /\ cfg # Rejected =>
       /\ cfg.prefix = <<>> \/ Last(cfg.prefix) # "/"
       /\ Publishable(cfg.json_topic) /\ Publishable(cfg.uptime_topic)
       /\ phase = "loaded" => Publishable(cfg.status_topic)

\* An accepted configuration has, for every knob, what the file says if it
\* says anything and the default otherwise, however the file's sections and
\* the defaults' overlap; an unknown key of a section is kept for
\* --print-config, with everything below it, and warned about (deep_merge
\* with validate_shape behind it).
KnobsEffective ==
  LET odd == UNION {{Append(section, k) :
                       k \in Keys(Dig(file, section)) \ Keys(Dig(Defaults, section))} :
                    section \in Sections}
  IN  phase = "loaded" =>
        /\ \A knob \in Knobs :
             Dig(cfg.data, knob) = Dig(IF Has(file, knob) THEN file ELSE Defaults, knob)
        /\ \A path \in odd : Has(cfg.data, path) /\ Dig(cfg.data, path) = Dig(file, path)
        /\ cfg.unknown = odd

\* Whatever the checks at start-up let pass can be served: none of the
\* accessors that unwrap a knob panics, no report fails over a topic, and
\* the delays are the ones MqttClient assumes.
AcceptedServes ==
  /\ phase \notin {"panicked", "unreported"}
  /\ phase = "loaded" =>
       LET secs(section, knob) == Dig(cfg.data, <<section, knob>>).int
       IN  /\ 1 <= secs("mqtt", "reconnect_min_delay_secs")
           /\ secs("mqtt", "reconnect_min_delay_secs") <= secs("mqtt", "reconnect_max_delay_secs")
           /\ 1 <= secs("report", "interval_secs")
           /\ secs("mqtt", "qos") \in 0..2

\* A name, and another name put for it.
Anyhost == <<"anyhost">>
WithName(topic) ==
  FlattenSeq([i \in DOMAIN topic |-> IF topic[i] = "anyhost" THEN site.hostname ELSE <<topic[i]>>])

\* The words of the templates, and of the fields that are put into them.
Spelled(data) ==
  (UNION {ToSet(Text(Dig(data, p))) : p \in Topics \cup {<<"topics", "prefix">>}})
  \cup (UNION {ToSet(f) : f \in ToSet(Fields(Dig(data, <<"metrics", "meminfo", "fields">>)))})

\* A name that is no trouble for a topic whatever is around it.
Nameable(name) == Publishable(name) /\ Last(name) # "/"

\* The text that a placeholder stands for is never scanned again: a host
\* whose name holds braces is accepted when any other is, and its topics are
\* those of the other with one name put for the other, when the other is no
\* word of a template (format_template, "no recursive expansion").
LiteralValues ==
  LET data == DeepMerge(IF Is("null", file) THEN Map(<<>>) ELSE file)
      other == Load(file, Anyhost, site, site.explicit)
  IN  phase \in {"loaded", "rejected"} /\ Nameable(site.hostname)
      /\ "anyhost" \notin Spelled(data) =>
        /\ (phase = "rejected") <=> (other = Rejected)
        /\ phase = "loaded" =>
             /\ cfg.prefix = WithName(other.prefix)
             /\ cfg.status_topic = WithName(other.status_topic)
             /\ cfg.json_topic = WithName(other.json_topic)
             /\ cfg.uptime_topic = WithName(other.uptime_topic)
             /\ \A field \in ToSet(MeminfoFields(cfg)) :
                  MeminfoTopic(cfg, field) = [text |-> WithName(MeminfoTopic(other, field).text)]

\* Who else may see the password in use, as the warnings name them.
Readers ==
  (IF cfg.password = "file" /\ site.secret = "open" THEN {"secret mode"} ELSE {})
  \cup (IF cfg.password = "inline" THEN {"inline"} ELSE {})
  \cup (IF cfg.password = "inline" /\ site.config = "open" THEN {"config mode"} ELSE {})
  \cup (IF cfg.password # "none" /\ Dig(cfg.data, <<"mqtt", "tls", "enabled">>) = No
        THEN {"clear text"} ELSE {})

\* A password file that is named is used or the start fails, it never falls
\* back to a weaker source; and a secret that others can read, in a file or
\* on the network, is never used without a warning (secrets::resolve, load).
SecretsGuarded ==
  phase = "loaded" =>
    LET mqtt == At(cfg.data, "mqtt")
    IN  /\ Is("str", At(mqtt, "password_file")) <=> cfg.password = "file"
        /\ cfg.password = "inline" => site.variable # "set" \/ Is("null", At(mqtt, "password_env"))
        /\ cfg.password = "none" => Is("null", At(mqtt, "password"))
        /\ Readers \subseteq cfg.warnings

\* The number in the last line that has one for the field, if any.
LastNumber(lines, field) ==
  LET has == {i \in DOMAIN lines : /\ lines[i].key = field /\ lines[i].colon
                                   /\ "num" \in DOMAIN lines[i].value}
  IN  IF has = {} THEN <<>>
      ELSE <<lines[CHOOSE i \in has : \A j \in has : j <= i].value.num>>

\* The minutes the uptime file tells, an empty set if none.
TrueMinutes ==
  IF Enabled("uptime_minutes") /\ Readable(out.proc.uptime) /\ out.proc.uptime.text # <<>>
  THEN {m \in 0..MaxSeconds : /\ "num" \in DOMAIN out.proc.uptime.text[1]
                              /\ out.proc.uptime.text[1].num \in (60 * m)..(60 * m + 59)
                              /\ out.proc.uptime.text[1].num < MaxSeconds}
  ELSE {}

\* The fields asked for that the kernel has, with their values.
TrueValues ==
  IF Enabled("meminfo") /\ Readable(out.proc.meminfo)
  THEN {<<f, LastNumber(out.proc.meminfo.text, f)[1]>> :
          f \in {f \in ToSet(MeminfoFields(cfg)) : LastNumber(out.proc.meminfo.text, f) # <<>>}}
  ELSE {}

\* Each metric of a report is told with the value its file has at the time
\* of the read, the same in both forms and once in each, or it is listed
\* among the problems; one unreadable file takes nothing from the other, and
\* nothing is told that was not read (collect_with_reader, parse_meminfo,
\* messages_for).
Accounted ==
  phase \in {"reported", "reported once"} =>
    LET untold == IF Enabled("meminfo")
                  THEN ToSet(MeminfoFields(cfg)) \ {v[1] : v \in TrueValues} ELSE {}
        listed == UNION {ToSet(p.missing) : p \in ToSet(out.logged)}
        troubled == {p.file : p \in ToSet(out.logged)}
    IN  /\ Publishes("publish_plain") =>
             /\ Len(out.plain) = Cardinality(TrueMinutes) + Cardinality(TrueValues)
             /\ \A m \in TrueMinutes : out.plain[1] = [topic |-> [text |-> cfg.uptime_topic],
                                                      payload |-> m]
             /\ \A v \in TrueValues : [topic |-> MeminfoTopic(cfg, v[1]), payload |-> v[2]]
                                        \in ToSet(out.plain)
        /\ Publishes("publish_json") =>
             LET told == out.json[1].payload
             IN  /\ ToSet(told.uptime_minutes) = TrueMinutes
                 /\ DOMAIN told.meminfo = {MeminfoTopicName(v[1]) : v \in TrueValues}
                 /\ \A v \in TrueValues : told.meminfo[MeminfoTopicName(v[1])] = v[2]
                 /\ told.errors = out.logged
        /\ ~Publishes("publish_plain") => out.plain = <<>>
        /\ ~Publishes("publish_json") => out.json = <<>>
        /\ (Enabled("uptime_minutes") /\ TrueMinutes = {}) <=> "uptime" \in troubled
        /\ (untold # {}) <=> "meminfo" \in troubled
        /\ listed = IF Readable(out.proc.meminfo) THEN untold ELSE {}

\* The blocks of a kind in a file, told by position: what follows a BEGIN
\* with no END of the kind in between.
Inside(pem, kind) ==
  {i \in DOMAIN pem : \E b \in 1..i : /\ pem[b] = Begin(kind)
                                      /\ \A j \in b..(i - 1) : pem[j] # End(kind)}

\* Exactly these marks, in their order: each where its rank among them puts it.
Holds(blocks, pem, kind) ==
  LET inside == Inside(pem, kind)
  IN  /\ Len(blocks) = Cardinality(inside)
      /\ \A i \in inside : blocks[Cardinality(inside \cap 1..i)] = pem[i]

\* The identity a client presents is the whole chain of its certificate file
\* in its order and every key block of its key file, wherever the blocks are
\* in the file and whatever else it holds (tls::identity).
IdentityWhole ==
  phase = "serving" /\ "identity" \in DOMAIN out =>
    /\ Holds(out.identity.chain, out.files.certfile, "CERTIFICATE")
    /\ Holds(out.identity.key, out.files.keyfile, "PRIVATE KEY")

\* What is printed shows no value of an entry named password, at any depth
\* and also under an unknown key; every accepted configuration is printed,
\* unless the file has a key that JSON cannot name (redact_passwords,
\* main.rs:96).
PasswordValues(v) == {x.map["password"] : x \in {y \in Nodes(v) : "password" \in Keys(y)}}
PrintedSafely ==
  /\ phase = "printed" => PasswordValues(out.printed) \subseteq {Null, Masked}
  /\ phase = "unprinted" => HasNullKey(file)

\* "must contain {name} so each field gets its own topic" (config.rs:188):
\* no two fields of an accepted configuration share a topic.
FieldTopics ==
  phase = "loaded" =>
    LET fields == ToSet(MeminfoFields(cfg))
    IN  \A f, g \in fields : MeminfoTopic(cfg, f) = MeminfoTopic(cfg, g) => f = g
=============================================================================
