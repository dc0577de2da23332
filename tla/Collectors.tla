----------------------------- MODULE Collectors -----------------------------
(***************************************************************************)
(* The /proc collectors of src/collectors.rs as pure operators: what is    *)
(* read from the text of the two files, and what a snapshot tells.         *)
(*                                                                         *)
(* A word of a file is [num |-> n] when it parses as a number and          *)
(* [word |-> w] when it does not; an uptime may also be [word |-> "NaN"],  *)
(* which does.  A read that fails is Unreadable, any other one is          *)
(* [text |-> words] or [text |-> lines].  None and Some(x) are <<>> and    *)
(* <<x>>.                                                                  *)
(***************************************************************************)
EXTENDS Integers, Sequences

CONSTANT MaxSeconds   \* stands for u64::MAX as f64
ASSUME MaxSecondsAssumption == MaxSeconds \in Nat \ {0}

\* What a text is made of.
ProcWords == [num : Int] \cup [word : STRING]
ProcLines == [key : Seq(STRING), colon : BOOLEAN, value : ProcWords]

Unreadable == [error |-> TRUE]
Readable(file) == file # Unreadable

-----------------------------------------------------------------------------
(* parse_uptime_seconds and parse_uptime_minutes: an option, empty for an  *)
(* error.  A blank text, a word that is no number, NaN, a negative number  *)
(* and one that does not fit are errors.                                   *)

Fits(seconds) == seconds >= 0 /\ seconds < MaxSeconds

ParseUptimeSeconds(words) ==
  IF words # <<>> /\ "num" \in DOMAIN Head(words) /\ Fits(Head(words).num)
  THEN <<Head(words).num>>
  ELSE <<>>

Minutes(seconds) == seconds \div 60

-----------------------------------------------------------------------------
(* parse_meminfo.  A line is [key, colon, value]; colon says that the key  *)
(* ends in one, value is the second word, if there is one.                 *)

WellFormed(line) == line.colon /\ "num" \in DOMAIN line.value

\* BTreeMap::insert: a later line of the same key wins.
Insert(parsed, line) ==
  IF WellFormed(line)
  THEN [k \in DOMAIN parsed \cup {line.key} |->
          IF k = line.key THEN line.value.num ELSE parsed[k]]
  ELSE parsed

Parsed(lines) ==
  LET after[n \in 0..Len(lines)] ==
        IF n = 0 THEN <<>> ELSE Insert(after[n - 1], lines[n])
  IN  after[Len(lines)]

\* BTreeMap::remove: the second request for a field finds nothing; mutant: get.
TakeAgain(acc, field) ==
  IF field \in DOMAIN acc.parsed
  THEN [acc EXCEPT !.meminfo = Append(@, <<field, acc.parsed[field]>>)]
  ELSE acc

TakeField(acc, field) ==
  IF field \in DOMAIN acc.parsed
  THEN [parsed |-> [k \in DOMAIN acc.parsed \ {field} |-> acc.parsed[k]],
        meminfo |-> Append(acc.meminfo, <<field, acc.parsed[field]>>)]
  ELSE acc

\* The pairs <<field, value>> in the order the fields are asked for.
ParseMeminfo(lines, fields) ==
  LET after[n \in 0..Len(fields)] ==
        IF n = 0 THEN [parsed |-> Parsed(lines), meminfo |-> <<>>]
        ELSE TakeField(after[n - 1], fields[n])
  IN  after[Len(fields)].meminfo

-----------------------------------------------------------------------------
(* collect_with_reader.  An error names its file and, for fields that the  *)
(* kernel does not have, the fields.                                       *)

Problem(file, missing) == [file |-> file, missing |-> missing]

Seconds(options, proc) ==
  IF options.want_uptime /\ Readable(proc.uptime)
  THEN ParseUptimeSeconds(proc.uptime.text)
  ELSE <<>>

UptimeProblems(options, proc) ==
  IF options.want_uptime /\ Seconds(options, proc) = <<>>
  THEN <<Problem("uptime", <<>>)>>
  ELSE <<>>

Memory(options, proc) ==
  IF options.want_meminfo /\ Readable(proc.meminfo)
  THEN ParseMeminfo(proc.meminfo.text, options.fields)
  ELSE <<>>

Missing(options, proc) ==
  LET memory == Memory(options, proc)
      found == {memory[i][1] : i \in DOMAIN memory}
      after[n \in 0..Len(options.fields)] ==
        IF n = 0 THEN <<>>
        ELSE IF options.fields[n] \in found THEN after[n - 1]
        ELSE Append(after[n - 1], options.fields[n])
  IN  after[Len(options.fields)]

MeminfoProblems(options, proc) ==
  IF options.want_meminfo
     /\ (~Readable(proc.meminfo) \/ Missing(options, proc) # <<>>)
  THEN <<Problem("meminfo", IF Readable(proc.meminfo) THEN Missing(options, proc) ELSE <<>>)>>
  ELSE <<>>

\* The configured name, or what the system answers now: an option as well.
Hostname(options, proc) ==
  IF options.hostname # <<>> THEN <<options.hostname>> ELSE proc.hostname

Collect(options, proc) ==
  LET seconds == Seconds(options, proc)
  IN  [hostname |-> Hostname(options, proc),
       uptime_s |-> seconds,
       uptime_minutes |-> [i \in DOMAIN seconds |-> Minutes(seconds[i])],
       meminfo |-> Memory(options, proc),
       errors |-> UptimeProblems(options, proc) \o MeminfoProblems(options, proc)
                  \o IF Hostname(options, proc) = <<>>
                     THEN <<Problem("hostname", <<>>)>> ELSE <<>>]

-----------------------------------------------------------------------------
(* to_json_dict with include_hostname.  An absent option has no entry; an  *)
(* insert under a name that is there replaces the value.                   *)

\* meminfo_topic_name: a name of its own for every field (see the README).
MeminfoTopicName(field) == Append(field, "kb")

ToJsonDict(snapshot) ==
  LET Named == [i \in DOMAIN snapshot.meminfo |->
                  [key |-> MeminfoTopicName(snapshot.meminfo[i][1]), colon |-> TRUE,
                   value |-> [num |-> snapshot.meminfo[i][2]]]]
  IN  [hostname |-> snapshot.hostname,
       uptime_s |-> snapshot.uptime_s,
       uptime_minutes |-> snapshot.uptime_minutes,
       meminfo |-> Parsed(Named),
       errors |-> snapshot.errors]
=============================================================================
