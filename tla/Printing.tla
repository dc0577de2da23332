------------------------------- MODULE Printing -------------------------------
(***************************************************************************)
(* What --print-config shows (config.rs): the merged tree with its         *)
(* passwords masked.  The code recurses over a tree of any shape; here the *)
(* recursion is a function of the nodes of the tree, level by level.       *)
(***************************************************************************)
EXTENDS Config

CONSTANT MaxDepth   \* stands for the 128 levels that serde_yaml reads
ASSUME DepthAssumption == MaxDepth \in Nat /\ MaxDepth >= 5

-----------------------------------------------------------------------------
(* The nodes of a tree.                                                    *)

Inner(v) == {v.map[k] : k \in Keys(v)} \cup (IF Is("list", v) THEN ToSet(v.list) ELSE {})

Levels(v) ==
  LET level[n \in 0..MaxDepth] ==
        IF n = 0 THEN {v} ELSE UNION {Inner(x) : x \in level[n - 1]}
  IN  level

Nodes(v) == UNION {Levels(v)[n] : n \in 0..MaxDepth}

\* It has fewer levels than that.
Shallow(v, n) == Levels(v)[n] = {}

-----------------------------------------------------------------------------
(* redact_passwords; mutant: only a password that is a string is masked.   *)

Masked == Str(<<"redacted">>)
MasksText(key, v) == key = "password" /\ Is("str", v)
Masks(key, v) == key = "password" /\ ~Is("null", v)

Redact(v) ==
  LET redacted[x \in Nodes(v)] ==
        CASE Is("map", x)  -> Map([k \in DOMAIN x.map |->
                                     IF Masks(k, x.map[k]) THEN Masked ELSE redacted[x.map[k]]])
          [] Is("list", x) -> List([i \in DOMAIN x.list |-> redacted[x.list[i]]])
          [] OTHER         -> x
  IN  redacted[v]

\* A key that JSON cannot name makes to_string_pretty fail, and expect panic.
HasNullKey(v) == \E x \in Nodes(v) : NullKey \in Keys(x)
=============================================================================
