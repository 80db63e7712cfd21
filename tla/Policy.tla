-------------------------------- MODULE Policy --------------------------------
(***************************************************************************)
(* What an RBAC policy document allows (internal/central/policy.go,        *)
(* rbac.go), with the definitions the documentation gives (docs/rbac.md)   *)
(* beside the code's algorithms.                                           *)
(*                                                                         *)
(* A string is a sequence of characters.  A word of a kubectl command is   *)
(* [flag, text]: flag is "all" for -A and --all-namespaces, "n" for -n and *)
(* --namespace, "n=" for -n=text and --namespace=text, "other" for other   *)
(* words that begin with "-", and "no" otherwise.  Verbs and role names    *)
(* are compared only, up to case and blanks for verbs, and are plain       *)
(* values.                                                                 *)
(***************************************************************************)
EXTENDS Naturals, Sequences, SequencesExt

CONSTANT Chars   \* characters

Star == "*"
Slash == "/"

ASSUME CharAssumption == {Star, Slash, "p"} \subseteq Chars

Text == Seq(Chars)
Word == [flag : {"all", "n", "n=", "other", "no"}, text : Text]

(* Where the loop of matchPattern can be: at p and v, with the last star   *)
(* before p, or 0 while there is none, and its mark.  Positions count      *)
(* from 1.                                                                 *)
Positions(L, N) ==
  {s \in (1..L+1) \X (1..N+1) \X (0..L) \X (1..N+1) : s[3] < s[1] /\ s[4] <= s[2]}

(* Mutant of matchLoop: the first star is remembered, not the last. *)
MutMatchLoop(pattern, value) ==
  LET L == Len(pattern)
      N == Len(value)
      loop[s \in Positions(L, N)] ==
        LET p == s[1]
            v == s[2]
            star == s[3]
            mark == s[4]
        IN  IF v > N THEN \A i \in p..L : pattern[i] = Star
            ELSE IF p <= L /\ pattern[p] = value[v] THEN loop[<<p + 1, v + 1, star, mark>>]
            ELSE IF p <= L /\ pattern[p] = Star /\ star = 0 THEN loop[<<p + 1, v, p, v>>]
            ELSE IF p <= L /\ pattern[p] = Star THEN loop[<<p + 1, v, star, mark>>]
            ELSE star # 0 /\ loop[<<star + 1, mark + 1, star, mark + 1>>]
  IN  loop

(* The answer of the loop, two pointers with a return to the last star,    *)
(* from everywhere it can be.                                              *)
matchLoop(pattern, value) ==
  LET L == Len(pattern)
      N == Len(value)
      loop[s \in Positions(L, N)] ==
        LET p == s[1]
            v == s[2]
            star == s[3]
            mark == s[4]
        IN  IF v > N THEN \A i \in p..L : pattern[i] = Star
            ELSE IF p <= L /\ pattern[p] = value[v] THEN loop[<<p + 1, v + 1, star, mark>>]
            ELSE IF p <= L /\ pattern[p] = Star THEN loop[<<p + 1, v, p, v>>]
            ELSE star # 0 /\ loop[<<star + 1, mark + 1, star, mark + 1>>]
  IN  loop

(* matchPattern *)
matchPattern(pattern, value) == matchLoop(pattern, value)[<<1, 1, 0, 1>>]

(* The reference: a star stands for any sequence, other characters for     *)
(* themselves.  What is left of the pattern matches what is left of the    *)
(* value, from every two positions.                                        *)
GlobFrom(pattern, value) ==
  LET L == Len(pattern)
      N == Len(value)
      g[s \in (1..L+1) \X (1..N+1)] ==
        IF s[1] > L THEN s[2] > N
        ELSE IF pattern[s[1]] = Star THEN \E k \in s[2]..N+1 : g[<<s[1] + 1, k>>]
        ELSE s[2] <= N /\ pattern[s[1]] = value[s[2]] /\ g[<<s[1] + 1, s[2] + 1>>]
  IN  g

Glob(pattern, value) == GlobFrom(pattern, value)[<<1, 1>>]

-------------------------------------------------------------------------------
(* Requests *)

podScopedVerbs == {"logs", "exec", "attach", "port-forward", "cp"}

(* The namespace after each of the words args, and whether the next word   *)
(* is the value of -n: the last flag wins, -n takes the next word whatever *)
(* it is, and is ignored at the end.                                       *)
namespaceAfter(args, fallback) ==
  LET after[i \in 0..Len(args)] ==
        IF i = 0 THEN [namespace |-> fallback, due |-> FALSE]
        ELSE IF after[i - 1].due THEN [namespace |-> args[i].text, due |-> FALSE]
        ELSE IF args[i].flag = "all" THEN [namespace |-> <<Star>>, due |-> FALSE]
        ELSE IF args[i].flag = "n=" THEN [namespace |-> args[i].text, due |-> FALSE]
        ELSE [namespace |-> after[i - 1].namespace, due |-> args[i].flag = "n"]
  IN  after

namespaceOf(args, fallback) == namespaceAfter(args, fallback)[Len(args)].namespace

stripName(text) ==
  LET i == SelectInSeq(text, LAMBDA ch : ch = Slash)
  IN  IF i = 0 THEN text ELSE SubSeq(text, 1, i - 1)

(* Mutant of resourceOf: the name of pods/name is not stripped. *)
MutResourceOf(verb, args) ==
  LET i == SelectInSeq(args, LAMBDA a : a.flag = "no")
  IN  IF verb \in podScopedVerbs THEN <<"p">>
      ELSE IF i = 0 THEN <<>> ELSE args[i].text

(* The resource: the first word that is no flag; "p" stands for pods.  *)
resourceOf(verb, args) ==
  LET i == SelectInSeq(args, LAMBDA a : a.flag = "no")
  IN  IF verb \in podScopedVerbs THEN <<"p">>
      ELSE IF i = 0 THEN <<>> ELSE stripName(args[i].text)

(* parseAccessRequest of kubectl verb args.  *)
parseAccessRequest(cluster, verb, args, fallback) ==
  [cluster |-> cluster, verb |-> verb, resource |-> resourceOf(verb, args),
   namespace |-> namespaceOf(args, fallback)]

-------------------------------------------------------------------------------
(* Policies *)

(* Policy, PolicyRole, PolicyRule and PolicyBinding. *)
PolicyRule == [clusters : Seq(Text), namespaces : Seq(Text), resources : Seq(Text), verbs : Seq(STRING)]
PolicyRole == [name : STRING, rules : Seq(PolicyRule)]
PolicyBinding == [subject : Text, roles : Seq(STRING)]
PolicyDocument == [default : STRING, roles : Seq(PolicyRole), bindings : Seq(PolicyBinding)]

(* anyMatch, anyVerb and PolicyRule.allows. *)
anyMatch(patterns, value) == \E i \in DOMAIN patterns : matchPattern(patterns[i], value)
anyVerb(verbs, verb) == \E i \in DOMAIN verbs : verbs[i] \in {Star, verb}
ruleAllows(rule, req) ==
  /\ anyMatch(rule.clusters, req.cluster) /\ anyMatch(rule.namespaces, req.namespace)
  /\ anyMatch(rule.resources, req.resource) /\ anyVerb(rule.verbs, req.verb)

(* rolesFor: the roles of every binding that matches, and the default      *)
(* role when there is one.                                                 *)
rolesFor(policy, subject) ==
  LET bound == {b \in ToSet(policy.bindings) : matchPattern(b.subject, subject)}
  IN  (UNION {ToSet(b.roles) : b \in bound}) \cup ({policy.default} \ {""})

(* Policy.allows *)
allows(policy, subject, req) ==
  \E i \in DOMAIN policy.roles :
    /\ policy.roles[i].name \in rolesFor(policy, subject)
    /\ \E k \in DOMAIN policy.roles[i].rules : ruleAllows(policy.roles[i].rules[k], req)

(* validate: roles are named once, and every role that is mentioned exists. *)
validate(policy) ==
  LET names == {policy.roles[i].name : i \in DOMAIN policy.roles}
  IN  /\ "" \notin names
      /\ \A i, j \in DOMAIN policy.roles : policy.roles[i].name = policy.roles[j].name => i = j
      /\ \A i \in DOMAIN policy.bindings : ToSet(policy.bindings[i].roles) \subseteq names
      /\ policy.default \in names \cup {""}

-------------------------------------------------------------------------------
(* The reference for a request and a decision: docs/rbac.md, "How a        *)
(* kubectl command maps to a request" and "Structure".                     *)

(* Words that are neither flags nor the value of one. *)
Positional(args) == {i \in DOMAIN args : args[i].flag = "no" /\ (i > 1 => args[i - 1].flag # "n")}

(* The common form of a command: -n has a value, after the resource type.  *)
Ordinary(args) ==
  \A i \in DOMAIN args : args[i].flag = "n" =>
    /\ i < Len(args) /\ args[i + 1].flag = "no"
    /\ \E j \in Positional(args) : j < i

RefResource(verb, args) ==
  IF verb \in podScopedVerbs THEN <<"p">>
  ELSE IF Positional(args) = {} THEN <<>>
  ELSE LET text == args[CHOOSE j \in Positional(args) : \A l \in Positional(args) : j <= l].text
       IN  SubSeq(text, 1, CHOOSE n \in 0..Len(text) : /\ \A k \in 1..n : text[k] # Slash
                                                       /\ n < Len(text) => text[n + 1] = Slash)

(* Flags that name a namespace, and the one they name. *)
NamespaceFlags(args) == {j \in DOMAIN args : args[j].flag \in {"all", "n", "n="}}
Named(args, j) ==
  CASE args[j].flag = "all" -> <<Star>>
    [] args[j].flag = "n" -> args[j + 1].text
    [] args[j].flag = "n=" -> args[j].text

RefNamespace(args, fallback) ==
  IF NamespaceFlags(args) = {} THEN fallback
  ELSE Named(args, CHOOSE j \in NamespaceFlags(args) : \A l \in NamespaceFlags(args) : l <= j)

IsBound(policy, subject) == \E b \in ToSet(policy.bindings) : Glob(b.subject, subject)

(* The default role is for users with no matching binding. *)
RefHasRole(policy, subject, name) ==
  IF IsBound(policy, subject)
  THEN \E b \in ToSet(policy.bindings) : Glob(b.subject, subject) /\ name \in ToSet(b.roles)
  ELSE name = policy.default

RefGrants(role, req) ==
  \E rule \in ToSet(role.rules) :
    /\ \E x \in ToSet(rule.clusters) : Glob(x, req.cluster)
    /\ \E x \in ToSet(rule.namespaces) : Glob(x, req.namespace)
    /\ \E x \in ToSet(rule.resources) : Glob(x, req.resource)
    /\ ToSet(rule.verbs) \cap {Star, req.verb} # {}

RefAllows(policy, subject, req) ==
  \E role \in ToSet(policy.roles) : RefHasRole(policy, subject, role.name) /\ RefGrants(role, req)

(* What the code allows beyond the documentation: rolesFor gives the       *)
(* default role to users with a matching binding, too.                     *)
DefaultDespiteBinding(policy, subject, req) ==
  /\ IsBound(policy, subject)
  /\ \E role \in ToSet(policy.roles) : role.name = policy.default /\ RefGrants(role, req)
===============================================================================
