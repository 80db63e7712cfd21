---------------------------- MODULE MCPolicyEngine ----------------------------
(***************************************************************************)
(* PolicyEngine over three documents, and Policy's operators over all      *)
(* short inputs.  A behaviour is one of PolicyEngine, with NoInput, or     *)
(* writes down an input of the operators while the engine rests: a pattern *)
(* with a value, or a subject's command, one character or one word at a    *)
(* time.                                                                   *)
(***************************************************************************)
EXTENDS PolicyEngine

CONSTANTS MaxChars,   \* bound: length of a pattern and of a value
          MaxWords    \* bound: words of a command

ASSUME BoundAssumption == MaxChars \in Nat /\ MaxWords \in Nat /\ {"a", "b", "-"} \subseteq Chars

Anything == <<Star>>

Viewer == [name |-> "viewer",
           rules |-> <<[clusters |-> <<Anything>>, namespaces |-> <<<<"a", Star>>>>,
                        resources |-> <<<<"p">>, <<"a", Star, "b">>>>, verbs |-> <<"get", "logs">>]>>]
Admin == [name |-> "admin",
          rules |-> <<[clusters |-> <<<<Star, "b">>>>, namespaces |-> <<Anything>>,
                       resources |-> <<Anything>>, verbs |-> <<Star>>]>>]

Bound == [default |-> "", roles |-> <<Viewer, Admin>>,
          bindings |-> <<[subject |-> <<Star, "b">>, roles |-> <<"viewer">>],
                         [subject |-> <<"a", Star>>, roles |-> <<"admin">>]>>]
Default == [default |-> "viewer", roles |-> <<Viewer, Admin>>,
            bindings |-> <<[subject |-> <<"b">>, roles |-> <<"admin">>]>>]
Dangling == [default |-> "", roles |-> <<Viewer>>,
             bindings |-> <<[subject |-> Anything, roles |-> <<"admin">>]>>]
ThreeDocuments == {Bound, Default, Dangling}

Words == {[flag |-> f, text |-> <<"-">>] : f \in {"all", "n", "other"}}
         \cup {[flag |-> "n=", text |-> t] : t \in {<<"a">>, <<"b">>}}
         \cup {[flag |-> "no", text |-> t] : t \in {<<"p">>, <<"a", "b", "/", "a">>, <<"b">>, <<"a">>}}

VARIABLE input

NoInput == [kind |-> "none"]
Matches == [kind : {"match"}, pattern : {<<>>}, value : {<<>>, Anything}]
Requests == [kind : {"request"}, subject : {<<"a", "b">>, <<"b">>}, cluster : {<<"a">>, <<"b">>},
             verb : {"get", "logs", "delete"}, args : {<<>>}]

MCInit == Init /\ input \in {NoInput} \cup Matches \cup Requests

ExtendPattern ==
  /\ input.kind = "match" /\ Len(input.pattern) < MaxChars
  /\ \E ch \in {"a", "b", Star} : input' = [input EXCEPT !.pattern = Append(@, ch)]

(* No value has a star, but the namespace of --all-namespaces is one. *)
ExtendValue ==
  /\ input.kind = "match" /\ input.value # Anything /\ Len(input.value) < MaxChars
  /\ \E ch \in {"a", "b"} : input' = [input EXCEPT !.value = Append(@, ch)]

ExtendCommand ==
  /\ input.kind = "request" /\ Len(input.args) < MaxWords
  /\ \E w \in Words : input' = [input EXCEPT !.args = Append(@, w)]

MCNext ==
  \/ Next /\ input = NoInput /\ UNCHANGED input
  \/ (ExtendPattern \/ ExtendValue \/ ExtendCommand) /\ UNCHANGED vars

MCSpec == MCInit /\ [][MCNext]_<<vars, input>> /\ (input = NoInput => Fairness)

(* matchPattern (rbac.go 18-42) agrees with the meaning of "*" as a        *)
(* wildcard: returning to the last star only is enough.                    *)
PatternsMatch ==
  input.kind = "match" =>
    (matchPattern(input.pattern, input.value) <=> Glob(input.pattern, input.value))

(* A decision under the policy in force is the one docs/rbac.md describes, *)
(* from the words of an ordinary command to the rules of every role of the *)
(* subject, with one exception: a user with a matching binding is also     *)
(* allowed what the default role allows, which docs/rbac.md 15 and         *)
(* configs/rbac.yaml 7 give to users without one (http.go 286-306, rbac.go *)
(* 67-109, policy.go 46-86).                                               *)
DecisionsCorrect ==
  input.kind = "request" /\ Ordinary(input.args) =>
    LET req == [cluster |-> input.cluster, verb |-> input.verb,
                resource |-> RefResource(input.verb, input.args),
                namespace |-> RefNamespace(input.args, <<"a">>)]
    IN  allows(current, input.subject,
               parseAccessRequest(input.cluster, input.verb, input.args, <<"a">>))
          <=> \/ RefAllows(current, input.subject, req)
              \/ DefaultDespiteBinding(current, input.subject, req)
===============================================================================
