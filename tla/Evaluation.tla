----------------------------- MODULE Evaluation -----------------------------
(* What a policy document decides about a request of which not everything is  *)
(* seen: the host is, and the path only once a tunnel is inspected.           *)
(*   A condition is a tree: [field, want, all, any, not], where `all` and     *)
(* `any` hold conditions and `not` at most one. A rule has a priority, may be *)
(* disabled, may stop the rules after it, and has a sequence of actions.      *)
EXTENDS Integers, Sequences, Functions

CONSTANTS Conditions,    \* the trees an operator may write, and the trees in them
          Height,        \* of each, the levels below its root
          Drafts,        \* the rules an operator may write, sound or not
          Values,        \* values of host and path
          MaxDepth, MaxRules

Terminal  == {"block", "reject", "proxy", "chain", "direct", "mock", "redirect"}
Modifying == {"cache", "throttle", "rewrite"}
Hidden    == 0           \* no value of a field
Fields    == {"host", "path"}

Children(c) == Range(c.all) \cup Range(c.any) \cup Range(c.not)

ASSUME ConditionsAssumption ==
  \A c \in Conditions :
    /\ {c.all, c.any, c.not} \subseteq Seq(Conditions) /\ Len(c.not) <= 1
    /\ Height[c] \in Nat /\ \A child \in Children(c) : Height[child] < Height[c]
    /\ Height[c] > 0 => \E child \in Children(c) : Height[child] = Height[c] - 1

ASSUME DraftsAssumption ==
  /\ \A rule \in Drafts :
       /\ rule.condition \in Conditions /\ rule.priority \in Int /\ rule.actions \in Seq(STRING)
       /\ {rule.enabled, rule.stop} \subseteq BOOLEAN
  /\ Hidden \notin Values /\ MaxDepth \in Nat /\ MaxRules \in Nat

VARIABLES document,      \* Policy.Rules
          sight          \* field -> what the proxy sees of the request

evaluationVars == <<document, sight>>
-----------------------------------------------------------------------------
(* Policy.Validate: a condition has one form, or none and then it always      *)
(* holds, and is not too deep; a rule has actions, all of them known.         *)
Forms(c) == {form \in {"leaf", "all", "any", "not"} :
               CASE form = "leaf" -> c.field # "" \/ c.want # {}
                 [] form = "all"  -> c.all # <<>>
                 [] form = "any"  -> c.any # <<>>
                 [] form = "not"  -> c.not # <<>>}

ValidBy(valid, c) ==
  /\ \A f, g \in Forms(c) : f = g
  /\ "leaf" \in Forms(c) => c.field \in Fields /\ c.want # {}
  /\ \A child \in Children(c) : valid[child]

validCondition(c) == LET valid[d \in Conditions] == ValidBy(valid, d)
                     IN  Height[c] <= MaxDepth /\ valid[c]

Valid(rule) ==
  /\ rule.actions # <<>> /\ Range(rule.actions) \subseteq Terminal \cup Modifying
  /\ validCondition(rule.condition)
-----------------------------------------------------------------------------
(* matchCondition: what is not seen is Unknown, and so is its negation. *)
matchLeaf(c, seen) == IF seen[c.field] = Hidden THEN "unknown"
                      ELSE IF seen[c.field] \in c.want THEN "match" ELSE "nomatch"

(* Mutant: what is not known to match is taken not to. *)
BugNegated(state) == IF state = "match" THEN "nomatch" ELSE "match"
Negated(state) == CASE state = "match"   -> "nomatch"
                    [] state = "nomatch" -> "match"
                    [] OTHER             -> "unknown"

(* With the states of what a condition holds. *)
MatchBy(state, c, seen) ==
  LET Of(list) == {state[list[i]] : i \in DOMAIN list}
  IN  CASE c.all # <<>>   -> IF "nomatch" \in Of(c.all) THEN "nomatch"
                             ELSE IF "unknown" \in Of(c.all) THEN "unknown" ELSE "match"
        [] c.all = <<>> /\ c.any # <<>> ->
                             IF "match" \in Of(c.any) THEN "match"
                             ELSE IF "unknown" \in Of(c.any) THEN "unknown" ELSE "nomatch"
        [] c.all = <<>> /\ c.any = <<>> /\ c.not # <<>> -> Negated(state[c.not[1]])
        [] OTHER          -> IF c.field = "" THEN "match" ELSE matchLeaf(c, seen)

matchCondition(c, seen) == LET state[d \in Conditions] == MatchBy(state, d, seen) IN state[c]
-----------------------------------------------------------------------------
(* policy.Evaluate: by priority, then in the order of the document. *)
(* Mutant: rules of one priority come in any order, here the reverse. *)
BugAhead(i, j) ==
  \/ document[i].priority > document[j].priority
  \/ document[i].priority = document[j].priority /\ i > j
Ahead(i, j) ==
  \/ document[i].priority > document[j].priority
  \/ document[i].priority = document[j].priority /\ i < j

hasTerminal(actions) == Range(actions) \cap Terminal # {}

NoResult == [actions |-> <<>>, terminal |-> 0, stopped |-> FALSE]
Consider(result, i) ==
  LET rule == document[i] IN
  IF result.stopped \/ ~rule.enabled \/ matchCondition(rule.condition, sight) # "match" THEN result
  ELSE [actions  |-> result.actions \o rule.actions,
        terminal |-> IF result.terminal = 0 /\ hasTerminal(rule.actions) THEN i ELSE result.terminal,
        stopped  |-> rule.stop]

Sorted == CHOOSE s \in [DOMAIN document -> DOMAIN document] :
            \A i, j \in DOMAIN document : i < j => Ahead(s[i], s[j])
EvaluatePolicy ==
  LET result[k \in 0 .. Len(document)] ==
        IF k = 0 THEN NoResult ELSE Consider(result[k - 1], Sorted[k])
  IN  result[Len(document)]

(* routeActions: the first terminal action, and the modifiers before it. *)
routeActions(actions) ==
  LET first == CHOOSE n \in DOMAIN actions :
                 /\ actions[n] \in Terminal
                 /\ \A m \in 1 .. (n - 1) : actions[m] \notin Terminal
  IN  [route |-> actions[first], modifiers |-> Range(SubSeq(actions, 1, first - 1))]

(* Without a terminal action the request is denied: ErrNoRoute. *)
Decision ==
  IF ~hasTerminal(EvaluatePolicy.actions) THEN [rule |-> 0, route |-> "none", modifiers |-> {}]
  ELSE LET routed == routeActions(EvaluatePolicy.actions)
       IN  [rule |-> EvaluatePolicy.terminal, route |-> routed.route, modifiers |-> routed.modifiers]
-----------------------------------------------------------------------------
EvaluationInit ==
  /\ document = <<>>
  /\ sight \in {[host |-> v, path |-> Hidden] : v \in Values}

(* The operator adds a rule; the document is refused unless it is valid. *)
AddRule(rule) ==
  /\ Len(document) < MaxRules
  /\ Valid(rule)
  /\ document' = Append(document, rule)
  /\ UNCHANGED sight

(* The request inside the tunnel is read. *)
SeePath(v) ==
  /\ sight.path = Hidden
  /\ sight' = [sight EXCEPT !.path = v]
  /\ UNCHANGED document

EvaluationNext == \/ \E rule \in Drafts : AddRule(rule)
                  \/ \E v \in Values : SeePath(v)

EvaluationSpec == EvaluationInit /\ [][EvaluationNext]_evaluationVars
-----------------------------------------------------------------------------
(* What a document says of a request of which everything is known: every form *)
(* of a condition holds.                                                      *)
HoldsBy(holds, c, all) ==
  /\ c.field # "" => all[c.field] \in c.want
  /\ \A i \in DOMAIN c.all : holds[c.all[i]]
  /\ c.any # <<>> => \E i \in DOMAIN c.any : holds[c.any[i]]
  /\ \A i \in DOMAIN c.not : ~holds[c.not[i]]
Holds(c, all) == LET holds[d \in Conditions] == HoldsBy(holds, d, all) IN holds[c]
Completions == {all \in [Fields -> Values] :
                  \A f \in Fields : sight[f] # Hidden => all[f] = sight[f]}

(* A rule that is decided while a part of the request is hidden is decided    *)
(* rightly: whatever is hidden, its condition says the same. So an attribute  *)
(* nobody has seen never makes a rule match, not under a negation either.     *)
DecidedIsTrue ==
  \A i \in DOMAIN document :
    LET c == document[i].condition IN
    /\ matchCondition(c, sight) = "match"   => \A all \in Completions : Holds(c, all)
    /\ matchCondition(c, sight) = "nomatch" => \A all \in Completions : ~Holds(c, all)

(* The rules that are heard, said without an order of evaluation. *)
Matching == {i \in DOMAIN document : /\ document[i].enabled
                                     /\ matchCondition(document[i].condition, sight) = "match"}
Before(i, j) == LET rank(k) == <<0 - document[k].priority, k>> IN
                \/ rank(i)[1] < rank(j)[1]
                \/ rank(i)[1] = rank(j)[1] /\ rank(i)[2] < rank(j)[2]
Heard    == {i \in Matching : \A j \in Matching : Before(j, i) => ~document[j].stop}

(* The request is routed by the matching rule of the highest priority, the    *)
(* first one in the document among equals, that has a terminal action and is  *)
(* behind no matching rule that stops; it is modified by the rules ahead of   *)
(* that one and by what stands before the terminal action, by nothing else,   *)
(* and the rule that the traffic event names is the rule that routed.         *)
RoutedByRank ==
  LET Deciding == {i \in Heard : hasTerminal(document[i].actions)} IN
  IF Deciding = {} THEN Decision.route = "none"
  ELSE LET i    == CHOOSE k \in Deciding : \A j \in Deciding : j # k => Before(k, j)
           own  == document[i].actions
           last == CHOOSE n \in DOMAIN own : own[n] \in Terminal /\ \A m \in 1 .. (n - 1) : own[m] \notin Terminal
       IN  /\ Decision.rule = i /\ Decision.route = own[last]
           /\ Decision.modifiers = Range(SubSeq(own, 1, last - 1)) \cup
                UNION {Range(document[j].actions) : j \in {k \in Heard : Before(k, i)}}

(* A document decides as it is written, with what is seen of a request.       *)
DecidesAsWritten == DecidedIsTrue /\ RoutedByRank
=============================================================================
