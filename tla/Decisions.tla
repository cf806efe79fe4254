----------------------------- MODULE Decisions -----------------------------
(***************************************************************************)
(* How the vault decides: the resource patterns a policy is written in     *)
(* (internal/domain/auth/policy.go, internal/auth/glob.go) and the table   *)
(* of policies, with includes and deny precedence, that answers a request  *)
(* (internal/auth/authz.go, evaluator.go, rbac.go, agent.go).              *)
(*                                                                         *)
(* Names and patterns are sequences of characters.  The first part grows a *)
(* pattern and a resource one character at a time and compares the         *)
(* backtracking matcher with a definition by tokens.  The second part      *)
(* edits the policy table and compares every decision with a definition    *)
(* over the set of policies reached.                                       *)
(***************************************************************************)
EXTENDS Naturals, FiniteSets, Sequences, SequencesExt

CONSTANTS PolicyNames,   \* names a policy may be saved under
          Shapes,        \* what a policy may say, apart from its name and includes
          Requests,      \* the requests decided
          MaxIncludes,   \* names a policy includes
          MaxPattern,    \* characters of a pattern
          MaxResource    \* characters of a resource

VARIABLES pattern, resource,  \* the pattern and the resource compared
          rules               \* RBAC.policies: name -> policy, or NoRule

globVars == <<pattern, resource>>
ruleVars == <<rules>>

NoRule == [effect |-> "none"]
Unreadable == 24  \* an hour no clock shows: a time that does not parse

-----------------------------------------------------------------------------
(* Patterns. *)

Wild == {"*", "?"}
HasWild(p) == \E i \in DOMAIN p : p[i] \in Wild
DoubleAt(p) == {i \in 1..(Len(p) - 1) : p[i] = "*" /\ p[i + 1] = "*"}

\* strings.Count(p, "**"): the occurrences that do not overlap.
CountDouble[p \in Seq({"a", "b", "/", "*", "?"})] ==
  IF DoubleAt(p) = {} THEN 0
  ELSE LET i == CHOOSE i \in DoubleAt(p) : \A j \in DoubleAt(p) : i <= j
       IN 1 + CountDouble[SubSeq(p, i + 2, Len(p))]

\* Policy.Validate and ValidateResourcePattern: at most one "**".
ValidPattern(p) == p # <<>> /\ CountDouble[p] <= 1

\* Where "**/" may resume: here, after each later slash, or at the end.
Resumes(str, si) ==
  {s \in si..(Len(str) + 1) : s = si \/ str[s - 1] = "/" \/ s = Len(str) + 1}

\* Where a single star may resume in a policy's pattern: anywhere from here on.
StarEnds(str, si) == si..(Len(str) + 1)

\* Where it may resume in MatchResourceGlob: up to the next slash.
SegmentEnds(str, si) ==
  {s \in si..(Len(str) + 1) : \A k \in si..(s - 1) : str[k] # "/"}

RECURSIVE GlobMatch(_, _, _, _, _)

\* globMatch and matchGlob, which differ only in where a single star resumes:
\* kind names the function, pi and si are the next positions of the pattern
\* and of the resource.
GlobMatch(kind, pat, str, pi, si) ==
  IF pi > Len(pat) THEN si = Len(str) + 1
  ELSE CASE pat[pi] = "*" ->
              LET double == pi < Len(pat) /\ pat[pi + 1] = "*"
                  slash == double /\ pi + 2 <= Len(pat) /\ pat[pi + 2] = "/"
                  from == IF slash THEN Resumes(str, si)
                          ELSE IF double \/ kind = "globMatch" THEN StarEnds(str, si)
                          ELSE SegmentEnds(str, si)
                  next == IF slash THEN pi + 3 ELSE IF double THEN pi + 2 ELSE pi + 1
              IN \E s \in from : GlobMatch(kind, pat, str, next, s)
         [] pat[pi] = "?" ->
              si <= Len(str) /\ str[si] # "/" /\ GlobMatch(kind, pat, str, pi + 1, si + 1)
         [] OTHER ->
              si <= Len(str) /\ pat[pi] = str[si] /\ GlobMatch(kind, pat, str, pi + 1, si + 1)

\* A pattern ending in "/*" with no other wildcard names a subtree.
Subtree(p) ==
  /\ Len(p) >= 2 /\ p[Len(p)] = "*" /\ p[Len(p) - 1] = "/"
  /\ ~HasWild(SubSeq(p, 1, Len(p) - 2))

InSubtree(p, str) ==
  LET top == SubSeq(p, 1, Len(p) - 2)
  IN str = top \/ IsPrefix(top \o <<"/">>, str)

Everything == {<<"*">>, <<"*", "/", "*">>}

\* MatchResource, the matcher policies use.
MatchResource(p, str) ==
  CASE p \in Everything -> TRUE
    [] p \notin Everything /\ Subtree(p) -> InSubtree(p, str)
    [] p \notin Everything /\ ~Subtree(p) /\ HasWild(p) -> GlobMatch("globMatch", p, str, 1, 1)
    [] OTHER -> p = str

\* MatchResourceGlob and MatchResourceLegacy, the segmentwise matcher.
MatchResourceGlob(p, str) ==
  CASE p \in Everything -> TRUE
    [] p \notin Everything /\ HasWild(p) -> GlobMatch("matchGlob", p, str, 1, 1)
    [] OTHER -> p = str

GlobInit == pattern = <<>> /\ resource = <<>>

GlobNext ==
  \/ /\ Len(pattern) < MaxPattern
     /\ \E c \in {"a", "/", "*", "?"} : pattern' = Append(pattern, c)
     /\ UNCHANGED resource
  \/ /\ Len(resource) < MaxResource
     /\ \E c \in {"a", "b", "/"} : resource' = Append(resource, c)
     /\ UNCHANGED pattern

-----------------------------------------------------------------------------
(* What a pattern means, by tokens: the pattern is cut into tokens from    *)
(* the left, and it matches when the resource can be cut into one piece    *)
(* per token, each piece one that its token admits.                        *)

Tokens[p \in Seq({"a", "b", "/", "*", "?"})] ==
  IF p = <<>> THEN <<>>
  ELSE LET n == CHOOSE n \in 1..3 :
                  n = IF IsPrefix(<<"*", "*", "/">>, p) THEN 3
                      ELSE IF IsPrefix(<<"*", "*">>, p) THEN 2 ELSE 1
       IN <<SubSeq(p, 1, n)>> \o Tokens[SubSeq(p, n + 1, Len(p))]

\* whether a token admits the piece of str between two cuts
Admits(token, str, from, to) ==
  LET piece == SubSeq(str, from, to - 1)
  IN CASE token = <<"*", "*", "/">> ->
            piece = <<>> \/ piece[Len(piece)] = "/" \/ to = Len(str) + 1
       [] token \in {<<"*">>, <<"*", "*">>} -> TRUE
       [] token = <<"?">> -> Len(piece) = 1 /\ piece # <<"/">>
       [] OTHER -> piece = token

\* the cuts that can follow the cuts of S
After(S, token, str) ==
  {to \in 1..(Len(str) + 1) : \E from \in S : from <= to /\ Admits(token, str, from, to)}

Means(p, str) ==
  Len(str) + 1 \in FoldLeft(LAMBDA S, token : After(S, token, str), {1}, Tokens[p])

\* The backtracking matcher accepts exactly the resources its pattern means:
\* no cut of the resource is tried too early, too late or not at all
\* (policy.go globMatch, whose three loops move the resource index by hand).
PatternsMeanTokens ==
  (ValidPattern(pattern) /\ HasWild(pattern) /\ ~Subtree(pattern)
     /\ pattern \notin Everything)
  => (MatchResource(pattern, resource) <=> Means(pattern, resource))

\* Whatever the segmentwise matcher accepts, the matcher that policies use
\* accepts too, whichever of its special cases the pattern falls in: the
\* two differ only by what policies grant in addition
\* (glob.go MatchResourceGlob against policy.go MatchResource).
SegmentsWithinPolicies ==
  (ValidPattern(pattern) /\ MatchResourceGlob(pattern, resource))
  => MatchResource(pattern, resource)

-----------------------------------------------------------------------------
(* Decisions. *)

\* The values of NormalizeCapabilities: capabilities replace legacy actions.
NormalizeCapabilities(rule) ==
  IF rule.capabilities # {} THEN rule.capabilities ELSE rule.actions

MatchAction(allowed, action) == allowed \in {"*", action}

\* ConditionsMatch: every condition present holds of the request.  A
\* condition that cannot be read (a bad time or network, a label without
\* its value) fails.
ConditionsMatch(conditions, req) ==
  \A k \in DOMAIN conditions :
    LET want == conditions[k]
    IN CASE k = "ip_cidr" -> req.ip # "" /\ req.ip \in want
         [] k = "time_after" -> want < Unreadable /\ req.hour >= want
         [] k = "time_before" -> want < Unreadable /\ req.hour < want
         [] k = "path_prefix" -> IsPrefix(want, req.resource)
         [] k = "resource_label" -> want # "" /\ want \in req.labels
         [] OTHER -> want = req.namespace

\* PolicyMatches and policyMatchesResourceAction
PolicyMatches(rule, req) ==
  /\ \E p \in rule.resources, a \in NormalizeCapabilities(rule) :
       MatchResource(p, req.resource) /\ MatchAction(a, req.action)
  /\ ConditionsMatch(rule.conditions, req)

RECURSIVE Walk(_, _)

\* The walk of ResolvePolicyNames: a name seen before is skipped, the names
\* a policy includes come out before it does.
Walk(names, acc) ==
  FoldLeft(LAMBDA st, name :
             IF name \in st.seen THEN st
             ELSE LET marked == [st EXCEPT !.seen = @ \cup {name}]
                      inner == IF rules[name] = NoRule THEN marked
                               ELSE Walk(rules[name].includes, marked)
                  IN [inner EXCEPT !.out = Append(@, name)],
           acc, names)

ResolvePolicyNames(names) == Walk(names, [seen |-> {}, out |-> <<>>]).out

\* as below, but the first policy that matches decides
DecideFirst(names, req) ==
  LET hits == SelectSeq(names, LAMBDA n : rules[n] # NoRule /\ PolicyMatches(rules[n], req))
  IN hits # <<>> /\ rules[hits[1]].effect = "allow"

\* AuthorizeDetailed, its Allowed: a matching deny ends the loop.
AuthorizeDetailed(names, req) ==
  LET hits == SelectSeq(names, LAMBDA n : rules[n] # NoRule /\ PolicyMatches(rules[n], req))
      deny == SelectSeq(hits, LAMBDA n : rules[n].effect = "deny")
  IN deny = <<>> /\ hits # <<>>

\* RBAC.Authorize
Decides(names, req) == AuthorizeDetailed(ResolvePolicyNames(names), req)

\* validateDelegatedPolicies: what the names asked for resolve to must lie
\* within what the parent's names resolve to.
validateDelegatedPolicies(parent, asked) ==
  \A i \in DOMAIN asked :
    ToSet(ResolvePolicyNames(<<asked[i]>>)) \subseteq ToSet(ResolvePolicyNames(parent))

\* The lists of names a policy may include, or a token may carry.
NameLists == {<<>>} \cup {<<n>> : n \in PolicyNames}
               \cup {l \in PolicyNames \X PolicyNames : l[1] # l[2]}

RuleInit == rules = [n \in PolicyNames |-> NoRule]

\* UpsertPolicy, of a policy that Policy.Validate accepts.
PutRule(n) ==
  \E shape \in Shapes, includes \in {l \in NameLists : Len(l) <= MaxIncludes} :
    /\ shape.resources # {} /\ NormalizeCapabilities(shape) # {}
    /\ \A p \in shape.resources : ValidPattern(p)
    /\ rules' = [rules EXCEPT ![n] = shape @@ [includes |-> includes]]

\* DeletePolicy
DropRule(n) == rules[n] # NoRule /\ rules' = [rules EXCEPT ![n] = NoRule]

RuleNext == \E n \in PolicyNames : PutRule(n) \/ DropRule(n)

-----------------------------------------------------------------------------
(* What a decision means: over the set of policies reached by includes.    *)

RECURSIVE Reached(_)
Reached(S) ==
  LET T == S \cup UNION {ToSet(rules[n].includes) : n \in {m \in S : rules[m] # NoRule}}
  IN IF T = S THEN S ELSE Reached(T)

Hits(S, req) == {n \in S : rules[n] # NoRule /\ PolicyMatches(rules[n], req)}

HasRules == \E n \in PolicyNames : rules[n] # NoRule

\* When there are policies at all, a request is allowed exactly when one
\* reached from the token's names allows it and none reached denies it,
\* however deep, in whatever order, through cycles, missing names and
\* repeated names (authz.go ResolvePolicyNames and AuthorizeDetailed).
DenyWins ==
  HasRules => \A names \in NameLists, req \in Requests :
    Decides(names, req) <=>
      LET hits == Hits(Reached(ToSet(names)), req)
      IN hits # {} /\ \A n \in hits : rules[n].effect = "allow"

\* An agent handed a part of its parent's policies can do nothing that its
\* parent cannot, unless the parent is held back by a deny that was not
\* handed on (agent.go validateDelegatedPolicies).
DelegationNarrows ==
  HasRules => \A req \in Requests : \A asked \in {l \in NameLists : Decides(l, req)}, parent \in NameLists :
    validateDelegatedPolicies(parent, asked)
    => \/ Decides(parent, req)
       \/ \E n \in Hits(Reached(ToSet(parent)), req) \ Reached(ToSet(asked)) :
            rules[n].effect = "deny"
============================================================================
