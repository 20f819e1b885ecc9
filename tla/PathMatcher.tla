------------------------------ MODULE PathMatcher ------------------------------
(***************************************************************************)
(* The path templates of an HTTP API specification: the parsed template    *)
(* (api_spec/src/http_template.cc), the trie they are registered in and    *)
(* its lookup (path_matcher_node.cc), and the matcher with custom verbs    *)
(* and variable bindings (path_matcher.h).                                 *)
(*                                                                         *)
(* A template is what the grammar makes of its text: a sequence of items,  *)
(* each a variable with its segments or, with var = "", one segment, and a *)
(* verb, "" if there is none. A request is its segments and the text after *)
(* a colon in the last one. Characters, escapes and the query are left out.*)
(***************************************************************************)
EXTENDS Integers, SequencesExt

CONSTANTS
  Registrations,  \* the pairs of an HTTP method and a template to register
  Requests,       \* the requests to look up
  HttpMethods,    \* the HTTP methods of the requests
  MaxRegister     \* bound: calls of Register

VARIABLES
  trie,     \* the nodes, each named by the keys that lead to it from the root
  verbs,    \* custom_verbs_
  methods,  \* methods_: what was registered, a method is known by its index
  calls     \* calls of Register so far

vars == <<trie, verbs, methods, calls>>

Null == 0                   \* no method
WildCardPathPart == "*"
WildCardPath == "**"
AnyMethod == "*"
-------------------------------------------------------------------------------
(* HttpTemplate. *)

Segments(items) == FlattenSeq([i \in DOMAIN items |-> items[i].segs])

\* Only constant path segments are allowed after '**'.
ValidateParts(t) ==
  LET segs == Segments(t.items)
  IN  \A i, j \in DOMAIN segs : i < j /\ segs[i] = WildCardPath => segs[j] \notin {WildCardPathPart, WildCardPath}

\* Mutant: the verb of a template is not counted as a segment.
VariableNoVerb(t, i) ==
  LET start == Len(Segments(SubSeq(t.items, 1, i - 1)))
      end == start + Len(t.items[i].segs)
      all == Len(Segments(t.items))
  IN  [start |-> start, end |-> IF WildCardPath \in ToSet(t.items[i].segs) THEN end - all - 1 ELSE end]

\* The range of the i-th item; with a '**' the end counts from the end of the
\* path, where -1 is the end.
Variable(t, i) ==
  LET start == Len(Segments(SubSeq(t.items, 1, i - 1)))
      end == start + Len(t.items[i].segs)
      all == Len(Segments(t.items))
      verb == IF t.verb = "" THEN 0 ELSE 1
  IN  [start |-> start, end |-> IF WildCardPath \in ToSet(t.items[i].segs) THEN end - all - 1 - verb ELSE end]

\* TransformHttpTemplate: the verb is one more segment.
PathInfo(t) == Segments(t.items) \o IF t.verb = "" THEN <<>> ELSE <<t.verb>>
-------------------------------------------------------------------------------
(* PathMatcherNode. *)

NewNode(keys) == [wildcard |-> keys # <<>> /\ Last(keys) = WildCardPath, results |-> <<>>]

\* InsertTemplate down to the node of the path: nodes that are missing are added.
WithNodes(nodes, path) ==
  [keys \in DOMAIN nodes \union Prefixes(path) |-> IF keys \in DOMAIN nodes THEN nodes[keys] ELSE NewNode(keys)]

Registered(nodes, path, method) == path \in DOMAIN nodes /\ method \in DOMAIN nodes[path].results

\* An existing result is kept and marked.
InsertPath(nodes, path, method, data) ==
  LET grown == WithNodes(nodes, path)
      old == grown[path].results
      new == [m \in DOMAIN old \union {method} |->
                IF m # method THEN old[m]
                ELSE IF m \in DOMAIN old THEN [old[m] EXCEPT !.is_multiple = TRUE]
                ELSE [data |-> data, is_multiple |-> FALSE]]
  IN  [grown EXCEPT ![path].results = new]

GetResultForHttpMethod(nodes, keys, method) ==
  LET results == IF keys \in DOMAIN nodes THEN nodes[keys].results ELSE <<>>
  IN  IF method \in DOMAIN results THEN results[method].data
      ELSE IF AnyMethod \in DOMAIN results THEN results[AnyMethod].data
      ELSE Null

FirstFound(found) == IF \E i \in DOMAIN found : found[i] # Null THEN SelectSeq(found, LAMBDA d : d # Null)[1] ELSE Null

\* Mutant: a literal child that leads nowhere is not given up.
RECURSIVE LookupPathGreedy(_, _, _, _)
LookupPathGreedy(nodes, keys, parts, method) ==
  LET fromChild(key) ==
        IF Append(keys, key) \in DOMAIN nodes
        THEN LookupPathGreedy(nodes, Append(keys, key), Tail(parts), method) ELSE Null
  IN  IF parts = <<>>
      THEN FirstFound(<<GetResultForHttpMethod(nodes, keys, method),
                        GetResultForHttpMethod(nodes, Append(keys, WildCardPath), method)>>)
      ELSE IF Append(keys, Head(parts)) \in DOMAIN nodes THEN fromChild(Head(parts))
      ELSE IF nodes[keys].wildcard THEN LookupPathGreedy(nodes, keys, Tail(parts), method)
      ELSE FirstFound(<<fromChild(WildCardPathPart), fromChild(WildCardPath)>>)

\* The depth-first search from the node keys. The key "/." of a single
\* parameter is never inserted, and is left out.
RECURSIVE LookupPath(_, _, _, _)
LookupPath(nodes, keys, parts, method) ==
  LET fromChild(key) ==
        IF Append(keys, key) \in DOMAIN nodes
        THEN LookupPath(nodes, Append(keys, key), Tail(parts), method) ELSE Null
  IN  IF parts = <<>>
      THEN FirstFound(<<GetResultForHttpMethod(nodes, keys, method),
                        GetResultForHttpMethod(nodes, Append(keys, WildCardPath), method)>>)
      ELSE LET literal == fromChild(Head(parts))
           IN  IF literal # Null THEN literal
               ELSE IF nodes[keys].wildcard THEN LookupPath(nodes, keys, Tail(parts), method)
               ELSE FirstFound(<<fromChild(WildCardPathPart), fromChild(WildCardPath)>>)
-------------------------------------------------------------------------------
(* PathMatcher and its builder. *)

RECURSIVE WithoutTrailingEmpty(_)
WithoutTrailingEmpty(parts) ==
  IF parts # <<>> /\ Last(parts) = "" THEN WithoutTrailingEmpty(Front(parts)) ELSE parts

\* A configured custom verb becomes a part; any other stays in the last part.
ExtractRequestParts(request, custom_verbs) ==
  LET segs == request.segs
  IN  WithoutTrailingEmpty(
        IF request.verb = "" THEN segs
        ELSE IF request.verb \in custom_verbs THEN Append(segs, request.verb)
        ELSE Append(Front(segs), Last(segs) \o ":" \o request.verb))

Lookup(request, method) == LookupPath(trie, <<>>, ExtractRequestParts(request, verbs), method)

\* The parts bound to a variable; more than one, or any of a '**', are unescaped
\* except for reserved characters.
ExtractBinding(var, parts) ==
  LET end == IF var.end >= 0 THEN var.end ELSE Len(parts) + var.end + 1
  IN  [first |-> var.start, end |-> end,
       value |-> SubSeq(parts, var.start + 1, end),
       is_multipart |-> end - var.start > 1 \/ var.end < 0]

Init ==
  /\ trie = [keys \in {<<>>} |-> NewNode(keys)]
  /\ verbs = {}
  /\ methods = <<>>
  /\ calls = 0

\* Register returns true.
Register(r) ==
  LET path == PathInfo(r.template)
  IN  /\ calls < MaxRegister /\ calls' = calls + 1
      /\ ValidateParts(r.template) /\ ~Registered(trie, path, r.method)
      /\ trie' = InsertPath(trie, path, r.method, Len(methods) + 1)
      /\ methods' = Append(methods, r)
      /\ verbs' = verbs \union ({r.template.verb} \ {""})

\* Register returns false: the template is invalid, or its path is registered.
RegisterRefused(r) ==
  LET path == PathInfo(r.template)
  IN  /\ calls < MaxRegister /\ calls' = calls + 1
      /\ ~ValidateParts(r.template) \/ Registered(trie, path, r.method)
      /\ trie' = IF ValidateParts(r.template) THEN InsertPath(trie, path, r.method, Null) ELSE trie
      /\ UNCHANGED <<verbs, methods>>

Next == \E r \in Registrations : Register(r) \/ RegisterRefused(r)

Spec == Init /\ [][Next]_vars
-------------------------------------------------------------------------------
(* What a lookup should find, without the trie. *)

\* '*' stands for one part, '**' for the remaining parts if nothing follows it
\* and otherwise for one part or more.
Matches(path, parts) ==
  LET deep == SelectInSeq(path, LAMBDA key : key = WildCardPath)
      fits(i, j) == path[i] \in {WildCardPathPart, parts[j]}
      after == Len(path) - deep
  IN  IF deep = 0
      THEN Len(path) = Len(parts) /\ \A i \in DOMAIN path : fits(i, i)
      ELSE /\ Len(parts) >= deep - 1 + after + IF after = 0 THEN 0 ELSE 1
           /\ \A i \in 1 .. deep - 1 : fits(i, i)
           /\ \A i \in 0 .. after - 1 : path[Len(path) - i] = parts[Len(parts) - i]

\* Where two paths first differ, a literal goes before '*', that before the end
\* of the path, and that before '**'; of two literals after a '**' the longer
\* path wins, and of two methods of one path the one that is named.
Rank(path, i) ==
  IF i > Len(path) THEN 2 ELSE IF path[i] = WildCardPathPart THEN 1 ELSE IF path[i] = WildCardPath THEN 3 ELSE 0

Preferred(r, s) ==
  LET p == PathInfo(r.template)
      q == PathInfo(s.template)
      i == Len(LongestCommonPrefix({p, q})) + 1
  IN  IF p = q THEN s.method = AnyMethod
      ELSE Rank(p, i) < Rank(q, i) \/ (Rank(p, i) = 0 /\ Rank(q, i) = 0 /\ Len(p) > Len(q))

Candidates(request, method) ==
  LET parts == ExtractRequestParts(request, verbs)
  IN  {d \in DOMAIN methods : methods[d].method \in {method, AnyMethod} /\ Matches(PathInfo(methods[d].template), parts)}
-------------------------------------------------------------------------------
(* Properties. *)

TypeOK ==
  /\ <<>> \in DOMAIN trie /\ \A keys \in DOMAIN trie : Prefixes(keys) \subseteq DOMAIN trie
  /\ ToSet(methods) \subseteq Registrations
  /\ calls \in 0 .. MaxRegister

\* In whatever order templates are registered, the lookup of a request finds a
\* method exactly if a registered template matches, and then the most specific
\* one: the search of the trie gives up no branch too early.
LookupFindsBest ==
  /\ TypeOK
  /\ \A request \in Requests, method \in HttpMethods :
       LET found == Lookup(request, method)
           candidates == Candidates(request, method)
       IN  /\ found = Null <=> candidates = {}
           /\ found # Null => /\ found \in candidates
                              /\ \A d \in candidates \ {found} : Preferred(methods[found], methods[d])

\* The '**' of a template, if any, is in the item of the variable or after it.
BeforeWildCard(t, i) == WildCardPath \notin ToSet(Segments(SubSeq(t.items, 1, i - 1)))

\* The parts bound to a variable of the template that is found lie within the
\* request and match the segments of the variable, and the parts before and after
\* them match the rest of the template, also for a '**' that stands for no part or
\* is followed by constants or by a verb. A variable of constants after the '**'
\* is excepted: its range counts from the start of the template.
BindingsMatch ==
  \A request \in Requests, method \in HttpMethods :
    LET found == Lookup(request, method)
        parts == ExtractRequestParts(request, verbs)
        t == methods[found].template
    IN  found # Null =>
          \A i \in {j \in DOMAIN t.items : t.items[j].var # "" /\ BeforeWildCard(t, j)} :
            LET binding == ExtractBinding(Variable(t, i), parts)
            IN  /\ binding.first <= binding.end /\ binding.end <= Len(parts)
                /\ Matches(t.items[i].segs, binding.value)
                /\ Matches(Segments(SubSeq(t.items, 1, i - 1)), SubSeq(parts, 1, binding.first))
                /\ Matches(PathInfo([t EXCEPT !.items = SubSeq(@, i + 1, Len(@))]), SubSeq(parts, binding.end + 1, Len(parts)))
================================================================================
