----------------------------- MODULE PathMatcherMC -----------------------------
(* Templates with every kind of segment, and the short paths over their words. *)
EXTENDS PathMatcher

Seg(s) == [var |-> "", segs |-> <<s>>]
Var(segs) == [var |-> "x", segs |-> segs]
T(items, verb) == [items |-> items, verb |-> verb]

Templates ==
  {T(<<Seg("a"), Seg("b")>>, ""),                     \* /a/b
   T(<<Seg("a"), Var(<<"*">>)>>, ""),                 \* /a/{x}
   T(<<Seg("*"), Seg("b")>>, ""),                     \* /*/b
   T(<<Seg("a"), Var(<<"**">>)>>, ""),                \* /a/{x=**}
   T(<<Seg("**")>>, ""),                              \* /**
   T(<<Var(<<"**">>), Seg("b")>>, ""),                \* /{x=**}/b
   T(<<Var(<<"**", "a">>), Seg("b")>>, ""),           \* /{x=**/a}/b
   T(<<Seg("**"), Var(<<"b">>)>>, "v"),               \* /**/{x=b}:v
   T(<<Var(<<"a", "**">>)>>, "v"),                    \* /{x=a/**}:v
   T(<<Seg("*")>>, "v"),                              \* /*:v
   T(<<Var(<<"a", "*">>), Var(<<"**">>)>>, ""),       \* /{x=a/*}/{x=**}
   T(<<Seg("**"), Seg("*")>>, "")}                    \* refused

MCRegistrations ==
  [method : {"GET"}, template : Templates]
    \union [method : {"*"}, template : {T(<<Seg("a"), Seg("*")>>, ""), T(<<Seg("**")>>, "")}]

MCRequests ==
  [segs : SeqOf({"a", "b", "c"}, 3) \union {<<"a", "">>, <<"a", "", "b">>}, verb : {""}]
    \union [segs : SeqOf({"a", "b"}, 3) \ {<<>>}, verb : {"v"}]
================================================================================
