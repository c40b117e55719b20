---------------------------- MODULE MCRuleCalls -----------------------------
EXTENDS RuleCalls

Dbl(n) == [t |-> "DOUBLE", v |-> n]
Bool(b) == [t |-> "BOOL", v |-> b]
Str(s) == [t |-> "STRING", v |-> s]

\* Rule 2 takes a double and a bool, 3 two texts. Two arguments of each have one
\* text: 1.2 and 1.4 with any bool, and a "|" at the end of the first text or at
\* the beginning of the second.
MCArguments ==
  << {<<>>},
     {<<Dbl(12), Bool(TRUE)>>, <<Dbl(14), Bool(FALSE)>>, <<Dbl(-12), Bool(TRUE)>>},
     {<<Str(<<1>>), Str(<<2, 3>>)>>, <<Str(<<1, 2>>), Str(<<3>>)>>,
      <<Str(<<1, BAR>>), Str(<<3>>)>>, <<Str(<<1>>), Str(<<BAR, 3>>)>>} >>
=============================================================================
