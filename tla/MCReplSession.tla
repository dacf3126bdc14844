--------------------------- MODULE MCReplSession ---------------------------
EXTENDS ReplSession, TLC

Expression(globals, functions, lets, strings) ==
  [vars |-> globals, funs |-> functions, lets |-> lets, strings |-> strings]

NameSet == {"f", "g", "x", "y"}

\* (define-var x ...), (let ((t ...)) ...), a literal, two functions at once
Definitions == {
  Expression(<<"x">>, <<>>, 0, 1),
  Expression(<<"y">>, <<"f">>, 1, 1),
  Expression(<<>>, <<"g", "f">>, 0, 2)}

\* What running code evaluates: nothing but code, one kind of definition, or all.
Strings == {
  Expression(<<>>, <<>>, 0, 0),
  Expression(<<"x">>, <<>>, 1, 0),
  Expression(<<>>, <<"f">>, 0, 0),
  Expression(<<"y">>, <<"g">>, 0, 1)}
=============================================================================
