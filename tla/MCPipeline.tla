------------------------------- MODULE MCPipeline -------------------------------
EXTENDS Pipeline

CONSTANTS T, U

MCFunctions ==
  {[takes |-> {<<T>>}, gives |-> T, throws |-> TRUE],
   [takes |-> {<<T>>, <<U>>}, gives |-> U, throws |-> FALSE],
   [takes |-> {<<T>>, <<U>>, <<T, U>>}, gives |-> Void, throws |-> FALSE],
   [takes |-> {<<>>}, gives |-> T, throws |-> TRUE]}

Just(ts) == [kind |-> "just", ts |-> ts]
AwaitableOf(ts) == [kind |-> "awaitable", ts |-> ts]
Custom(sigs) == [kind |-> "custom", sigs |-> sigs]

\* Senders that list values twice, errors of their own, too little, nothing.
MCBases ==
  {Just(<<>>), Just(<<T>>), Just(<<T, U>>), AwaitableOf(<<>>), AwaitableOf(<<U>>),
   [kind |-> "read"], [kind |-> "schedule"],
   Custom(<<Sig("value", <<T>>), Sig("value", <<T>>), Sig("error", <<U>>), Stopped>>),
   Custom(<<Sig("value", <<U>>), Error, Sig("value", <<T, U>>)>>),
   Custom(<<Sig("value", <<T>>)>>), Custom(<<Error, Stopped>>), Custom(<<>>)}
===============================================================================
