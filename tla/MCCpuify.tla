------------------------------- MODULE MCCpuify -------------------------------
(* Functions for Cpuify. G starts as <<1, 2>>, H as zeros.                  *)
EXTENDS Cpuify

MCMethods == {[kind |-> "omp", mincut |-> FALSE]} \union [kind : {"wrap", "ifsplit", "ifhoist"}, mincut : BOOLEAN]

\* Values of G, a load of memory that is or is not written, and a local
\* memory cross a barrier.
Crossing ==
  { <<Load("x", "G", "tid"), Store("H", "tid", "x"), Barrier, Load("y", "H", "other"), Add("z", "x", "y"), Store("G", "tid", "z")>>,
    <<Load("x", "G", "tid"), Add("y", "x", "tid"), Add("z", "y", "1"), Barrier,
      Store("G", "other", "z"), Barrier, Store("H", "tid", "z"), Store("H", "tid", "y")>>,
    <<Alloca("A"), Load("x", "G", "tid"), Store("A", "tid", "x"), Barrier, Load("y", "A", "tid"), Store("G", "other", "y")>>,
    <<Load("x", "G", "tid"), Store("G", "tid", "0"), Barrier, Store("H", "other", "x")>> }

\* Barriers some of which are not needed.
Redundant ==
  { <<Store("H", "tid", "1"), Barrier, Load("x", "G", "other"), Barrier, Load("y", "H", "other"), Barrier, Store("G", "tid", "y")>>,
    <<For("i", "2", <<IfElse("i", <<Load("x", "H", "other"), Store("G", "tid", "x")>>, <<Store("H", "tid", "1")>>), Barrier, Barrier>>)>> }

\* Barriers in a loop, with a prefix that must not be repeated, or a value
\* that the loop carries.
InLoops ==
  { <<Load("n", "G", "1"), For("i", "n", <<Load("x", "H", "other"), Barrier, Add("y", "x", "1"), Store("H", "tid", "y"), Barrier>>),
      Store("G", "tid", "n")>>,
    <<Load("x", "G", "tid"), Store("H", "tid", "0"), For("i", "2", <<Store("G", "tid", "x"), Barrier, Load("y", "G", "other"), Barrier, Store("H", "other", "y")>>)>>,
    <<Load("x", "G", "tid"), For("i", "2", <<Store("H", "tid", "x"), Barrier, Load("y", "H", "other"), Store("G", "tid", "y"), Barrier>>)>>,
    <<Load("x", "G", "tid"),
      Nest("for", <<"r">>, <<"2", "x">>,
           <<<<Store("H", "tid", "acc"), Barrier, Load("y", "H", "other"), Add("z", "acc", "y"), Barrier>>>>, <<<<"z">>>>, <<"i", "acc">>),
      Store("G", "tid", "r")>>,
    <<Store("H", "tid", "1"), Barrier,
      While(<<Load("c", "G", "0")>>, "c", <<Load("h", "H", "other"), Barrier, Store("G", "tid", "h"), Store("H", "tid", "0"), Barrier>>),
      Store("H", "tid", "2")>>,
    <<Alloca("A"), Store("A", "tid", "1"), Barrier, Load("x", "G", "tid"),
      While(<<Load("c", "G", "0")>>, "c",
            <<Barrier, Load("h", "A", "tid"), Store("G", "tid", "h"), Store("A", "tid", "0"), Store("H", "tid", "x"), Barrier>>)>> }

\* Barriers in an if whose condition is a load.
Body == <<Store("H", "tid", "1"), Barrier, Load("y", "H", "other"), Store("G", "tid", "y")>>
InIfs ==
  { <<Load("c", "G", "0"), If("c", Body), Load("z", "G", "tid"), Store("H", "tid", "z")>>,
    <<Load("c", "H", "0"), If("c", Body)>>,
    <<Store("H", "tid", "1"), Barrier, Load("c", "H", "0"), If("c", <<Load("x", "G", "other"), Barrier, Store("G", "tid", "x")>>)>>,
    <<Load("x", "H", "tid"), Add("y", "x", "1"), Store("H", "tid", "y"), Load("c", "G", "0"),
      IfElse("c", <<Barrier, Load("z", "H", "other"), Store("G", "tid", "z")>>, <<>>)>>,
    <<Load("c", "G", "0"), IfElse("c", <<Store("H", "tid", "1"), Barrier>>, <<Barrier>>), Load("z", "H", "other"), Store("G", "tid", "z")>>,
    <<Load("c", "H", "0"), Barrier, Store("H", "tid", "2"), IfElse("c", Body, <<Load("x", "G", "other"), Barrier, Store("G", "tid", "x")>>)>>,
    <<Load("c", "H", "0"), Load("g", "G", "tid"), IfElse("c", Body, <<Load("x", "G", "other"), Barrier, Add("w", "x", "g"), Store("G", "tid", "w")>>)>> }

\* The result of the if is stored, or used otherwise.
Choice == Nest("if", <<"r">>, <<"c">>, <<<<Store("H", "tid", "1"), Barrier, Load("x", "H", "other")>>, <<>>>>, <<<<"x">>, <<"c">>>>, <<>>)
WithResult ==
  { <<Load("c", "G", "0"), Choice, Store("G", "tid", "r")>>,
    <<Load("c", "G", "0"), Choice, Barrier, Store("G", "other", "2"), Barrier, Store("G", "tid", "r")>>,
    <<Load("c", "H", "0"), Choice, Store("G", "tid", "2"), Store("G", "tid", "r")>>,
    <<Load("c", "H", "0"), Barrier, Choice, Load("x", "G", "tid"), Store("G", "tid", "r"), Store("H", "tid", "x")>>,
    <<Load("c", "H", "0"), Choice, Add("s", "r", "1"), Store("G", "tid", "s")>> }

\* One in the other.
Both ==
  { <<For("i", "2", <<Load("c", "H", "0"), If("c", <<Load("x", "G", "other"), Barrier, Store("G", "tid", "x")>>), Barrier, Store("H", "tid", "i"), Barrier>>)>>,
    <<Load("x", "G", "tid"),
      Nest("for", <<"q">>, <<"2", "x">>,
           <<<<Nest("if", <<"r">>, <<"i">>, <<<<Store("H", "tid", "acc"), Barrier, Load("y", "H", "other")>>, <<>>>>, <<<<"y">>, <<"acc">>>>, <<>>)>>>>,
           <<<<"r">>>>, <<"i", "acc">>),
      Store("G", "tid", "q")>> }

MCPrograms == {<<Parallel(body)>> : body \in Crossing \union Redundant \union InLoops \union InIfs \union WithResult \union Both}

\* What is in front of an if that is hoisted: each thread adds one to its place.
CountsThenBranches ==
  {<<Parallel(<<Load("x", "H", "tid"), Add("y", "x", "1"), Store("H", "tid", "y"), Load("c", "G", "0"),
                IfElse("c", <<Barrier, Load("z", "H", "other"), Store("G", "tid", "z")>>, <<>>)>>)>>}
HoistOnly == {[kind |-> "ifhoist", mincut |-> FALSE]}
=============================================================================
