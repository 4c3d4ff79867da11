--------------------------- MODULE MCMemoryEffects ---------------------------
(***************************************************************************)
(* Small instances of MemoryEffects: every call graph over the functions   *)
(* of the configuration, with calls that swap their two arguments, and     *)
(* functions that may write to their first argument; and the modules where *)
(* the attributes say less than the code they are attached to does.        *)
(***************************************************************************)
EXTENDS MemoryEffects, TLC

CONSTANTS f, g, h, r

Store == [kind |-> "memory", callee |-> Unknown, operands |-> <<1>>,
          effects |-> {"write"}, on |-> 1, free |-> FALSE]
Fence == [kind |-> "opaque", callee |-> Unknown, operands |-> <<Local>>,
          effects |-> {}, on |-> Local, free |-> FALSE]
Call(c, args) == [kind |-> "call", callee |-> c, operands |-> args,
                  effects |-> {}, on |-> Local, free |-> FALSE]
Indirect(args) == [Call(Unknown, args) EXCEPT !.kind = "indirect"]
JITCall(c) == [Call(c, <<Local, 1>>) EXCEPT !.kind = "jit"]
KernelCall(c) == [Call(c, <<2, Local>>) EXCEPT !.kind = "kernel", !.free = TRUE]
Custom == [Fence EXCEPT !.kind = "custom", !.operands = <<2>>]

Bodies(calls) == {o \union c : o \in SUBSET {Store}, c \in SUBSET calls}

\* Every graph of plain calls.
AllGraphs == [Func -> Bodies({Call(c, <<2, 1>>) : c \in Func})]

\* Graphs of two functions where every other kind of operation occurs.
MixedGraphs ==
  LET Two == {f, g}
      Body == Bodies({Call(Unknown, <<1, Local>>), Fence, Custom}
                       \union {JITCall(c) : c \in Two})
                \union {{KernelCall(c), Store} : c \in Two}
                \union {{Call(c, <<1, 1>>), Indirect(<<2>>)} : c \in Two}
  IN  {m \in [Func -> Body \union {{}}] : \A c \in Func \ Two : m[c] = {}}

EveryGraph == AllGraphs \union MixedGraphs

\* A chain of calls f, g, h where h writes, beside a function that calls itself.
ChainBesideCycle ==
  {(f :> {Call(g, <<2, 1>>)} @@ g :> {Call(h, <<2, 1>>)} @@ h :> {Store}
      @@ r :> {Call(r, <<1, 2>>)})}

\* f passes its argument to a function it was given.
CallsValue == {(f :> {Indirect(<<1>>)})}

\* f passes its argument twice to g, which writes to the second.
PassesTwice == {(f :> {Call(g, <<1, 1>>)} @@ g :> {[Store EXCEPT !.operands = <<2>>, !.on = 2]})}

\* f calls g, which writes.
CallsWriter == {(f :> {Call(g, <<1, 2>>)} @@ g :> {Store})}

\* f passes its argument to an unknown function, beside one that calls itself.
UnknownBesideCycle == {(f :> {Call(Unknown, <<1, Local>>)} @@ r :> {Call(r, <<1, 2>>)})}
=============================================================================
