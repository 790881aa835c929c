----------------------------- MODULE MCCodegen -----------------------------
(* Instances of Codegen: a function with one result, two kinds of operands. *)
EXTENDS Codegen

\* Signatures of blocks: one with a result only, one that a vector passes through.
SmallBlockTypes ==
    {[params |-> <<>>, results |-> <<"i32">>],
     [params |-> <<"v128">>, results |-> <<"v128">>]}

\* i32.const, i32.div_s, memory.grow, i32x4.splat, ref.null.
SmallOpTypes ==
    {[params |-> <<>>, results |-> <<"i32">>, values |-> <<"i32">>, via |-> "inst"],
     [params |-> <<"i32", "i32">>, results |-> <<"i32">>, values |-> <<"i32">>, via |-> "trap"],
     [params |-> <<"i32">>, results |-> <<"i32">>, values |-> <<"i32">>, via |-> "call"],
     [params |-> <<"i32">>, results |-> <<"v128">>, values |-> <<"i32x4">>, via |-> "inst"],
     [params |-> <<>>, results |-> <<"ref">>, values |-> <<"ptr">>, via |-> "inst"]}

SmallCalleeTypes == {[params |-> <<"v128">>, results |-> <<"i32", "v128">>]}

SmallExnParams == {<<>>, <<"i32">>, <<"i32", "v128">>}

SmallLocals == {"i32", "v128"}

SmallResults == <<"i32">>
=============================================================================
