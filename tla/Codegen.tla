------------------------------ MODULE Codegen ------------------------------
(***************************************************************************)
(* How WAVM turns the body of one WebAssembly function into LLVM IR.       *)
(*                                                                         *)
(* Two machines read the same sequence of operators.  The validator        *)
(* (Lib/IR/Validate.cpp, FunctionValidationContext) keeps a stack of       *)
(* operand types and a stack of control contexts, and throws at the first  *)
(* operator that is not valid.  The emitter (Lib/LLVMJIT/Emit*.cpp,        *)
(* EmitFunctionContext) keeps a stack of LLVM values, its own control      *)
(* stack, a stack of branch targets and stacks of try and catch contexts,  *)
(* and trusts the validator: it only asserts.  Once a control context has  *)
(* become unreachable, UnreachableOpVisitor decodes past operators and     *)
(* counts nested control structures.                                       *)
(*                                                                         *)
(* In the program the whole body is validated before any of it is emitted. *)
(* Both machines are deterministic functions of the operators read so far, *)
(* and every accepted prefix can be completed to a valid body, so the      *)
(* model lets them read each operator together: v is the validator's       *)
(* state, e the emitter's, after the same prefix.  The names that begin    *)
(* with v are methods of the validator, those with e methods of the        *)
(* emitter.                                                                *)
(*                                                                         *)
(* A value is its LLVM type.  A v128 is an i64x2 in its canonical form and *)
(* an i32x4 when it comes from an operator on lanes; i32x4 stands for all  *)
(* the other vector types.                                                 *)
(*                                                                         *)
(* What the emitter gets wrong is collected in e.bad, and ends the body:   *)
(*   "assert"  a WAVM_ASSERT fails, but for the one in rethrow,            *)
(*   "after"   an instruction is inserted after a block's terminator,      *)
(*   "phi"     a PHI gets a value that is not of its type,                 *)
(* and three things that it does get wrong:                                *)
(*   "switch"  br_table inserts a conversion after its switch,             *)
(*   "rethrow" the assertion in rethrow fails, or rethrow takes another    *)
(*             exception than the one it names,                            *)
(*   "args"    catch_ takes the arguments of an exception out of order.    *)
(***************************************************************************)
EXTENDS Naturals, Sequences, SequencesExt

CONSTANTS
    FuncResults,  \* the result types of the function
    Locals,       \* the types of its parameters and locals
    BlockTypes,   \* block signatures, records with params and results
    OpTypes,      \* signatures of operators that are not control operators
    CalleeTypes,  \* signatures of the functions it calls
    ExnParams,    \* parameter types of the exception types
    MaxDepth,     \* bound: contexts on the control stack
    MaxStack,     \* bound: operands on the stack
    MaxDead       \* bound: operands of unreachable code

VARIABLES v, e

vars == <<v, e>>

\* Evaluates the argument once.
With(x, F(_)) == CHOOSE r \in {F(y) : y \in {x}} : TRUE

-----------------------------------------------------------------------------
(***************************************************************************)
(* Types                                                                   *)
(***************************************************************************)
isNumericType(t) == t \in {"i32", "v128"}

isReferenceType(t) == t = "ref"

isSubtype(sub, super) == sub = super \/ sub = "none" \/ super = "any"

asLLVMType(t) == CASE t = "i32" -> "i32" [] t = "v128" -> "i64x2" [] t = "ref" -> "ptr"

asLLVMTypes(ts) == [i \in DOMAIN ts |-> asLLVMType(ts[i])]

Canonical(t) == IF t = "i32x4" THEN "i64x2" ELSE t

LastN(s, n) == SubSeq(s, Len(s) - n + 1, Len(s))

DropN(s, n) == SubSeq(s, 1, Len(s) - n)

-----------------------------------------------------------------------------
(***************************************************************************)
(* The validator                                                           *)
(***************************************************************************)
VTop(s) == Last(s.ctrl)

Throw(s) == [s EXCEPT !.ok = FALSE]

vPushControl(s, type, params, results, elseParams) ==
    [s EXCEPT !.ctrl = Append(@, [type |-> type, outer |-> Len(s.stack), params |-> params,
                                  results |-> results, reach |-> TRUE,
                                  elseParams |-> elseParams])]

\* The type of the operand that many places below the top, "none" where an
\* unreachable context has no more operands, "throw" where a reachable one has none.
peekOperand(s, depth) ==
    IF Len(s.stack) > VTop(s).outer + depth THEN s.stack[Len(s.stack) - depth]
    ELSE IF VTop(s).reach THEN "throw" ELSE "none"

Fits(s, depth, expected) ==
    LET actual == peekOperand(s, depth) IN actual # "throw" /\ isSubtype(actual, expected)

vPop(s, expected) ==
    IF ~Fits(s, 0, expected) THEN Throw(s)
    ELSE IF Len(s.stack) > VTop(s).outer THEN [s EXCEPT !.stack = Front(@)] ELSE s

\* Pops the expected types from the last to the first.
vPopTuple(s, types) ==
    FoldRight(LAMBDA t, acc : IF acc.ok THEN With(acc, LAMBDA a : vPop(a, t)) ELSE acc, types, s)

vPeekTuple(s, types) ==
    \A i \in DOMAIN types : Fits(s, Len(types) - i, types[i])

vPushTuple(s, types) == [s EXCEPT !.stack = @ \o types]

validateStackEmpty(s) == IF Len(s.stack) # VTop(s).outer THEN Throw(s) ELSE s

vEnterUnreachable(s) ==
    [s EXCEPT !.stack = SubSeq(@, 1, VTop(s).outer), !.ctrl[Len(s.ctrl)].reach = FALSE]

vTarget(s, depth) == s.ctrl[Len(s.ctrl) - depth]

\* Continues with F unless the state has thrown.
Then(s, F(_)) == With(s, LAMBDA t : IF t.ok THEN F(t) ELSE t)

vStructure(s, type, bt) ==
    Then(vPopTuple(s, bt.params), LAMBDA t :
        vPushTuple(vPushControl(t, type, IF type = "loop" THEN bt.params ELSE bt.results,
                                bt.results, IF type = "ifThen" THEN bt.params ELSE <<>>),
                   bt.params))

vIf(s, bt) == Then(vPop(s, "i32"), LAMBDA t : vStructure(t, "ifThen", bt))

\* What else, catch and catch_all share: the clause before them must leave its results.
vClause(s, type, params) ==
    Then(vPopTuple(s, VTop(s).results), LAMBDA t :
    Then(validateStackEmpty(t), LAMBDA u :
        vPushTuple([u EXCEPT !.ctrl[Len(u.ctrl)].type = type,
                             !.ctrl[Len(u.ctrl)].reach = TRUE], params)))

vElse(s) ==
    IF VTop(s).type # "ifThen" THEN Throw(s) ELSE vClause(s, "ifElse", VTop(s).elseParams)

vCatch(s, params) ==
    IF VTop(s).type \notin {"try_", "catch_"} THEN Throw(s) ELSE vClause(s, "catch_", params)

\* Mistake: an if without an else may change the operands.
endElselessIf(s) ==
    LET top == VTop(s) IN
    IF top.type = "try_" THEN Throw(s)
    ELSE Then(vPopTuple(s, top.results), LAMBDA t :
         Then(validateStackEmpty(t), LAMBDA u :
            [u EXCEPT !.ctrl = Front(@),
                      !.stack = IF Len(u.ctrl) > 1 THEN @ \o top.results ELSE @]))

vEnd(s) ==
    LET top == VTop(s) IN
    IF top.type = "try_" \/ (top.type = "ifThen" /\ top.results # top.elseParams) THEN Throw(s)
    ELSE Then(vPopTuple(s, top.results), LAMBDA t :
         Then(validateStackEmpty(t), LAMBDA u :
            [u EXCEPT !.ctrl = Front(@),
                      !.stack = IF Len(u.ctrl) > 1 THEN @ \o top.results ELSE @]))

vJump(s, types) == Then(vPopTuple(s, types), LAMBDA t : vEnterUnreachable(t))

vBr(s, depth) ==
    IF depth >= Len(s.ctrl) THEN Throw(s) ELSE vJump(s, vTarget(s, depth).params)

vBrIf(s, depth) ==
    IF depth >= Len(s.ctrl) THEN Throw(s)
    ELSE LET params == vTarget(s, depth).params IN
         Then(vPop(s, "i32"), LAMBDA t :
         Then(vPopTuple(t, params), LAMBDA u : vPushTuple(u, params)))

\* A table of one target and the default.
vBrTable(s, depth, default) ==
    Then(vPop(s, "i32"), LAMBDA t :
        IF default >= Len(t.ctrl) \/ depth >= Len(t.ctrl) THEN Throw(t)
        ELSE LET params == vTarget(t, depth).params
                 defaultParams == vTarget(t, default).params IN
             IF Len(params) # Len(defaultParams) \/ ~vPeekTuple(t, params) THEN Throw(t)
             ELSE vJump(t, defaultParams))

vReturn(s) == vJump(s, FuncResults)

vDrop(s) == vPop(s, "any")

\* Untyped select: both operands have the same numeric type, as far as they are known.
vSelect(s) ==
    Then(vPop(s, "i32"), LAMBDA t :
    LET falseType == peekOperand(t, 0) IN
    Then(vPop(t, "any"), LAMBDA u :
    LET trueType == peekOperand(u, 0) IN
    Then(vPop(u, "any"), LAMBDA w :
        IF \E ty \in {falseType, trueType} : ty # "none" /\ ~isNumericType(ty) THEN Throw(w)
        ELSE IF falseType = "none" THEN vPushTuple(w, <<trueType>>)
        ELSE IF trueType \notin {"none", falseType} THEN Throw(w)
        ELSE vPushTuple(w, <<falseType>>))))

vTypedSelect(s, type) ==
    Then(vPopTuple(s, <<type, type, "i32">>), LAMBDA t : vPushTuple(t, <<type>>))

vTee(s, type) ==
    LET operand == peekOperand(s, 0) IN
    Then(vPop(s, type), LAMBDA t : vPushTuple(t, <<operand>>))

vRefIsNull(s) ==
    LET operand == peekOperand(s, 0) IN
    Then(vPop(s, "any"), LAMBDA t :
        IF ~isReferenceType(operand) /\ operand # "none" THEN Throw(t)
        ELSE vPushTuple(t, <<"i32">>))

vRethrow(s, depth) ==
    IF depth >= Len(s.ctrl) THEN Throw(s)
    ELSE IF vTarget(s, depth).type # "catch_" THEN Throw(s) ELSE vEnterUnreachable(s)

vOperator(s, type) ==
    Then(vPopTuple(s, type.params), LAMBDA t : vPushTuple(t, type.results))

-----------------------------------------------------------------------------
(***************************************************************************)
(* The emitter: operand stack, IR builder                                  *)
(***************************************************************************)
ETop(s) == Last(s.ctrl)

Expect(s, cond, label) == IF cond THEN s ELSE [s EXCEPT !.bad = @ \cup {label}]

\* An instruction appended to the block the builder is at.
Insert(s) == Expect(s, ~s.done, "after")

\* A terminator: the block takes no more instructions.
Terminate(s) == [Insert(s) EXCEPT !.done = TRUE]

\* The builder moves to a block that has no terminator yet.
SetInsertPoint(s) == [s EXCEPT !.done = FALSE]

Operands(s) == Len(s.stack) - (IF s.ctrl = <<>> THEN 0 ELSE ETop(s).outer)

\* pop and popMultiple: the callers take the values from the stack before.
ePop(s, n) ==
    IF Operands(s) >= n THEN [s EXCEPT !.stack = DropN(@, n)]
    ELSE [s EXCEPT !.bad = @ \cup {"assert"}, !.stack = DropN(@, IF n < Len(@) THEN n ELSE Len(@))]

Args(s, n) == IF Operands(s) >= n THEN LastN(s.stack, n) ELSE [i \in 1..n |-> "none"]

ePush(s, values) == [s EXCEPT !.stack = @ \o values]

\* coerceToCanonicalType inserts a bitcast for a vector that is not canonical.
Coerce(s, values) ==
    IF \E i \in DOMAIN values : Canonical(values[i]) # values[i] THEN Insert(s) ELSE s

\* A branch to a block with these PHIs: each PHI gets one value of its type.
addIncoming(s, phis, values) ==
    Expect(Coerce(s, values), [i \in DOMAIN values |-> Canonical(values[i])] = phis, "phi")

\* A call, which ends the block and continues in another one inside of a try.
emitCallOrInvoke(s) ==
    IF s.tries = <<>> THEN Insert(s) ELSE SetInsertPoint(Terminate(s))

emitConditionalTrap(s) == SetInsertPoint(Terminate(s))

-----------------------------------------------------------------------------
(***************************************************************************)
(* The emitter: control structures                                         *)
(***************************************************************************)
ePushControl(s, type, results, elseArgs) ==
    [Expect(s, s.ctrl = <<>> \/ ETop(s).reach, "assert") EXCEPT !.ctrl = Append(@,
        [type |-> type, hasElse |-> type = "ifThen", elseArgs |-> elseArgs, results |-> results,
         outer |-> Len(s.stack), outerTargets |-> Len(s.targets), reach |-> TRUE])]

\* A target is the end block of a context or the body of a loop, with PHIs for params.
pushBranchTarget(s, params, block) ==
    [s EXCEPT !.targets = Append(@, [params |-> params, block |-> block, of |-> Len(s.ctrl)])]

eEnterUnreachable(s) ==
    [Expect(s, ETop(s).outer <= Len(s.stack), "assert")
     EXCEPT !.stack = SubSeq(@, 1, ETop(s).outer), !.ctrl[Len(s.ctrl)].reach = FALSE]

\* A jump that takes its arguments from the stack to the PHIs of the block it goes to.
JumpTo(s, types) ==
    With(addIncoming(s, asLLVMTypes(types), Args(s, Len(types))), LAMBDA t :
        Terminate(ePop(t, Len(types))))

branchToEnd(s) ==
    With(IF ETop(s).reach THEN JumpTo(s, ETop(s).results) ELSE s,
         LAMBDA t : Expect(t, Len(t.stack) = ETop(t).outer, "assert"))

eBlock(s, type, bt) ==
    LET args == Args(s, Len(bt.params)) IN
    With(ePushControl(ePop(s, Len(bt.params)), type, bt.results, <<>>), LAMBDA t :
        ePush(pushBranchTarget(t, bt.results, "end"), args))

\* Mistake: a branch to a loop goes to its end.
loopBranchesToEnd(s, bt) ==
    With(ePushControl(SetInsertPoint(JumpTo(s, bt.params)), "loop", bt.results, <<>>),
         LAMBDA t : ePush(pushBranchTarget(t, bt.results, "end"), asLLVMTypes(bt.params)))

\* The arguments go to the PHIs of the body, which stand for them from there on.
eLoop(s, bt) ==
    With(ePushControl(SetInsertPoint(JumpTo(s, bt.params)), "loop", bt.results, <<>>),
         LAMBDA t : ePush(pushBranchTarget(t, bt.params, "body"), asLLVMTypes(bt.params)))

eIf(s, bt) ==
    With(Terminate(ePop(s, 1)), LAMBDA t :
    LET args == Args(t, Len(bt.params)) IN
    With(ePushControl(SetInsertPoint(ePop(t, Len(args))), "ifThen", bt.results, args), LAMBDA u :
        ePush(pushBranchTarget(u, bt.results, "end"), args)))

\* The landing pad is written into blocks of its own, then the builder comes back.
eTry(s, bt) ==
    With([s EXCEPT !.tries = Append(@, Len(s.ctrl) + 1),
                   !.catches = Append(@, Len(s.ctrl) + 1)],
         LAMBDA t : eBlock(t, "try_", bt))

\* What else, catch and catch_all end with: the context goes on in another block.
OpenClause(s, type, values) ==
    ePush([SetInsertPoint(s) EXCEPT !.ctrl[Len(s.ctrl)].type = type,
                                    !.ctrl[Len(s.ctrl)].hasElse = FALSE,
                                    !.ctrl[Len(s.ctrl)].reach = TRUE], values)

eElse(s) ==
    With(branchToEnd(s), LAMBDA t :
        OpenClause(Expect(t, ETop(t).hasElse /\ ETop(t).type = "ifThen", "assert"),
                   "ifElse", ETop(t).elseArgs))

\* The top of the try or catch stack is popped under an assertion that there is one.
Popped(stack) == IF stack = <<>> THEN stack ELSE Front(stack)

popTry(s) == [Expect(s, s.tries # <<>>, "assert") EXCEPT !.tries = Popped(@)]

\* The exception of the clause that ends here is destroyed, where control gets there.
exitCatch(s) ==
    With(Expect(s, ETop(s).type = "catch_" /\ s.catches # <<>>, "assert"), LAMBDA t :
        IF ETop(t).reach THEN emitCallOrInvoke(t) ELSE t)

\* Mistake: the try stays the one that calls of its catch clauses unwind to.
catchKeepsTry(s, params) ==
    With(Expect(s, s.catches # <<>> /\ ETop(s).type \in {"try_", "catch_"}, "assert"), LAMBDA t :
    With(branchToEnd(IF ETop(t).type = "try_" THEN t ELSE exitCatch(t)), LAMBDA u :
        OpenClause(u, "catch_", asLLVMTypes(params))))

\* Where throw_ stores the i-th of n parameters: it pops the last one first.
throwSlot(n, i) == LET argIndex == n - i - 1 IN n - argIndex - 1

\* Where catch_ loads it from.
catchSlot(n, i) == n - i - 1

\* The test of the exception type goes to the chain of handler blocks.
eCatch(s, params) ==
    LET n == Len(params)
        inOrder == \A i \in 0..(n - 1) : catchSlot(n, i) = throwSlot(n, i)
    IN
    With(Expect(s, s.catches # <<>> /\ ETop(s).type \in {"try_", "catch_"}, "assert"), LAMBDA t :
    With(branchToEnd(IF ETop(t).type = "try_" THEN popTry(t) ELSE exitCatch(t)), LAMBDA u :
        OpenClause(Expect(u, inOrder, "args"), "catch_", asLLVMTypes(params))))

endTryCatch(s) == [exitCatch(s) EXCEPT !.catches = Popped(@)]

\* An if without an else passes its arguments to the end through the else block.
DummyElse(s) ==
    IF ~ETop(s).hasElse THEN s
    ELSE Terminate(addIncoming(SetInsertPoint(s), asLLVMTypes(ETop(s).results), ETop(s).elseArgs))

\* The function's last end is followed by its return.
emitReturn(s) ==
    IF s.ctrl # <<>> THEN s
    ELSE Terminate(Expect(s, Len(s.stack) = Len(FuncResults), "assert"))

eEnd(s) ==
    With(CASE ETop(s).type = "try_" -> endTryCatch(popTry(s))
           [] ETop(s).type = "catch_" -> endTryCatch(s)
           [] OTHER -> s, LAMBDA t :
    With(DummyElse(branchToEnd(t)), LAMBDA u :
        emitReturn([Expect(SetInsertPoint(u), ETop(u).outerTargets <= Len(u.targets), "assert")
                    EXCEPT !.ctrl = Front(@),
                           !.targets = SubSeq(@, 1, ETop(u).outerTargets),
                           !.stack = @ \o asLLVMTypes(ETop(u).results)])))

-----------------------------------------------------------------------------
(***************************************************************************)
(* The emitter: branches, calls and other operators                        *)
(***************************************************************************)
eTarget(s, depth) == s.targets[Len(s.targets) - depth]

eBr(s, depth) == eEnterUnreachable(JumpTo(s, eTarget(s, depth).params))

\* The arguments stay on the stack for the block where the branch is not taken.
eBrIf(s, depth) ==
    LET params == eTarget(s, depth).params IN
    With(ePop(s, 1), LAMBDA t :
    With(addIncoming(t, asLLVMTypes(params), Args(t, Len(params))), LAMBDA u :
        SetInsertPoint(Terminate(u))))

\* The switch is written between the arguments of the default and those of the case.
eBrTable(s, depth, default) ==
    LET params == eTarget(s, default).params IN
    With(ePop(s, 1), LAMBDA t :
    LET args == Args(t, Len(params)) IN
    With(Terminate(addIncoming(ePop(t, Len(params)), asLLVMTypes(params), args)), LAMBDA u :
    LET w == addIncoming(u, asLLVMTypes(eTarget(u, depth).params), args) IN
        eEnterUnreachable(IF Coerce(u, args) = u THEN w
                          ELSE [w EXCEPT !.bad = u.bad \cup (@ \ {"after"}) \cup {"switch"}])))

eReturn(s) == eEnterUnreachable(JumpTo(s, s.ctrl[1].results))

\* unreachable, throw and rethrow: a call that does not come back.
CallThatTraps(s) == eEnterUnreachable(Terminate(emitCallOrInvoke(s)))

eThrow(s, params) ==
    With(emitCallOrInvoke(ePop(Insert(s), Len(params))), LAMBDA t : CallThatTraps(t))

\* The depth counts catch contexts, from the innermost one.
eRethrow(s, depth) ==
    LET found == /\ depth < Len(s.catches)
                 /\ s.catches[Len(s.catches) - depth] = Len(s.ctrl) - depth
    IN  CallThatTraps(Expect(s, found, "rethrow"))

eCall(s, type) ==
    With(emitCallOrInvoke(ePop(Coerce(s, Args(s, Len(type.params))), Len(type.params))),
         LAMBDA t : ePush(t, asLLVMTypes(type.results)))

eCallIndirect(s, type) == eCall(emitConditionalTrap(ePop(s, 1)), type)

\* Any other operator: instructions in place, a branch to a trap, or a call.
eOperator(s, op) ==
    With(ePop(s, Len(op.params)), LAMBDA t :
        ePush(CASE op.via = "inst" -> Insert(t)
                [] op.via = "trap" -> emitConditionalTrap(t)
                [] op.via = "call" -> emitCallOrInvoke(t), op.values))

eDrop(s) == [s EXCEPT !.stack = Front(@)]

eSelect(s) ==
    LET value == Canonical(Args(s, 3)[1]) IN
    With(Insert(ePop(s, 3)), LAMBDA t : ePush(t, <<value>>))

eTee(s) == Insert(s)

-----------------------------------------------------------------------------
(***************************************************************************)
(* Reading the body                                                        *)
(***************************************************************************)
VStart == vPushControl([ctrl |-> <<>>, stack |-> <<>>, ok |-> TRUE],
                       "function", FuncResults, FuncResults, <<>>)

EStart ==
    pushBranchTarget(
        ePushControl([ctrl |-> <<>>, stack |-> <<>>, targets |-> <<>>, tries |-> <<>>,
                      catches |-> <<>>, skip |-> 0, done |-> FALSE, bad |-> {}],
                     "function", FuncResults, <<>>), FuncResults, "end")

Init == v = VStart /\ e = EStart

\* A body that is not valid is not compiled.
Reject == v' = Throw(VStart) /\ e' = EStart

\* The emitter reads the operator itself, or UnreachableOpVisitor does: it
\* skips the operator, but counts the control structures it enters and leaves,
\* and passes on what ends the unreachable code of the context.  The emitter
\* makes visited of what it reads.
Decode(kind, visited) ==
    IF ETop(e).reach THEN visited
    ELSE CASE kind = "plain" -> e
           [] kind = "open"  -> [e EXCEPT !.skip = @ + 1]
           [] kind \in {"clause", "end"} /\ e.skip = 0 -> visited
           [] kind = "clause" -> e
           [] kind = "end" -> [e EXCEPT !.skip = @ - 1]

\* One operator of the body: s is what the validator makes of it, visited what
\* the emitter does.
Read(kind, s, visited) ==
    /\ v.ok /\ e.bad = {}
    /\ v.ctrl # <<>>
    /\ \E t \in {s} :
          /\ Len(t.ctrl) <= MaxDepth
          /\ Len(t.stack) <= MaxStack
          /\ ~ETop(e).reach => Len(t.stack) <= ETop(e).outer + MaxDead
          /\ IF t.ok THEN v' = t /\ e' = Decode(kind, visited) ELSE Reject

Depths == 0..(MaxDepth - 1)

block == \E bt \in BlockTypes :
    Read("open", vStructure(v, "block", bt), eBlock(e, "block", bt))

loop == \E bt \in BlockTypes :
    Read("open", vStructure(v, "loop", bt), eLoop(e, bt))

if_ == \E bt \in BlockTypes : Read("open", vIf(v, bt), eIf(e, bt))

else_ == Read("clause", vElse(v), eElse(e))

end == Read("end", vEnd(v), eEnd(e))

try_ == \E bt \in BlockTypes :
    Read("open", vStructure(v, "try_", bt), eTry(e, bt))

catch_ == \E params \in ExnParams :
    Read("clause", vCatch(v, params), eCatch(e, params))

catch_all == Read("clause", vCatch(v, <<>>), eCatch(e, <<>>))

br == \E d \in Depths : Read("plain", vBr(v, d), eBr(e, d))

br_if == \E d \in Depths : Read("plain", vBrIf(v, d), eBrIf(e, d))

br_table == \E d, default \in Depths :
    Read("plain", vBrTable(v, d, default), eBrTable(e, d, default))

return_ == Read("plain", vReturn(v), eReturn(e))

unreachable == Read("plain", vEnterUnreachable(v), CallThatTraps(e))

throw_ == \E params \in ExnParams :
    Read("plain", vJump(v, params), eThrow(e, params))

rethrow == \E d \in Depths : Read("plain", vRethrow(v, d), eRethrow(e, d))

call == \E type \in CalleeTypes :
    Read("plain", vOperator(v, type), eCall(e, type))

call_indirect == \E type \in CalleeTypes :
    Read("plain", Then(vPop(v, "i32"), LAMBDA t : vOperator(t, type)),
         eCallIndirect(e, type))

operator == \E op \in OpTypes :
    Read("plain", vOperator(v, op), eOperator(e, op))

drop == Read("plain", vDrop(v), eDrop(e))

select == Read("plain", vSelect(v), eSelect(e))

typed_select == \E type \in Locals :
    Read("plain", vTypedSelect(v, type), eSelect(e))

local_get == \E type \in Locals :
    Read("plain", vPushTuple(v, <<type>>), ePush(Insert(e), <<asLLVMType(type)>>))

local_set == \E type \in Locals :
    Read("plain", vPop(v, type), Insert(ePop(e, 1)))

local_tee == \E type \in Locals :
    Read("plain", vTee(v, type), eTee(e))

ref_is_null == Read("plain", vRefIsNull(v), ePush(Insert(ePop(e, 1)), <<"i32">>))

\* The code goes on after the last end, or stops before it.
Malformed == v.ok /\ Reject

Next ==
    \/ block \/ loop \/ if_ \/ else_ \/ end
    \/ try_ \/ catch_ \/ catch_all \/ throw_ \/ rethrow
    \/ br \/ br_if \/ br_table \/ return_ \/ unreachable
    \/ call \/ call_indirect \/ operator \/ drop \/ select \/ typed_select
    \/ local_get \/ local_set \/ local_tee \/ ref_is_null
    \/ Malformed

Spec == Init /\ [][Next]_vars

-----------------------------------------------------------------------------
(***************************************************************************)
(* Properties                                                              *)
(***************************************************************************)
\* The indices of the emitter's contexts of the given types.
ContextsOf(types) ==
    SelectSeq([i \in DOMAIN e.ctrl |-> i], LAMBDA i : e.ctrl[i].type \in types)

\* The emitter's stacks are the validator's: the emitter has the contexts the
\* validator has, less those inside unreachable code, which
\* UnreachableOpVisitor only counts; each is of the same kind, leaves the same
\* results, begins at the same height of the operand stack and is as
\* reachable; each has one branch target, taking the types the validator
\* checks a branch against, at a loop's body or another structure's end; and
\* every operand the emitter holds is of the type the validator holds there.
StacksMirror ==
    v.ok =>
      /\ Len(v.ctrl) = Len(e.ctrl) + e.skip
      /\ \A i \in DOMAIN e.ctrl :
            /\ \A f \in {"type", "results", "outer", "reach"} : v.ctrl[i][f] = e.ctrl[i][f]
            /\ e.targets[i] = [params |-> v.ctrl[i].params, of |-> i,
                               block |-> IF v.ctrl[i].type = "loop" THEN "body" ELSE "end"]
      /\ Len(e.targets) = Len(e.ctrl)
      /\ e.ctrl # <<>> =>
            /\ Len(e.stack) = IF ETop(e).reach THEN Len(v.stack) ELSE ETop(e).outer
            /\ \A i \in DOMAIN e.stack : Canonical(e.stack[i]) = asLLVMType(v.stack[i])

\* A call unwinds to the landing pad of the innermost try whose body it is in,
\* never to that of a try whose catch clauses it is in: the try stack holds
\* the open try bodies and the catch stack every try that has not ended.
UnwindsToEnclosingTry ==
    v.ok => /\ e.tries = ContextsOf({"try_"})
            /\ e.catches = ContextsOf({"try_", "catch_"})

\* What the validator accepts, the emitter compiles: none of its assertions
\* fails, nothing is inserted into a block after its terminator, and every
\* branch gives every PHI of the block it goes to a value of the PHI's type.
\* Three things that do go wrong are left out: a vector that is not canonical
\* among the arguments of br_table (EmitCore.cpp:288), a rethrow from inside
\* another structure of its catch clause (EmitExceptions.cpp:364), and an
\* exception with several parameters (EmitExceptions.cpp:264).
EmitsWellFormedIR == e.bad \subseteq {"switch", "rethrow", "args"}

\* The assertion in rethrow that the depth is one of the catch stack
\* (EmitExceptions.cpp:364), and that the entry it finds is the one the
\* validator resolved the depth to.
RethrowFindsItsCatch == "rethrow" \notin e.bad

=============================================================================
