------------------------------ MODULE Lowering ------------------------------
(***************************************************************************)
(* Lowering of a function's body to basic blocks of instructions           *)
(* (crates/ir/src/lowering.rs, LoweringContext and                         *)
(* lower_function_with_contract).                                          *)
(*                                                                         *)
(* A statement is a record with its kind and the place `at` it has in the  *)
(* source; expressions are abstracted to what the later analyses read of   *)
(* them.  The functions handled have one state variable X and one boolean  *)
(* parameter C:                                                            *)
(*    set      X = constant          incr    X = X + constant              *)
(*    return   return X              revert  revert                        *)
(*    sum      return X + constant                                         *)
(*    skip     a statement the lowering has no case for (try, assembly)    *)
(*    bad      a statement with an expression it cannot lower              *)
(*    block    { body }              if      if (C) then, else is a        *)
(*                                           sequence of at most one       *)
(*    while    while (C) body        for     for (init; C; update) body,   *)
(*                                           with test = FALSE for (;;)    *)
(* Conditions read C and produce no instruction of their own.  The parser  *)
(* builds no break, continue or throw statement (convert_statement in      *)
(* crates/parser/src/arena.rs has no case for them), so the label stacks   *)
(* of the context are never read and are left out.                         *)
(***************************************************************************)
EXTENDS Naturals, Sequences, SequencesExt, TLC

(* Values: msg, block, tx and this are registered first, then the state    *)
(* variables, then the parameters; later values are temporaries.           *)
Msg == 0
X == 4
C == 5
FirstTemporary == 6

(* An instruction: the value it is written to define, the values it is     *)
(* written to read, and the blocks it may jump to.  What an analysis makes *)
(* of them is its own affair (AsRead of FlowAnalyses).                     *)
Instr(op, at, def, uses, to) ==
    [op |-> op, at |-> at, def |-> def, uses |-> uses, to |-> to]

(* The context: the blocks filled so far, the block being filled, and the  *)
(* two counters.  ok is FALSE once an expression could not be lowered.     *)
AddInstruction(ctx, i) == [ctx EXCEPT !.ir[ctx.cur] = Append(@, i)]

SetCurrentBlock(ctx, b) == [ctx EXCEPT !.cur = b]

(* create_block inserts an empty block under the counter's value, in place *)
(* of any block that has it; a branch or loop creates n of them in a row.  *)
CreateBlocks(ctx, n) ==
    LET created == ctx.nextBlock .. ctx.nextBlock + n - 1
    IN [ctx EXCEPT !.ir = [b \in created |-> <<>>] @@ @,
                   !.nextBlock = @ + n]

Jump(ctx, b) == AddInstruction(ctx, Instr("branch", "", {}, {}, <<b>>))

JumpIf(ctx, yes, no) ==
    AddInstruction(ctx, Instr("cond", "", {}, {C}, <<yes, no>>))

IsTerminatorStatement(s) == s.kind \in {"return", "revert", "sum"}

(* The jump after a branch or a loop body, left out when that statement is *)
(* itself a return or a revert.                                            *)
JumpUnlessTerminated(ctx, s, b) ==
    IF IsTerminatorStatement(s) THEN ctx ELSE Jump(ctx, b)

(* X + constant goes to a new value, which X is assigned or the function   *)
(* returns.                                                                *)
LowerSum(ctx, s) ==
    AddInstruction([ctx EXCEPT !.nextValue = @ + 1],
                   Instr("add", s.at, {ctx.nextValue}, {X}, <<>>))

LowerIncrement(ctx, s) ==
    AddInstruction(LowerSum(ctx, s),
                   Instr("assign", s.at, {X}, {ctx.nextValue}, <<>>))

LowerReturnSum(ctx, s) ==
    AddInstruction(LowerSum(ctx, s),
                   Instr("return", s.at, {}, {ctx.nextValue}, <<>>))

RECURSIVE LowerStatement(_, _)

LowerBlock(ctx, ss) == FoldLeft(LowerStatement, ctx, ss)

LowerIf(ctx, s) ==
    LET yes == ctx.nextBlock
        no == yes + 1
        merge == yes + 2
        split == JumpIf(CreateBlocks(ctx, 3), yes, no)
        then == JumpUnlessTerminated(
                    LowerStatement(SetCurrentBlock(split, yes), s.then),
                    s.then, merge)
        onNo == SetCurrentBlock(then, no)
        both == IF s.else = <<>> THEN Jump(onNo, merge)
                ELSE JumpUnlessTerminated(LowerStatement(onNo, s.else[1]),
                                          s.else[1], merge)
    IN SetCurrentBlock(both, merge)

LowerWhile(ctx, s) ==
    LET header == ctx.nextBlock
        exit == header + 2
        entered == Jump(CreateBlocks(ctx, 3), header)
        tested == JumpIf(SetCurrentBlock(entered, header), header + 1, exit)
        done == LowerStatement(SetCurrentBlock(tested, header + 1), s.body)
    IN SetCurrentBlock(JumpUnlessTerminated(done, s.body, header), exit)

(* Mutant: the body of a for loop jumps to the header, past the update.    *)
LowerForPastUpdate(ctx, s) ==
    LET begun == LowerStatement(ctx, s.init)
        header == begun.nextBlock
        entered == SetCurrentBlock(Jump(CreateBlocks(begun, 4), header), header)
        tested == JumpIf(entered, header + 1, header + 3)
        done == JumpUnlessTerminated(
                    LowerStatement(SetCurrentBlock(tested, header + 1), s.body),
                    s.body, header)
        updated == LowerStatement(SetCurrentBlock(done, header + 2), s.update)
    IN SetCurrentBlock(Jump(updated, header), header + 3)

LowerFor(ctx, s) ==
    LET begun == LowerStatement(ctx, s.init)
        header == begun.nextBlock
        body == header + 1
        update == header + 2
        exit == header + 3
        entered == SetCurrentBlock(Jump(CreateBlocks(begun, 4), header), header)
        tested == IF s.test THEN JumpIf(entered, body, exit)
                  ELSE Jump(entered, body)
        done == JumpUnlessTerminated(
                    LowerStatement(SetCurrentBlock(tested, body), s.body),
                    s.body, update)
        updated == LowerStatement(SetCurrentBlock(done, update), s.update)
    IN SetCurrentBlock(Jump(updated, header), exit)

LowerStatement(ctx, s) ==
    CASE s.kind = "set" ->
           AddInstruction(ctx, Instr("assign", s.at, {X}, {}, <<>>))
      [] s.kind = "incr" -> LowerIncrement(ctx, s)
      [] s.kind = "sum" -> LowerReturnSum(ctx, s)
      [] s.kind = "return" ->
           AddInstruction(ctx, Instr("return", s.at, {}, {X}, <<>>))
      [] s.kind = "revert" ->
           AddInstruction(ctx, Instr("revert", s.at, {}, {}, <<>>))
      [] s.kind = "bad" -> [ctx EXCEPT !.ok = FALSE]
      [] s.kind = "skip" -> ctx
      [] s.kind = "block" -> LowerBlock(ctx, s.body)
      [] s.kind = "if" -> LowerIf(ctx, s)
      [] s.kind = "while" -> LowerWhile(ctx, s)
      [] s.kind = "for" -> LowerFor(ctx, s)

(* IrFunction::new has made block 0 the entry block; the context's block   *)
(* counter starts at 0 all the same.                                       *)
EntryBlock == 0

NewContext ==
    [ok |-> TRUE, ir |-> (EntryBlock :> <<>>), cur |-> EntryBlock,
     nextBlock |-> 0, nextValue |-> FirstTemporary]

(* The parameter is assigned from the value numbered by its position,      *)
(* which is a global's.                                                    *)
LowerParameters(ctx) ==
    AddInstruction(ctx, Instr("assign", "param", {C}, {Msg}, <<>>))

EnsureReturn(ctx) == AddInstruction(ctx, Instr("return", "", {}, {}, <<>>))

LowerFunction(body) ==
    EnsureReturn(LowerBlock(LowerParameters(NewContext), body))
=============================================================================
