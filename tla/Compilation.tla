----------------------------- MODULE Compilation -----------------------------
(***************************************************************************)
(* A source compiled at once: the calls of Codegen, made one after the     *)
(* other until none is left.  Compiler makes the same calls as steps.      *)
(***************************************************************************)
EXTENDS Codegen

RECURSIVE Finish(_, _)
Finish(cs, todo) ==
    IF todo = <<>> THEN cs
    ELSE Finish(Effect(cs, Head(todo)), Calls(cs, Head(todo)) \o Tail(todo))

RECURSIVE compiler_resolve_jumps(_, _)
compiler_resolve_jumps(cs, i) ==
    IF i > Len(cs.fixups) \/ cs.error THEN cs
    ELSE compiler_resolve_jumps(ResolveFixup(cs, cs.fixups[i]), i + 1)

CompileRoot(cs, root) ==
    Finish(compiler_add_line_mapping(cs, root.line), <<Statement(root.stmt)>>)

compiler_compile(source) ==
    compiler_resolve_jumps(FoldLeft(CompileRoot, NewCompilerState, source), 1)
=============================================================================
