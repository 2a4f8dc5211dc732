------------------------------ MODULE Toolchain ------------------------------
(* What main (src/src/main.rs) makes of a compiled project: it is optimized   *)
(* (Optimizer) and exported (Export), with or without the blocks that         *)
(* Scratch's editor hides.                                                    *)
EXTENDS Optimizer, Export

CONSTANT AllowHacked(_)    \* what allow_hacked_blocks may be, for a project

VARIABLE ctx            \* the ScratchContext

toolchainVars == <<vars, ctx>>

\* Main is run by the flag.
Script(f) == <<IF f = Main THEN Flag ELSE Define(f)>> \o code[f]

Optimize == Next /\ UNCHANGED ctx

\* get_ctx
Collect ==
    /\ phase = "done"
    /\ \E hidden \in AllowHacked(written) : ctx' = GetCtx(Each(Script, Order), hidden)
    /\ phase' = "collected"
    /\ UNCHANGED <<written, code, pieces, changed, iterations>>

\* ctx_get_raw
Finish ==
    /\ phase = "collected"
    /\ ctx' = GetRaw(ctx)
    /\ phase' = "exported"
    /\ UNCHANGED <<written, code, pieces, changed, iterations>>

Exported == phase = "exported" /\ UNCHANGED toolchainVars

ToolchainInit == Init /\ ctx = NewContext(TRUE)
ToolchainNext == Optimize \/ Collect \/ Finish \/ Exported
ToolchainSpec == /\ ToolchainInit /\ [][ToolchainNext]_toolchainVars
                 /\ WF_toolchainVars(Propagate /\ UNCHANGED ctx) /\ WF_toolchainVars(Elide /\ UNCHANGED ctx)

-----------------------------------------------------------------------------
(* Correctness.                                                              *)

\* What Scratch reads in the table does what the written project does: every
\* block is where it was, with the inputs and the arguments it had, and what
\* replaces a hidden block does the same.
SameWhenExported ==
    phase = "exported" =>
        Let(Loaded(ctx, Range(Order), Main), LAMBDA loaded :
            \A store \in Stores : Shown(loaded, store) = Shown(written, store))

\* The blocks form trees, one for every script: each is named by one block only,
\* which it names as its parent, or by the item of the list it is in.
Linked ==
    phase = "exported" =>
        Let(ctx.blocks, LAMBDA blocks :
            \A id \in DOMAIN blocks :
                LET by == {j \in DOMAIN blocks : id \in Named(blocks[j])}
                    parent == blocks[id].parent
                IN  /\ Named(blocks[id]) \subseteq DOMAIN blocks
                    /\ IF parent = None THEN by = {} /\ blocks[id].opcode \in {"def", "flag"}
                       ELSE \E j \in DOMAIN blocks :
                                /\ by = {j}
                                /\ parent = (IF blocks[j].opcode = "item" THEN blocks[j].parent ELSE j))
=============================================================================
