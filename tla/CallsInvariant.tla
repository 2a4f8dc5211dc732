--------------------------- MODULE CallsInvariant ---------------------------
EXTENDS Calls

-----------------------------------------------------------------------------
(* The programs the theorems are about.                                      *)

Takes(mode, p, sigs, f) ==
    f \in ReturnsToAddress(mode, p, sigs) /\ Len(ReturnAddresses(p, sigs, f)) > 1

\* An instruction calls a function that returns to an address.
ToAddress(mode, p, sigs, i) == IsCall(i) /\ ToSet(CouldCall(sigs, i)) \cap ReturnsToAddress(mode, p, sigs) # {}

\* Variables needed from instruction k of a block on, by the rest of the block
\* and by what follows it.
Needed(code, b, k) == {x \in UNION {Uses(code, b, j) : j \in k .. Size(code, b) + 1} :
                       \E j \in k .. Size(code, b) + 1 : x \in Uses(code, b, j) \ Results(code, b, k, j - 1)}
Live(code, b, k) ==
    Needed(code, b, k) \cup (Following(code, Depends(code), b) \ Results(code, b, k, Size(code, b)))

\* No function can call itself, however indirectly, nor anything the entry point.
NoRecursion(p, sigs) ==
    /\ \A f \in DOMAIN p : f \notin Reached(CallGraph(p, sigs), f)
    /\ ReturnAddresses(p, sigs, Entry) = << >>

\* Parameters and the return address are those of the first block's procedure,
\* and lost after a call in it that returns to an address: they may not be
\* needed there, nor may a function return to an address from its first block.
KeepsParams(mode, p, sigs) ==
    \A f \in DOMAIN p :
        /\ Takes(mode, p, sigs, f) => p[f].term[p[f].first].to # {}
        /\ \A k \in 1 .. Size(p[f], p[f].first) :
               ToAddress(mode, p, sigs, p[f].body[p[f].first][k]) =>
                   /\ ~Takes(mode, p, sigs, f)
                   /\ Live(p[f], p[f].first, k + 1) \cap ToSet(p[f].params) = {}

Covered(mode, p) == LET sigs == FnPtrSigs(p) IN NoRecursion(p, sigs) /\ KeepsParams(mode, p, sigs)

-----------------------------------------------------------------------------
(* What the compiler knows of such a program.                                *)

\* What returns by the addresses of r ends up at a site it was given for.
ReturnsTo(r, site) ==
    /\ r.returnAddresses # << >>
    /\ IF r.takesReturnAddress
       THEN /\ Numbered(r.returnAddresses, site) - 1 \in Nat
            /\ ReturnTarget(r, Numbered(r.returnAddresses, site) - 1) = site
       ELSE r.returnAddresses[1] = site

\* Where a function that is called at a site returns to.
Expected(sigs, i, site) == IF Dispatched(sigs, i) THEN Callback(SignatureOf(sigs, i)) ELSE site

FunctionOK(mode, p, inf, f) ==
    /\ inf[f].depends = Depends(p[f])
    /\ inf[f].returnsToAddress \in BOOLEAN /\ inf[f].takesReturnAddress \in BOOLEAN
    /\ inf[f].takesReturnAddress => inf[f].returnsToAddress /\ p[f].term[p[f].first].to # {}
    /\ mode => ~inf[f].returnsToAddress
    /\ \A b \in Label(p[f]) : \A k \in 1 .. Size(p[f], b) : inf[f].mustStore[b][k] = {}

Addressed(sigs, inf, i) == \E g \in ToSet(CouldCall(sigs, i)) : inf[g].returnsToAddress

CallOK(p, sigs, inf, sinf, f, b, k) ==
    LET i == p[f].body[b][k]
    IN  /\ (IF Dispatched(sigs, i) THEN sinf[SignatureOf(sigs, i)]
            ELSE inf[CouldCall(sigs, i)[1]]).returnsToAddress <=> Addressed(sigs, inf, i)
        /\ \A g \in ToSet(CouldCall(sigs, i)) :
               /\ g \in Reached(CallGraph(p, sigs), f)
               /\ inf[g].returnsToAddress => ReturnsTo(inf[g], Expected(sigs, i, Site(f, b, k)))
        /\ Addressed(sigs, inf, i) =>
               /\ inf[f].returnsToAddress
               /\ Dispatched(sigs, i) => /\ ReturnsTo(sinf[SignatureOf(sigs, i)], Site(f, b, k))
                                         /\ ~sinf[SignatureOf(sigs, i)].couldRecurse
               /\ b = p[f].first => /\ ~inf[f].takesReturnAddress
                                    /\ Live(p[f], b, k + 1) \cap ToSet(p[f].params) = {}

Settled(mode, p, sigs, inf, sinf) ==
    /\ IsProgram(p) /\ sigs = FnPtrSigs(p)
    /\ \A f \in DOMAIN p : f \notin Reached(CallGraph(p, sigs), f)
    /\ inf[Entry].returnAddresses = << >>
    /\ \A f \in DOMAIN p :
          /\ FunctionOK(mode, p, inf, f)
          /\ \A b \in Label(p[f]) : \A k \in 1 .. Size(p[f], b) :
                IsCall(p[f].body[b][k]) => CallOK(p, sigs, inf, sinf, f, b, k)

-----------------------------------------------------------------------------
(* The invariant.                                                            *)

Depth    == Len(acts)
Instr(i) == prog[acts[i].fn].body[acts[i].block][acts[i].k]
SiteOf(i) == Site(acts[i].fn, acts[i].block, acts[i].k)

\* What a call in progress still needs: after the call it is at, if any.
LiveOf(i) == IF i = Depth THEN Live(prog[acts[i].fn], acts[i].block, acts[i].k)
             ELSE Live(prog[acts[i].fn], acts[i].block, acts[i].k + 1) \ {Instr(i).dst}

\* The calls up to this one are of functions that return to an address; the
\* others are on Scratch's stack.
Base == Depth - Len(conts)

\* The parameters a call in progress will find when the call it is at is over.
Kept(i)     == IF i >= Base /\ ~CallsAddress(Instr(i)) THEN conts[i + 1 - Base].params ELSE NoParams
ParamsOf(i) == IF i = Depth THEN params ELSE Kept(i)

Where(i, x) == IF x \in Available(SiteOf(i)) THEN GetParam(ParamsOf(i), x) ELSE glob[<<acts[i].fn, x>>]

From(i) == Expected(pointers, Instr(i - 1), SiteOf(i - 1))

StaticInv == Settled(jumpTable, prog, pointers, info, sigInfo)

FrameOK(p, names, a) ==
    /\ a = [fn |-> a.fn, block |-> a.block, k |-> a.k, env |-> a.env]
    /\ a.fn \in DOMAIN p /\ a.block \in Label(p[a.fn]) /\ a.k \in 1 .. Size(p[a.fn], a.block) + 1
    /\ \A x \in DOMAIN a.env : <<a.fn, x>> \in names /\ x \notin {return_address, branch_id}

FramesInv ==
    /\ acts \in Seq(ToSet(acts))
    /\ \A i \in 1 .. Depth : FrameOK(prog, Names, acts[i])
    /\ Depth > 0 => acts[1].fn = Entry
    /\ \A i \in 1 .. Depth - 1 : /\ acts[i].k <= Size(prog[acts[i].fn], acts[i].block)
                                 /\ IsCall(Instr(i)) /\ acts[i + 1].fn \in ToSet(CouldCall(pointers, Instr(i)))
    /\ \A i, j \in 1 .. Depth : i < j => acts[j].fn \in Reached(CallGraph(prog, pointers), acts[i].fn)

ContsInv ==
    /\ conts \in Seq(ToSet(conts))
    /\ Depth = 0 => conts = << >>
    /\ Depth > 0 => Len(conts) < Depth
    /\ \A i \in 2 .. Depth : info[acts[i].fn].returnsToAddress <=> i <= Base
    /\ \A i \in 2 .. Depth : i > Base =>
          IF CallsAddress(Instr(i - 1)) THEN conts[i - Base] = [at |-> From(i), params |-> NoParams]
          ELSE conts[i - Base].at = SiteOf(i - 1)

ValuesInv ==
    \A i \in 1 .. Depth : \A x \in LiveOf(i) : x \in DOMAIN acts[i].env /\ Where(i, x) = Translated(pointers, acts[i].env[x])

AddressInv ==
    /\ \A i \in 2 .. Depth : info[acts[i].fn].takesReturnAddress =>
          Where(i, return_address) = Numbered(info[acts[i].fn].returnAddresses, From(i)) - 1
    /\ \A i \in 1 .. Depth - 1 :
          CallsAddress(Instr(i)) /\ Dispatched(pointers, Instr(i)) =>
              LET s == SignatureOf(pointers, Instr(i))
              IN  sigInfo[s].takesReturnAddress => sigReturn[s] = Numbered(sigInfo[s].returnAddresses, SiteOf(i)) - 1

NumbersInv ==
    /\ glob \in [Names -> Nat] /\ sigReturn \in [DOMAIN pointers -> Nat] /\ retVar \in Nat
    /\ \A n \in DOMAIN params : params[n] \in Nat
    /\ \A i \in DOMAIN conts : \A n \in DOMAIN conts[i].params : conts[i].params[n] \in Nat

IInv == StaticInv /\ FramesInv /\ ContsInv /\ ValuesInv /\ AddressInv /\ NumbersInv
        /\ at = Position /\ localStack = << >>

\* The project has the values of every call in progress where each will look for
\* them when it goes on, and the addresses they will return to: with programs that
\* are covered.
InvWhereCovered == Covered(jumpTable, prog) => IInv
=============================================================================
