----------------------------- MODULE MCTranslate ----------------------------
EXTENDS Translate

\* Records of symbol files.
Func(name, address, size) ==
    [type |-> "FUNC", ok |-> TRUE, name |-> name, address |-> address,
     size |-> size]
SourceLine(line, address, size) ==
    [type |-> "LINE", ok |-> TRUE, line |-> line, file |-> 1,
     address |-> address, size |-> size]
Public(name, address) ==
    [type |-> "PUBLIC", ok |-> TRUE, name |-> name, address |-> address]
Init0(address, size, rules) ==
    [type |-> "INIT", ok |-> TRUE, address |-> address, size |-> size,
     rules |-> [rules |-> rules, whole |-> TRUE]]
Delta(address, rules) ==
    [type |-> "DELTA", ok |-> TRUE, address |-> address,
     rules |-> [rules |-> rules, whole |-> TRUE]]
File1 == [type |-> "FILE", ok |-> TRUE, file |-> 1]

Reg(reg, add) == [reg |-> reg, add |-> add, deref |-> FALSE]
At(reg, add) == [reg |-> reg, add |-> add + RegisterLimit, deref |-> TRUE]

AtEntry == (".cfa" :> Reg("sp", 0)) @@ (".ra" :> Reg("lr", 0))
Ra == ".ra" :> At(".cfa", -4)

\* liba: f keeps a local, fp and lr on the stack, g only lr; a call of a
\* function that does not return is the last instruction of f.  libb: k has a
\* frame pointer.
RecordsA ==
    <<[type |-> "OTHER"], File1, Func("f", 0, 16), SourceLine(7, 0, 8),
      SourceLine(8, 8, 8), Func("g", 16, 16),
      Init0(0, 16, AtEntry),
      Delta(4, Ra @@ (".cfa" :> Reg("sp", 12)) @@ ("fp" :> At(".cfa", -8))),
      Init0(16, 16, AtEntry), Delta(20, Ra @@ (".cfa" :> Reg("sp", 4)))>>
RecordsB ==
    <<Func("k", 0, 16), Public("p", 24),
      Init0(0, 16, Ra @@ (".cfa" :> Reg("fp", 8))
                        @@ ("fp" :> At(".cfa", -8)))>>

A == 8192
B == 12288
S == 65536      \* the stack

Library(code_file, start, id) ==
    [start |-> start, size |-> 48, code_file |-> code_file, id |-> {id}]
MCModules == <<Library("liba", A, "A"), Library("libb", B, "B")>>
MCRecords == [id \in {"A", "B"} |-> IF id = "A" THEN RecordsA ELSE RecordsB]

Region(words) == [start |-> S, words |-> words]
Thread(id, regs, words) ==
    [thread |-> id, start |-> S, memory |-> {Region(words)},
     context |-> {regs}]

Regs(p, sp, lr, fp) ==
    ("pc" :> p) @@ ("sp" :> sp) @@ ("lr" :> lr) @@ ("fp" :> fp)

\* A crash of thread 1; the context of the thread itself is the handler's.
Crash(regs, words) ==
    [readable |-> TRUE,
     exception |-> {[thread |-> 1, context |-> {regs}]},
     info |-> [dump |-> {}, requesting |-> {}],
     modules |-> MCModules, shrink |-> TRUE, regions |-> {},
     threads |-> {<<Thread(1, Regs(B + 8, S, 0, 0), words)>>},
     records |-> MCRecords, store |-> {"A", "B"}, words |-> Len(words),
     chain |-> <<>>]

-----------------------------------------------------------------------------
\* Chains of calls, innermost first: function, its pc, the words it keeps.
Site(name, p, words) == [name |-> name, pc |-> p, words |-> words]
Callers == {Site("f", A + 8, 3), Site("f", A + 16, 3), Site("g", A + 24, 1),
            Site("k", B + 8, 2)}
Innermost == {Site("f", A, 0), Site("g", A + 16, 0), Site("f", A + 8, 3),
              Site("g", A + 24, 1), Site("k", B + 8, 2)}
Chains == UNION {{<<x>> \o c : x \in Innermost, c \in [1..n -> Callers]} :
                    n \in 0..3}

\* The CFA of each frame, its fp register, and the words of the stack.
Cfa(chain) ==
    LET cfa[i \in 0..Len(chain)] ==
            IF i = 0 THEN S ELSE cfa[i - 1] + 4 * chain[i].words
    IN  cfa

Fp(chain) ==
    LET fp[i \in 1..(Len(chain) + 1)] ==
            IF i > Len(chain) THEN 0
            ELSE IF chain[i].name = "k" THEN Cfa(chain)[i] - 8
            ELSE IF chain[i].words = 3 THEN 4 ELSE fp[i + 1]
    IN  fp

ReturnTo(chain, i) == IF i = Len(chain) THEN 0 ELSE chain[i + 1].pc

FrameWords(chain, i) ==
    CASE chain[i].words = 0 -> <<>>
      [] chain[i].words = 1 -> <<ReturnTo(chain, i)>>
      [] chain[i].words = 2 -> <<Fp(chain)[i + 1], ReturnTo(chain, i)>>
      [] chain[i].words = 3 -> <<A + 8, Fp(chain)[i + 1], ReturnTo(chain, i)>>

ChainJob(chain) ==
    LET add(words, i) == words \o FrameWords(chain, i)
        words == FoldLeft(add, <<>>, [i \in DOMAIN chain |-> i])
        regs == Regs(chain[1].pc, S, ReturnTo(chain, 1), Fp(chain)[1])
    IN  [Crash(regs, words) EXCEPT
            !.chain = [i \in DOMAIN chain |-> chain[i].name]]

ChainJobs == {ChainJob(chain) : chain \in Chains}

\* Stacks with anything on them, and registers that may be damaged.
Values == {0, A + 8, A + 40, B + 8, S + 4}

StackJobs ==
    {[Crash(Regs(p, S, A + 8, fp), words) EXCEPT !.store = {}] :
        words \in [1..3 -> Values], p \in {A, B + 8, 5000},
        fp \in {S - 4, S + 2, S + 4}}

\* Symbol files.
Universe ==
    {Func("f", 1, 4), Func("g", 3, 4), Func("h", 6, 2),
     [Func("x", 1, 1) EXCEPT !.ok = FALSE], SourceLine(1, 1, 2),
     SourceLine(2, 2, 2), SourceLine(3, 6, 1), Public("z", 0),
     Public("p", 2), Public("q", 5), Public("r", 5), File1,
     Func("n", 6, 2) @@ ("null" :> TRUE)}

LookupJobs ==
    {[Crash(Regs(A + 2, S, 0, 0), <<>>) EXCEPT
        !.records = [MCRecords EXCEPT !["A"] = list], !.store = {"A"},
        !.modules = <<[Library("liba", A, "A") EXCEPT !.size = 10]>>] :
            list \in UNION {[1..n -> Universe] : n \in 0..3}}

\* Dumps with more threads, and with parts missing.
Base == Crash(Regs(A + 8, S, 0, 0), <<0, 0, B + 20>>)

Others == <<[Thread(3, Regs(B + 4, S, 0, 0), <<>>) EXCEPT !.context = {}],
            Thread(2, Regs(A + 4, S, 0, 0), <<0, A + 8>>),
            Thread(1, Regs(B + 8, S, 0, 0), <<A + 8>>),
            Thread(4, Regs(B + 4, S, 0, 0), <<>>)>>

ThreadJobs ==
    {[Base EXCEPT !.threads = ts, !.exception = e, !.regions = rs,
                  !.info.dump = d, !.info.requesting = q, !.store = {"A"},
                  !.words = 3] :
        ts \in {{Others}, {<<Others[1], Others[2]>>},
                {<<[Others[3] EXCEPT !.memory = {}]>>}},
        e \in {{}, {[thread |-> 1, context |-> {Regs(A + 8, S, 0, 0)}]},
               {[thread |-> 1, context |-> {}]},
               {[thread |-> 3, context |-> {}]}},
        rs \in {{}, {Region(<<0, A + 8, B + 20>>)}},
        d \in {{}, {2}}, q \in {{}, {2}}}
    \cup {[Base EXCEPT !.readable = FALSE], [Base EXCEPT !.threads = {}]}

MCJobs == ChainJobs \cup StackJobs \cup LookupJobs \cup ThreadJobs

\* What WalkBounded asks of dumps and symbol files.
ASSUME StandardJobs
=============================================================================
