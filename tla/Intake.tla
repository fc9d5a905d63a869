-------------------------------- MODULE Intake --------------------------------
(***************************************************************************)
(* What the evaluator decides about a pull request from its tree alone,     *)
(* before any GPU time: the instrument guard (scripts/instrument_guard.py), *)
(* the re-registration guard (eval/burnscore/reregistration.py), the choice *)
(* of the candidate arm and the order in which pr_bot._evaluate asks them.  *)
(* The copycat guard, which comes first, keeps a state: see Copycat.tla.    *)
(*                                                                          *)
(* A tree is a function from the paths to their contents, a path of the     *)
(* instrument, the runtime or the documentation being told apart by its     *)
(* area only.  The content of the tolerance file is its entries, one per    *)
(* generation.  A pull request is                                           *)
(*   [base, main, head]  the trees of the merge base, of main now and of    *)
(*                       the pull request,                                  *)
(*   moved               the pairs <<from, to>> git reports as renames,     *)
(*   regs, defs          the registrations and the function bodies of head, *)
(*   named, cleared      the description's implementation name, and whether *)
(*                       a maintainer cleared a re-registration.            *)
(***************************************************************************)
EXTENDS Integers, FiniteSets, Sequences

CONSTANTS
    Paths,          \* the files a pull request may touch
    Area,           \* [Paths -> Areas]
    GenOf,          \* [Paths -> Generations or None]: eval/cells/<NAME>/
    Tolerance,      \* configs/tolerance.json
    Generations,
    Ops,            \* the operators a kernel may be registered for
    MainRegs,       \* what main registers
    MainDefs,       \* [functions of main -> Body]
    MinTokens,      \* MIN_TOKENS
    Similar,        \* SIMILAR, in percent
    None,           \* no generation, no name
    Gone            \* the path does not exist in this tree

Areas == {"build", "governance", "instrument", "contributor", "other"}

Registration == [op : Ops, name : STRING, function : STRING, args : Nat]
NoArgs == 0         \* not a template

ASSUME PathsAssumption ==
    /\ Area \in [Paths -> Areas]
    /\ GenOf \in [Paths -> Generations \cup {None}]
    /\ Tolerance \in Paths /\ Area[Tolerance] = "instrument" /\ GenOf[Tolerance] = None
    /\ \A q \in Paths : GenOf[q] # None => Area[q] = "instrument"

ASSUME GoneAssumption == Gone \notin [Generations -> Nat]

ASSUME RegistryAssumption ==
    /\ MinTokens \in Nat /\ Similar \in 0 .. 100
    /\ \A r \in MainRegs : r.function \in DOMAIN MainDefs
    /\ \A op \in Ops : \E r \in MainRegs : r.op = op /\ r.name = "cuda"

-----------------------------------------------------------------------------
\* changed(): git diff --name-status base...HEAD

Status(old, new) == IF old = Gone THEN "A" ELSE IF new = Gone THEN "D" ELSE "M"

\* A rename is one row, and the guard keeps its last path.
Changed(p) ==
    LET from == {m[1] : m \in p.moved}
        to   == {m[2] : m \in p.moved}
    IN {<<"R", q>> : q \in to} \cup
       {<<Status(p.base[q], p.head[q]), q>> :
            q \in {q \in Paths \ (from \cup to) : p.base[q] # p.head[q]}}

ExistingGenerations(tree) ==
    {GenOf[q] : q \in {q \in Paths : tree[q] # Gone}} \ {None}

-----------------------------------------------------------------------------
\* classify() and allow_new_generation_entries()

\* Mutant: whatever lies under eval/cells/ is cartography.
OpensAny(row, gens) == row[1] = "A" /\ GenOf[row[2]] # None

\* A new file of a generation that main does not have.
Opens(row, gens) == row[1] = "A" /\ GenOf[row[2]] \notin gens \cup {None}

Cartography(rows, gens) ==
    {r[2] : r \in {r \in rows : Area[r[2]] = "instrument" /\ Opens(r, gens)}}

Blocked(rows, gens) ==
    {r[2] : r \in {r \in rows : \/ Area[r[2]] = "governance"
                                \/ Area[r[2]] = "instrument" /\ ~Opens(r, gens)}}

OnlyAddsEntries(old, new, allowed) ==
    LET added == {g \in Generations : old[g] = 0 /\ new[g] # 0}
    IN /\ \A g \in Generations : old[g] # 0 => new[g] = old[g]
       /\ added # {} /\ added \subseteq allowed

\* The tolerance file may gain the entries of the generations this opens.
CarriesItsTolerance(p, blocked, opened) ==
    /\ Tolerance \in blocked /\ opened # {}
    /\ p.main[Tolerance] # Gone /\ p.head[Tolerance] # Gone
    /\ OnlyAddsEntries(p.main[Tolerance], p.head[Tolerance], opened)

\* What main() of the guard decides, and whether it gets to write it: it reads
\* the generation of every cartography path, and the tolerance file has none.
GuardScript(p) ==
    LET rows   == Changed(p)
        gens   == ExistingGenerations(p.main)
        opened == {GenOf[q] : q \in Cartography(rows, gens)}
        excused == IF CarriesItsTolerance(p, Blocked(rows, gens), opened)
                   THEN {Tolerance} ELSE {}
        cartography == Cartography(rows, gens) \cup excused
    IN [blocked |-> Blocked(rows, gens) \ excused,
        cartography |-> cartography,
        crashed |-> \E q \in cartography : GenOf[q] = None,
        silent |-> rows = {}]

GuardOutcome(g) == IF g.blocked # {} THEN "BLOCKED"
                   ELSE IF g.cartography # {} THEN "CARTOGRAPHY" ELSE "CONTRIBUTOR"

\* pr_bot.guard: no answer on disk is taken for a clean submission.
Guard(p) == LET g == GuardScript(p)
            IN IF g.crashed \/ g.silent THEN "CONTRIBUTOR" ELSE GuardOutcome(g)

-----------------------------------------------------------------------------
\* reregistration.judge()

Callable(r) == <<r.function, r.args>>
NewRegs(p) == {r \in p.regs : ~\E b \in MainRegs : b.op = r.op /\ b.name = r.name}
CandidateNames(p) == {r.name : r \in NewRegs(p)}

\* The token sequences of a kernel and of what it calls: everything but the
\* constants, which are kept, is its shape.
Body == [shape : STRING, constants : Seq(Nat), length : Nat]

Alike(a, b) ==
    /\ a.shape = b.shape
    /\ LET differ == {i \in DOMAIN a.constants : a.constants[i] # b.constants[i]}
       IN 100 * (a.length - Cardinality(differ)) >= Similar * a.length

SameKernel(r, b, defs) ==
    /\ ~(r.args # NoArgs /\ b.args # NoArgs /\ r.args # b.args)
    /\ Alike(defs[r.function], MainDefs[b.function])

\* Mutant: the same callable is taken for a variant of itself.
OnlyCopies(r, defs) ==
    /\ r.function \notin {b.function : b \in MainRegs}
    /\ defs[r.function].length >= MinTokens
    /\ \E b \in MainRegs : SameKernel(r, b, defs)

\* A new registration of main's callable, or a renamed copy of a kernel that is
\* long enough to tell; main's function with other arguments is a variant.
IsReregistration(r, defs) ==
    \/ \E b \in MainRegs : Callable(b) = Callable(r)
    \/ /\ r.function \notin {b.function : b \in MainRegs}
       /\ defs[r.function].length >= MinTokens
       /\ \E b \in MainRegs : SameKernel(r, b, defs)

Reregistered(p) == ~p.cleared /\ \E r \in NewRegs(p) : IsReregistration(r, p.defs)

-----------------------------------------------------------------------------
\* candidate_impl(), and the kernels the two arms then run

CandidateImpl(p) ==
    LET names == CandidateNames(p)
    IN IF Cardinality(names) = 1 THEN CHOOSE n \in names : TRUE
       ELSE IF p.named \in names THEN p.named ELSE None

\* resolve_impl(): the requested name wherever an op registers it.
ResolveImpl(op, requested, regs) ==
    IF \E r \in regs : r.op = op /\ r.name = requested THEN requested ELSE "cuda"

\* The registrations an arm runs with --impl `requested`.
Arm(requested, regs) ==
    {r \in regs : r.name = ResolveImpl(r.op, requested, regs)}

-----------------------------------------------------------------------------
\* The order of pr_bot._evaluate, up to the measurement

Route(p) ==
    LET impl == CandidateImpl(p)
    IN IF Guard(p) = "BLOCKED" THEN "SKIPPED"
       ELSE IF Reregistered(p) THEN "REREGISTERED"
       ELSE IF Guard(p) = "CARTOGRAPHY" THEN "CARTOGRAPHY"
       ELSE IF impl = None THEN "NO_CANDIDATE" ELSE "MEASURED"

Routes == {"SKIPPED", "REREGISTERED", "NO_CANDIDATE", "CARTOGRAPHY", "MEASURED"}

-----------------------------------------------------------------------------
\* What the guards are for

\* The three-way merge of a pull request, path by path; the entries of the
\* tolerance file merge one by one.
MergeOne(old, main, head) == IF head = old THEN main ELSE head

MergesCleanly(p) ==
    \A q \in Paths \ {Tolerance} :
        p.head[q] = p.base[q] \/ p.main[q] = p.base[q] \/ p.head[q] = p.main[q]

Merged(p) ==
    [q \in Paths |->
        IF q = Tolerance /\ Gone \notin {p.base[q], p.main[q], p.head[q]}
        THEN [g \in Generations |-> MergeOne(p.base[q][g], p.main[q][g], p.head[q][g])]
        ELSE MergeOne(p.base[q], p.main[q], p.head[q])]

Ruler == {q \in Paths : Area[q] \in {"instrument", "governance"}}

\* Merging `p` leaves everything that decides a measurement as main has it,
\* but for the files and the tolerances of generations main does not have.
KeepsTheRuler(p) ==
    LET after == Merged(p)
        gens  == ExistingGenerations(p.main)
    IN /\ \A q \in Ruler \ {Tolerance} :
            IF p.main[q] # Gone THEN after[q] = p.main[q]
            ELSE after[q] # Gone => GenOf[q] \notin gens \cup {None}
       /\ after[Tolerance] # Gone
       /\ \A g \in Generations :
            after[Tolerance][g] # p.main[Tolerance][g] =>
                /\ p.main[Tolerance][g] = 0
                /\ g \in ExistingGenerations(after) \ gens

\* A registration that runs what main already runs: its callable, or the same
\* text with the same constants under other names.  A kernel of fewer than
\* MinTokens tokens is left out: the guard compares none so short.
RunsMainsKernel(r, p) ==
    \/ \E b \in MainRegs : Callable(b) = Callable(r)
    \/ /\ r.function \notin DOMAIN MainDefs
       /\ \E b \in MainRegs : /\ r.args \in {NoArgs, b.args} \/ b.args = NoArgs
                              /\ p.defs[r.function] = MainDefs[b.function]
                              /\ p.defs[r.function].length >= MinTokens
=============================================================================
