----------------------------- MODULE CopycatRules -----------------------------
(***************************************************************************)
(* How the copycat guard decides (eval/burnscore/copycat.py, judge).  Code  *)
(* is a set of parts; a part stands for Mass[part] fingerprints that are    *)
(* always found together, so what the tokenizer, the k-grams and the        *)
(* winnowing make of renaming and reformatting is abstracted: a part is the *)
(* same part whatever its names.                                            *)
(***************************************************************************)
EXTENDS Integers, FiniteSets, FiniteSetsExt

CONSTANTS
    Parts, Mass,        \* pieces of code, and how many fingerprints each has
    BoilerplateDf       \* a part more submissions add is infrastructure

ASSUME RulesAssumption == Mass \in [Parts -> Nat \ {0}] /\ BoilerplateDf \in Nat

MinMass == 20
EmbedMin == 60
TinyMin == 2

MassOf(parts) == MapThenSumSet(LAMBDA p : Mass[p], parts)

\* share(small, all) >= percent, without dividing
AtLeast(small, all, percent) == 100 * MassOf(small) >= percent * MassOf(all)

\* The latest observation of each pull request counts once.
Latest(entries) ==
    {e \in entries : \A f \in entries : f.pr = e.pr => f.seen <= e.seen}
Boilerplate(entries) ==
    {p \in Parts : Cardinality({e.pr : e \in {f \in Latest(entries) : p \in f.added}})
                       > BoilerplateDf}

\* Mutant: whoever else has the code is an original.
AnyReference(cand, entries) == {r \in entries : r.author # cand.author /\ r.pr # cand.pr}

\* Only another author's code, observed earlier.
References(cand, entries) ==
    {r \in entries : r.author # cand.author /\ r.pr # cand.pr /\ r.seen < cand.seen}

\* Code on main is infrastructure unless most of a reference has landed there.
Infrastructure(refs, onMain, boiler) ==
    LET New(r) == (r.added \ boiler) \ r.base IN
    onMain \ UNION {New(r) : r \in {s \in refs : New(s) # {}
                                        /\ AtLeast(New(s) \cap onMain, New(s), 70)}}

Novel(cand, boiler, infra) == ((cand.added \ boiler) \ cand.base) \ infra

\* How a candidate looks beside one reference.
Row(cand, ref, novel, boiler, infra) ==
    [ref |-> ref, mine |-> novel \ ref.base,
     theirs |-> (((ref.added \ boiler) \ ref.base) \ cand.base) \ infra,
     shared |-> (novel \ ref.base) \cap ref.added, found |-> cand.added]

Kind(row, stacked) ==
    LET m == MassOf(row.mine)
        enough == m >= MinMass
        tiny == TinyMin <= m /\ ~enough /\ AtLeast(row.shared, row.mine, 99)
        embeds == MassOf(row.theirs) >= EmbedMin
                  /\ AtLeast(row.theirs \cap row.found, row.theirs, 70)
    IN  IF row.shared = {} THEN "none"
        ELSE IF row.ref.pr \in stacked
        THEN IF (enough /\ AtLeast(row.shared, row.mine, 40)) \/ embeds \/ tiny
             THEN "stacked" ELSE "none"
        ELSE IF enough /\ AtLeast(row.shared, row.mine, 70) THEN "copy"
        ELSE IF embeds /\ MassOf(row.shared) >= EmbedMin THEN "contains-earlier"
        ELSE IF enough /\ AtLeast(row.shared, row.mine, 40) THEN "partial"
        ELSE IF tiny THEN "tiny-identical" ELSE "none"

Kinds == <<"copy", "contains-earlier", "stacked", "partial", "tiny-identical">>

\* The numerator and the denominator a kind's rows are ranked by.
Share(row, kind) ==
    IF kind \in {"contains-earlier", "stacked"}
    THEN [n |-> MassOf(row.theirs \cap row.found), d |-> MassOf(row.theirs)]
    ELSE [n |-> MassOf(row.shared), d |-> MassOf(row.mine)]

\* a is at least b less five hundredths
AsGood(a, b) ==
    b.d = 0 \/ (IF a.d = 0 THEN 20 * b.n <= b.d ELSE 20 * a.n * b.d >= 20 * b.n * a.d - a.d * b.d)

\* Among the rows as good as the best, whoever was observed first.
Originals(rows, kind) ==
    LET good == {r \in rows : \A s \in rows : AsGood(Share(r, kind), Share(s, kind))} IN
    {r \in good : \A s \in good : r.ref.seen <= s.ref.seen}

\* judge(): the kind of match and the references that may be named for it.
Judge(cand, entries, onMain, stacked) ==
    LET boiler == Boilerplate(entries)
        refs == References(cand, entries)
        infra == Infrastructure(refs, onMain, boiler)
        novel == Novel(cand, boiler, infra)
        rows == {Row(cand, r, novel, boiler, infra) : r \in refs}
        Of(kind) == {r \in rows : Kind(r, stacked) = kind}
        found == {k \in DOMAIN Kinds : Of(Kinds[k]) # {}}
    IN  IF novel = {} \/ found = {}
        THEN [kind |-> "none", originals |-> {}]
        ELSE LET kind == Kinds[CHOOSE k \in found : \A j \in found : k <= j] IN
             [kind |-> kind, originals |-> {r.ref : r \in Originals(Of(kind), kind)}]

=============================================================================
