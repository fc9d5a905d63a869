------------------------------- MODULE Copycat --------------------------------
(***************************************************************************)
(* The copycat guard as pr_bot runs it (scripts/copycat_guard.py,           *)
(* eval/pr_bot.py): each run records which head it saw when, in a corpus of *)
(* files, then asks whether the code was in somebody else's open pull       *)
(* request earlier; a copy blocks its author in a log only an explicit      *)
(* unblock lifts, and closes the pull request.  Contributors push, rebase,  *)
(* build on one another, merge and close meanwhile, and an evaluator may    *)
(* die between any two file operations.                                     *)
(***************************************************************************)
EXTENDS CopycatRules, Sequences, Functions

CONSTANTS
    PRs, Authors, Author,       \* who opened which pull request
    Maintainers,
    Shapes,                     \* what a push to each pull request may bring
    OnMain,                     \* the parts of main nobody submitted
    Evaluators,
    MaxHeads,                   \* bound: commits pushed
    MaxTime,                    \* bound: seconds that differ
    MaxLifts,                   \* bound: unblocks, clearances and reopenings
    MaxFaults                   \* bound: deaths and failed requests

ASSUME CopycatAssumption ==
    /\ PRs \subseteq Nat \ {0} /\ Author \in [PRs -> Authors]
    /\ Maintainers \subseteq Authors
    /\ Shapes \in [PRs -> SUBSET [added : SUBSET Parts, base : SUBSET Parts]]
    /\ OnMain \subseteq Parts
    /\ {MaxHeads, MaxLifts, MaxFaults} \subseteq Nat /\ MaxTime \in Nat \ {0}

VARIABLES
    branch,         \* the head of each pull request and what its diff adds
    open, cleared, main,
    corpus,         \* the observations on file
    blocks,         \* blocked.jsonl
    clock,
    guard,          \* where each evaluator is
    heads, lifts, faults

github == <<branch, open, cleared, main, heads>>
vars == <<github, corpus, blocks, clock, guard, lifts, faults>>

NoHead == [head |-> 0, added |-> {}, base |-> {}, on |-> {}]
Torn == [torn |-> TRUE]
NoOne == 0
Idle == [pc |-> "idle", pr |-> NoOne, queue |-> <<>>, refs |-> {}, cleared |-> {}, seen |-> 0,
         observed |-> {}, original |-> NoOne]

Init ==
    /\ branch = [pr \in PRs |-> NoHead]
    /\ open = {} /\ cleared = {} /\ main = OnMain
    /\ corpus = <<>> /\ blocks = <<>>
    /\ clock = 1 /\ heads = 0 /\ lifts = 0 /\ faults = 0
    /\ guard = [e \in Evaluators |-> Idle]

-----------------------------------------------------------------------------
\* Contributors and maintainers

Aside == UNCHANGED <<corpus, blocks, clock, guard, faults>>
NewHead(pr, added, base, on) ==
    /\ heads < MaxHeads /\ heads' = heads + 1
    /\ branch' = [branch EXCEPT ![pr] = [head |-> heads', added |-> added, base |-> base,
                                         on |-> on]]

\* The first push opens the pull request; later ones add to its branch.
Push(pr) ==
    /\ pr \in open \/ branch[pr] = NoHead
    /\ \E s \in Shapes[pr] :
        NewHead(pr, s.added, s.base, branch[pr].on \cup ({branch[pr].head} \ {0}))
    /\ open' = open \cup {pr}
    /\ UNCHANGED <<cleared, main, lifts>> /\ Aside

\* The same code on today's main: other commits.
Rebase(pr) ==
    /\ pr \in open
    /\ NewHead(pr, branch[pr].added, branch[pr].base, {})
    /\ UNCHANGED <<open, cleared, main, lifts>> /\ Aside

\* A branch with another pull request's unmerged commits in its history.
Stack(pr, other) ==
    /\ pr # other /\ other \in open /\ branch[pr] = NoHead
    /\ \E s \in Shapes[pr] :
        NewHead(pr, s.added \cup branch[other].added, s.base,
                branch[other].on \cup {branch[other].head})
    /\ open' = open \cup {pr}
    /\ UNCHANGED <<cleared, main, lifts>> /\ Aside

Merge(pr) ==
    /\ pr \in open /\ main' = main \cup branch[pr].added /\ open' = open \ {pr}
    /\ UNCHANGED <<branch, cleared, heads, lifts>> /\ Aside

Reopen(pr) ==
    /\ pr \notin open /\ branch[pr] # NoHead /\ ~(branch[pr].added \subseteq main)
    /\ open' = open \cup {pr} /\ lifts < MaxLifts /\ lifts' = lifts + 1
    /\ UNCHANGED <<branch, cleared, main, heads>> /\ Aside

\* A maintainer labels it copycat-cleared.
Clear(pr) ==
    /\ pr \in open \ cleared /\ cleared' = cleared \cup {pr}
    /\ lifts < MaxLifts /\ lifts' = lifts + 1
    /\ UNCHANGED <<branch, open, main, heads>> /\ Aside

-----------------------------------------------------------------------------
\* The guard

\* Mutant: the block log is opened to be written, not to be appended to.
Rewritten(rec) == <<rec>>

Logged(rec) == Append(blocks, rec)

\* copycat_guard.py --unblock, with a reason
Unblock(author) ==
    /\ lifts < MaxLifts /\ lifts' = lifts + 1
    /\ blocks' = Logged([action |-> "unblock", author |-> author, pr |-> NoOne, head |-> 0,
                         original |-> NoOne])
    /\ UNCHANGED <<github, corpus, clock, guard, faults>>

\* The latest action for an author decides.
CurrentBlock(author) ==
    LET his == {i \in DOMAIN blocks : blocks[i].author = author} IN
    his # {} /\ blocks[Max(his)].action = "block"

\* An evaluator lists what is open: the guard's references, and what it may judge.
List(e) ==
    /\ guard[e].pc = "idle" /\ open # {}
    /\ guard' = [guard EXCEPT ![e] =
                    [Idle EXCEPT !.queue = Restrict(branch, open), !.refs = open,
                                 !.cleared = cleared]]
    /\ UNCHANGED <<github, corpus, blocks, clock, lifts, faults>>

\* Mutant: an entry is filed under the head's name first.
KeySwapped(pr, head) == <<head, pr>>

\* record() names an entry after its pull request and head.
Key(pr, head) == <<pr, head>>
Mine(e) == LET q == guard[e].queue[guard[e].pr] IN Key(guard[e].pr, q.head)
Entry(e) ==
    LET q == guard[e].queue[guard[e].pr] IN
    [pr |-> guard[e].pr, author |-> Author[guard[e].pr], head |-> q.head,
     seen |-> guard[e].seen, added |-> q.added, base |-> q.base]
Without(e, pr) == Restrict(guard[e].queue, DOMAIN guard[e].queue \ {pr})
Answered(e, pc) ==
    guard' = [guard EXCEPT ![e] =
                [@ EXCEPT !.pc = pc, !.observed = {}, !.pr = NoOne, !.seen = 0, !.original = NoOne,
                          !.queue = Without(e, guard[e].pr)]]

\* A head on record keeps the time it was first seen.
FirstSeen(key, now) == IF key \in DOMAIN corpus THEN corpus[key].seen ELSE now

\* load_corpus reads every entry; one it cannot parse ends the run, and pr_bot calls
\* that an evaluator error.
Observe(e, pr) ==
    /\ guard[e].pc = "idle" /\ pr \in DOMAIN guard[e].queue
    /\ IF Torn \in Range(corpus)
       THEN /\ guard' = [guard EXCEPT ![e].queue = Without(e, pr)]
            /\ UNCHANGED clock
       ELSE \E now \in {clock, clock + 1} :
            /\ now <= MaxTime /\ clock' = now
            /\ guard' = [guard EXCEPT ![e] =
                    [@ EXCEPT !.pc = "record", !.pr = pr, !.observed = Range(corpus),
                              !.seen = FirstSeen(Key(pr, guard[e].queue[pr].head), now)]]
    /\ UNCHANGED <<github, corpus, blocks, lifts, faults>>

\* Mutant: the entry is written whether or not there is one.
NoCheck(e) ==
    /\ guard[e].pc = "record"
    /\ guard' = [guard EXCEPT ![e].pc = "open"]
    /\ UNCHANGED <<github, corpus, blocks, clock, lifts, faults>>

\* record(): a head on record is left alone; else...
CheckEntry(e) ==
    /\ guard[e].pc = "record"
    /\ guard' = [guard EXCEPT ![e].pc = IF Mine(e) \in DOMAIN corpus THEN "judge" ELSE "open"]
    /\ UNCHANGED <<github, corpus, blocks, clock, lifts, faults>>

\* ... write_text truncates...
OpenEntry(e) ==
    /\ guard[e].pc = "open"
    /\ corpus' = [k \in DOMAIN corpus \cup {Mine(e)} |-> IF k = Mine(e) THEN Torn ELSE corpus[k]]
    /\ guard' = [guard EXCEPT ![e].pc = "write"]
    /\ UNCHANGED <<github, blocks, clock, lifts, faults>>

\* ... and writes.
WriteEntry(e) ==
    /\ guard[e].pc = "write"
    /\ corpus' = [corpus EXCEPT ![Mine(e)] = Entry(e)]
    /\ guard' = [guard EXCEPT ![e].pc = "judge"]
    /\ UNCHANGED <<github, blocks, clock, lifts, faults>>

Others(e) == {f \in guard[e].observed : f.pr # guard[e].pr /\ f.pr \in guard[e].refs}
StackedOn(e) == {f.pr : f \in {g \in Others(e) : g.head \in guard[e].queue[guard[e].pr].on}}

\* Maintainers and cleared pull requests are not judged, nor is a blocked account,
\* which is closed at once.
JudgeIt(e) ==
    /\ guard[e].pc = "judge"
    /\ LET pr == guard[e].pr
           exempt == Author[pr] \in Maintainers \/ pr \in guard[e].cleared
           verdict == Judge(Entry(e), Others(e), main, StackedOn(e))
       IN  CASE exempt -> Answered(e, "idle")
             [] ~exempt /\ CurrentBlock(Author[pr]) -> guard' = [guard EXCEPT ![e].pc = "close"]
             [] OTHER ->
                    IF verdict.kind # "copy" THEN Answered(e, "idle")
                    ELSE \E original \in verdict.originals :
                            guard' = [guard EXCEPT ![e].pc = "block",
                                                   ![e].original = original.pr]
    /\ UNCHANGED <<github, corpus, blocks, clock, lifts, faults>>

AppendBlock(e) ==
    /\ guard[e].pc = "block"
    /\ LET pr == guard[e].pr IN
       blocks' = Logged([action |-> "block", author |-> Author[pr], pr |-> pr,
                         head |-> guard[e].queue[pr].head, original |-> guard[e].original])
    /\ guard' = [guard EXCEPT ![e].pc = "close"]
    /\ UNCHANGED <<github, corpus, clock, lifts, faults>>

Fault == faults < MaxFaults /\ faults' = faults + 1

\* pr_bot labels and closes it; the request may fail.
ClosePR(e) ==
    /\ guard[e].pc = "close"
    /\ \/ open' = open \ {guard[e].pr} /\ UNCHANGED faults
       \/ Fault /\ UNCHANGED open
    /\ Answered(e, "idle")
    /\ UNCHANGED <<branch, cleared, main, heads, corpus, blocks, clock, lifts>>

Crash(e) ==
    /\ guard[e] # Idle /\ Fault
    /\ guard' = [guard EXCEPT ![e] = Idle]
    /\ UNCHANGED <<github, corpus, blocks, clock, lifts>>

Next ==
    \/ \E pr \in PRs : Push(pr) \/ Rebase(pr) \/ Merge(pr) \/ Reopen(pr) \/ Clear(pr)
    \/ \E pr, other \in PRs : Stack(pr, other)
    \/ \E a \in Authors : Unblock(a)
    \/ \E e \in Evaluators : \/ List(e) \/ CheckEntry(e) \/ OpenEntry(e) \/ WriteEntry(e)
                             \/ JudgeIt(e) \/ AppendBlock(e) \/ ClosePR(e) \/ Crash(e)
                             \/ \E pr \in PRs : Observe(e, pr)

Spec == Init /\ [][Next]_vars

-----------------------------------------------------------------------------
Heads == 0 .. MaxHeads
Branches == [head : Heads, added : SUBSET Parts, base : SUBSET Parts, on : SUBSET Heads]
Entries == [pr : PRs, author : Authors, head : Heads, seen : 0 .. MaxTime, added : SUBSET Parts,
            base : SUBSET Parts]
TypeOK ==
    /\ branch \in [PRs -> Branches]
    /\ open \subseteq PRs /\ cleared \subseteq PRs /\ main \subseteq Parts
    /\ DOMAIN corpus \subseteq PRs \X Heads
    /\ \A k \in DOMAIN corpus : \/ corpus[k] = Torn
                                \/ corpus[k] \in Entries /\ k = Key(corpus[k].pr, corpus[k].head)
    /\ \A i \in DOMAIN blocks : blocks[i] \in [action : {"block", "unblock"}, author : Authors,
                                               pr : PRs \cup {NoOne}, head : Heads,
                                               original : PRs \cup {NoOne}]
    /\ clock \in 1 .. MaxTime /\ heads \in Heads /\ lifts \in 0 .. MaxLifts
    /\ faults \in 0 .. MaxFaults
    /\ \A e \in Evaluators :
        /\ guard[e].pc \in {"idle", "record", "open", "write", "judge", "block", "close"}
        /\ guard[e].pr \in PRs \cup {NoOne} /\ guard[e].refs \subseteq PRs
        /\ guard[e].cleared \subseteq PRs /\ guard[e].observed \subseteq Entries
        /\ guard[e].seen \in 0 .. MaxTime /\ guard[e].original \in PRs \cup {NoOne}
        /\ DOMAIN guard[e].queue \subseteq PRs
        /\ \A pr \in DOMAIN guard[e].queue : guard[e].queue[pr] \in Branches

BlockRecords == {blocks[i] : i \in {j \in DOMAIN blocks : blocks[j].action = "block"}}

\* Whoever is blocked is not a maintainer, and the files bear it out: his head is
\* on record, and another author's head with code of his was on record before it.
BlocksAreEvidenced ==
    \A b \in BlockRecords :
        /\ b.author \notin Maintainers /\ b.author = Author[b.pr]
        /\ Author[b.original] # b.author
        /\ Key(b.pr, b.head) \in DOMAIN corpus
        /\ \E k \in DOMAIN corpus :
            /\ corpus[k] # Torn /\ corpus[Key(b.pr, b.head)] # Torn
            /\ corpus[k].pr = b.original
            /\ corpus[k].seen < corpus[Key(b.pr, b.head)].seen
            /\ corpus[k].added \cap corpus[Key(b.pr, b.head)].added # {}

\* A block in force ends with an unblock of that author, and with nothing else.
BlocksHoldUntilLifted ==
    [][\A a \in Authors : CurrentBlock(a) /\ ~CurrentBlock(a)' =>
            /\ Len(blocks') = Len(blocks) + 1
            /\ blocks'[Len(blocks')].action = "unblock" /\ blocks'[Len(blocks')].author = a]_vars

\* An observation, once on file, stays as it is: nobody's first time is rewritten,
\* by a later run or after a death.
CorpusIsAppendOnly ==
    [][\A k \in DOMAIN corpus : corpus[k] # Torn =>
            k \in DOMAIN corpus' /\ corpus'[k] = corpus[k]]_vars

-----------------------------------------------------------------------------
\* What the documents say and the code does not do.

\* "The original is whoever the evaluator OBSERVED first" (copycat.py:25-27).
ObservedFirstIsNotBlocked ==
    \A b \in BlockRecords : ~\E k \in DOMAIN corpus :
        /\ corpus[k] # Torn /\ corpus[k].author = b.author
        /\ corpus[k].added = corpus[Key(b.pr, b.head)].added
        /\ \A j \in DOMAIN corpus : corpus[j] # Torn /\ corpus[j].pr = b.original =>
                corpus[k].seen < corpus[j].seen

\* "A branch stacked on another open pull request ... is never a copy of it"
\* (copycat_guard.py:19).
StackedIsNotBlocked ==
    \A b \in BlockRecords, pr \in PRs :
        b.pr = pr /\ b.head = branch[pr].head =>
            ~\E h \in branch[pr].on : h \in branch[b.original].on \cup {branch[b.original].head}

\* "A guard that crashes is the evaluator's fault" (pr_bot.py:255), to be re-run: no
\* entry stays in the way of every later run.
GuardRecovers == \A e \in Evaluators : guard[e] = Idle => Torn \notin Range(corpus)

=============================================================================
