--------------------------- MODULE ReviewAnalysis ---------------------------
(***************************************************************************)
(* What a health review does with the code of its service's repository:    *)
(* find the head commit, parse it or take the cached parse, run the rules  *)
(* over the parsed files, and either verify the gaps with an LLM that      *)
(* first looks for the files that instrument the whole code base, or       *)
(* filter them with what an earlier review found there.  The services of   *)
(* one repository; the default branch moves along one line of commits.     *)
(*                                                                         *)
(* A review adds rows in a transaction of its own: others see them when it *)
(* commits.  Rows are in the order in which they were inserted.            *)
(***************************************************************************)
EXTENDS Naturals, Sequences, SequencesExt, FiniteSets, Selections

CONSTANTS
    Reviewed,    \* services of the repository
    Runners,     \* HealthReviewWorker processes
    MostCommits, \* commits of the branch (a bound)
    KeepCount,   \* parses that the clean-up keeps
    MostCalls,   \* HEALTH_REVIEW_LLM_MAX_ITERATIONS
    MostFiles,   \* candidate files that an LLM names (a bound)
    Pipelines,   \* the pipelines that the settings select
    Nobody

ASSUME AnalysisAssumption ==
    /\ Nobody \notin Reviewed \union Runners /\ MostCommits \in Nat
    /\ KeepCount \in Nat \ {0} /\ MostCalls \in Nat \ {0} /\ MostFiles \in Nat
    /\ Pipelines \subseteq {"graph", "plain", "mock"}

VARIABLES
    code,     \* the commits: does the infrastructure instrument the code
    head,     \* the head of the default branch, 0: it has no commit
    parses,   \* ParsedRepository, by created_at
    context,  \* what the newest CodebaseContext found
    done,     \* analyzed_commit_sha of the service's last COMPLETED review
    work       \* what a worker is doing

analysisVars == <<code, head, parses, context, done, work>>

Commits == 1..MostCommits
\* status: as the transaction that is writing the row sees it; was: as committed.
ParseStatus == {"none", "IN_PROGRESS", "COMPLETED", "FAILED"}
ParsedRepository == [commit: Commits, status: ParseStatus, was: ParseStatus,
                     writer: Runners \union {Nobody}]
\* diff: changed_files is not empty; how: what decided which gaps are reported.
Run == [step: {"idle", "sync", "parse", "compare", "analyse", "extract", "discover",
               "save", "stuck"},
        svc: Reviewed \union {Nobody}, prev: {0} \union Commits,
        sha: {0} \union Commits, drop: SUBSET Commits, diff: BOOLEAN,
        facts: {0} \union Commits, left: 0..MostFiles, calls: 0..(MostFiles + 1),
        found: {"none", "covers", "bare"}, how: {"none", "all", "context", "agent"}]
NoRun == [step |-> "idle", svc |-> Nobody, prev |-> 0, sha |-> 0, drop |-> {},
          diff |-> FALSE, facts |-> 0, left |-> 0, calls |-> 0,
          found |-> "none", how |-> "none"]

AnalysisTypeOK ==
    /\ code \in Seq(BOOLEAN) /\ Len(code) <= MostCommits
    /\ head \in 0..Len(code)
    /\ parses \in Seq(ParsedRepository)
    /\ \A i, j \in DOMAIN parses : parses[i].commit = parses[j].commit => i = j
    /\ context \in {"none", "covers", "bare"}
    /\ done \in [Reviewed -> 0..Len(code)]
    /\ work \in [Runners -> Run]

AnalysisInit ==
    /\ code = <<>>
    /\ head = 0
    /\ parses = <<>>
    /\ context = "none"
    /\ done = [s \in Reviewed |-> 0]
    /\ work = [r \in Runners |-> NoRun]

At(r, step) == work[r].step = step

\* A step of r's that writes nothing.
Goes(r, to) ==
    /\ work' = [work EXCEPT ![r] = to]
    /\ UNCHANGED <<code, head, parses, context, done>>

-----------------------------------------------------------------------------
(* The branch. *)

Push(infra) ==
    /\ Len(code) < MostCommits /\ head = Len(code)
    /\ code' = Append(code, infra)
    /\ head' = Len(code) + 1
    /\ UNCHANGED <<parses, context, done, work>>

\* A forced push moves the branch back, or on again.
ForcePush(c) ==
    /\ c \in DOMAIN code /\ c # head
    /\ head' = c
    /\ UNCHANGED <<code, parses, context, done, work>>

-----------------------------------------------------------------------------
(* The transaction of a review. *)

StatusFor(r, p) == IF p.writer = r THEN p.status ELSE p.was
View(r) ==
    Filtered(parses, {p \in ParsedRepository :
                         StatusFor(r, p) # "none" /\ p.commit \notin work[r].drop})

Settled(r, rows, status(_)) ==
    [i \in DOMAIN rows |-> IF rows[i].writer = r
        THEN [rows[i] EXCEPT !.status = status(rows[i]), !.was = status(rows[i]),
                             !.writer = Nobody]
        ELSE rows[i]]
Committed(r, rows) ==
    Settled(r, Filtered(rows, {p \in ParsedRepository : p.commit \notin work[r].drop}),
            LAMBDA p : p.status)
RolledBack(r) ==
    Settled(r, Filtered(parses, {p \in ParsedRepository : p.writer # r \/ p.was # "none"}),
            LAMBDA p : p.was)

\* The review is COMPLETED or FAILED: what it has flushed is committed with that.
EndReview(r, rows, analyzed) ==
    /\ parses' = Committed(r, rows)
    /\ context' = IF work[r].found = "none" THEN context ELSE work[r].found
    /\ done' = analyzed
    /\ work' = [work EXCEPT ![r] = NoRun]
    /\ UNCHANGED <<code, head>>
ReviewFails(r, rows) == EndReview(r, rows, done)

\* An exception that breaks the session: nothing can be written, not even that
\* the review has FAILED, and it stays GENERATING.
BreakReview(r) ==
    /\ parses' = RolledBack(r)
    /\ work' = [work EXCEPT ![r] = [NoRun EXCEPT !.step = "stuck", !.svc = work[r].svc]]
    /\ UNCHANGED <<code, head, context, done>>

\* The worker takes its next message.
LeaveReview(r) == At(r, "stuck") /\ Goes(r, NoRun)

RunnerDies(r) ==
    /\ work[r].step \notin {"idle", "stuck"}
    /\ parses' = RolledBack(r)
    /\ work' = [work EXCEPT ![r] = NoRun]
    /\ UNCHANGED <<code, head, context, done>>

-----------------------------------------------------------------------------
(* Synchronising the code base. *)

\* The last completed review.
Previous(s) == done[s]

\* A review of s starts.
StartReview(r, s) ==
    /\ At(r, "idle")
    /\ head # 0 /\ \A q \in Runners : work[q].svc # s
    /\ Goes(r, [NoRun EXCEPT !.step = "sync", !.svc = s, !.prev = Previous(s)])

HeadFetchFails(r) == At(r, "sync") /\ ReviewFails(r, parses)

\* The head commit has a parse.
UseCachedParse(r) ==
    /\ At(r, "sync")
    /\ \E p \in Range(View(r)) : p.commit = head /\ StatusFor(r, p) = "COMPLETED"
    /\ Goes(r, [work[r] EXCEPT !.step = "compare", !.sha = head])

\* A row that is not COMPLETED is no parse, but the row for a new one collides
\* with it.
ParseCollides(r) ==
    /\ At(r, "sync")
    /\ \E p \in Range(View(r)) : p.commit = head /\ StatusFor(r, p) # "COMPLETED"
    /\ \A p \in Range(parses) : p.commit = head => p.writer = Nobody
    /\ BreakReview(r)

\* Faulty: as if no unique key were there.
StartParseAgain(r) ==
    /\ At(r, "sync")
    /\ \A p \in Range(View(r)) : p.commit # head
    /\ parses' = Append(parses, [commit |-> head, status |-> "IN_PROGRESS",
                                 was |-> "none", writer |-> r])
    /\ work' = [work EXCEPT ![r].step = "parse", ![r].sha = head]
    /\ UNCHANGED <<code, head, context, done>>

\* There is no row of the commit: one is inserted.  While another transaction is
\* writing one, the insert waits.
StartParse(r) ==
    /\ At(r, "sync")
    /\ \A p \in Range(parses) : p.commit # head
    /\ parses' = Append(parses, [commit |-> head, status |-> "IN_PROGRESS",
                                 was |-> "none", writer |-> r])
    /\ work' = [work EXCEPT ![r].step = "parse", ![r].sha = head]
    /\ UNCHANGED <<code, head, context, done>>

\* A GitHub call finds its token expired and commits the new one, and with it
\* whatever the review has flushed.
TokenRefreshCommits(r) ==
    /\ At(r, "parse")
    /\ parses' = Committed(r, parses)
    /\ UNCHANGED <<code, head, context, done, work>>

SetParse(r, status) ==
    [i \in DOMAIN parses |-> IF parses[i].commit = work[r].sha
                             THEN [parses[i] EXCEPT !.status = status, !.writer = r]
                             ELSE parses[i]]

\* The tree cannot be fetched: the parse is FAILED, and the review with it.
ParseFails(r) == At(r, "parse") /\ ReviewFails(r, SetParse(r, "FAILED"))

\* All rows but the newest, whatever their status.
OldParses(r) ==
    {View(r)[i].commit : i \in 1..(Len(View(r)) - KeepCount)}

\* A parse that its own clean-up deletes is no result, and the review fails.
FinishParse(r) ==
    /\ At(r, "parse")
    /\ IF work[r].sha \in OldParses(r)
       THEN ReviewFails(r, Filtered(SetParse(r, "COMPLETED"),
                    {p \in ParsedRepository : p.commit \notin OldParses(r)}))
       ELSE /\ parses' = SetParse(r, "COMPLETED")
            /\ work' = [work EXCEPT ![r].step = "compare", ![r].drop = OldParses(r)]
            /\ UNCHANGED <<code, head, context, done>>

\* changed_files is what differs from the commit of the previous review; a call
\* that fails, or that is about a head further back, lists nothing.
CompareCommits(r, answered) ==
    /\ At(r, "compare")
    /\ Goes(r, [work[r] EXCEPT !.step = "analyse",
           !.diff = answered /\ work[r].prev # 0 /\ work[r].sha > work[r].prev])

-----------------------------------------------------------------------------
(* The analysis. *)

\* The rules run over the files of the newest parse that is COMPLETED.
CompletedView(r) ==
    Filtered(View(r), {p \in ParsedRepository : StatusFor(r, p) = "COMPLETED"})
LatestParse(r) == IF CompletedView(r) = <<>> THEN 0 ELSE Last(CompletedView(r)).commit

\* Faulty: a list that could not be had is an empty list.
InfraUnlisted(r) ==
    /\ context = "covers"
    /\ ~(work[r].diff /\ code[work[r].prev] # code[work[r].sha])

\* The files that an earlier review found to instrument the code are not among
\* the changed files.
InfraUnchanged(r) ==
    /\ context = "covers"
    /\ work[r].diff
    /\ code[work[r].prev] = code[work[r].sha]

\* Facts, rules, previous context, and the way on.  The mock pipeline reads no
\* code; no parse has no gaps.
Analyse(r, pipeline, gaps) ==
    /\ At(r, "analyse")
    /\ gaps => pipeline # "mock" /\ LatestParse(r) # 0
    /\ LET to(step, how) == Goes(r, [work[r] EXCEPT !.step = step, !.how = how,
                                                   !.facts = LatestParse(r)])
       IN  IF ~gaps THEN to("save", "all")
           ELSE IF InfraUnchanged(r) THEN to("save", "context")
           ELSE \/ pipeline = "graph" /\ to("extract", "agent")
                \/ pipeline = "plain" /\ to("discover", "agent")

\* What an LLM makes of the files: it may miss what is there.
Seen(r) == {IF infra THEN "covers" ELSE "bare" : infra \in {code[work[r].facts], FALSE}}

\* One LLM call names the candidate files.
IdentifyConfigFiles(r, n) ==
    /\ At(r, "extract") /\ work[r].calls = 0
    /\ Goes(r, [work[r] EXCEPT !.left = n, !.calls = 1])

BudgetSpent(calls) == calls >= MostCalls

\* One candidate, if there is one, read by one call unless it is empty; then the
\* budget is checked, and with no candidate left the context is built and flushed.
ExtractSingleFile(r, calls) ==
    /\ At(r, "extract") /\ work[r].calls > 0
    /\ calls \in {work[r].calls} \union (IF work[r].left > 0 THEN {work[r].calls + 1} ELSE {})
    /\ IF BudgetSpent(calls) THEN ReviewFails(r, parses)
       ELSE IF work[r].left > 1
       THEN Goes(r, [work[r] EXCEPT !.left = @ - 1, !.calls = calls])
       ELSE \E seen \in Seen(r) :
                Goes(r, [work[r] EXCEPT !.step = "save", !.left = 0, !.calls = calls,
                                       !.found = seen])

\* The other pipeline lets an agent look around, and asks no budget.
DiscoverInfrastructure(r) ==
    /\ At(r, "discover")
    /\ \E seen \in Seen(r) : Goes(r, [work[r] EXCEPT !.step = "save", !.found = seen])

\* Verified, enriched, scored and saved: the review is COMPLETED.  What an LLM
\* does wrong here changes what is said of a gap, and fails no review.
SaveAnalysis(r) ==
    /\ At(r, "save")
    /\ EndReview(r, parses, [done EXCEPT ![work[r].svc] = work[r].sha])

-----------------------------------------------------------------------------
AnalysisNext ==
    \/ \E infra \in BOOLEAN : Push(infra)
    \/ \E c \in Commits : ForcePush(c)
    \/ \E r \in Runners :
        \/ LeaveReview(r) \/ RunnerDies(r)
        \/ \E s \in Reviewed : StartReview(r, s)
        \/ HeadFetchFails(r) \/ UseCachedParse(r) \/ ParseCollides(r) \/ StartParse(r)
        \/ TokenRefreshCommits(r) \/ ParseFails(r) \/ FinishParse(r)
        \/ \E answered \in BOOLEAN : CompareCommits(r, answered)
        \/ \E p \in Pipelines, gaps \in BOOLEAN : Analyse(r, p, gaps)
        \/ \E n \in 0..MostFiles : IdentifyConfigFiles(r, n)
        \/ \E calls \in 1..(MostFiles + 1) : ExtractSingleFile(r, calls)
        \/ DiscoverInfrastructure(r) \/ SaveAnalysis(r)

AnalysisSpec == AnalysisInit /\ [][AnalysisNext]_analysisVars

-----------------------------------------------------------------------------
(* Properties. *)

\* A review whose gaps were filtered with what an earlier review found, and not
\* verified, is one of a commit whose infrastructure is that of the commit it
\* was last reviewed at: neither a comparison that failed nor a branch that
\* moved back passes for "nothing has changed".
FilteredIsUnchanged ==
    \A r \in Runners : work[r].how = "context" =>
        work[r].prev # 0 /\ code[work[r].sha] = code[work[r].prev]

\* What an LLM found is kept for later reviews only by a review that had budget
\* left when it had looked at every candidate file.
ContextWithinBudget ==
    \A r \in Runners : work[r].found # "none" => work[r].calls < MostCalls

\* What a review is filtered by is unchanged code, and was looked for within
\* the budget of calls.
AnalysisIsSound == FilteredIsUnchanged /\ ContextWithinBudget
=============================================================================
