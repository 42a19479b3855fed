---------------------------------- MODULE Wiki ----------------------------------
(***************************************************************************)
(* The compilation of meetings into the wiki: step 9 of the pipeline and    *)
(* the backfill jobs run core/wiki/compiler.py on the same pages, with no   *)
(* lock between reading action_items.md, asking the model and writing it.   *)
(* Of the pages the model keeps that one, which every compilation rewrites, *)
(* and what is derived from the pages: the search index, the digest and the *)
(* git history.  An item is the meeting it cites with the version of that   *)
(* meeting's transcript; duplicates of an item are not told apart.          *)
(***************************************************************************)
EXTENDS FiniteSets, Naturals

CONSTANTS
    WikiMeetings,      \* meetings with a transcript
    Pipeline,          \* the compiler of step 9
    Fills,             \* backfill jobs
    MaxCompilations,   \* bound of the compilations begun
    MaxWikiFaults      \* bound of the hand edits, lost transcripts and crashes

\* The pipeline is no backfill job, and there is a meeting to compile.
ASSUME WikiAssumption == WikiMeetings # {} /\ Pipeline \notin Fills

VARIABLES
    page,          \* action_items.md: [canonical, open, closed]
    wikiSource,    \* version of a meeting's correct or merge checkpoint, 0: none
    derived,       \* the items the index, the digest and the history show
    compilation,   \* a compiler's meeting, phase and what it has gathered
    fill,          \* a backfill: status in memory and in its row, event, targets
    recorded,      \* history: [open, closed] items the page ever had
    wikiOverlapped,    \* history: a compilation wrote over another one's page
    behind,        \* history: derived views whose refresh was lost
    compilations, wikiFaults

wikiVars == <<page, wikiSource, derived, compilation, fill, recorded, wikiOverlapped,
              behind, compilations, wikiFaults>>

Views == {"index", "digest", "history"}
Compilers == {Pipeline} \cup Fills
ItemsShown == page.open \cup page.closed

Resting ==
    [phase |-> "rest", meeting |-> CHOOSE m \in WikiMeetings : TRUE, version |-> 0,
     new |-> {}, parsed |-> FALSE, open |-> {}, closed |-> {},
     verdict |-> "none", stale |-> FALSE]

NoFill == [memory |-> "none", row |-> "none", event |-> FALSE, todo |-> {},
           failed |-> FALSE, succeeded |-> FALSE]

\* What a parse of the page gives: whether it has the form it was written in, and
\* the items of its two sections.
EmptyPage == [canonical |-> TRUE, open |-> {}, closed |-> {}]

WikiInit ==
    /\ page = EmptyPage
    /\ wikiSource = [m \in WikiMeetings |-> 1]
    /\ derived = [v \in Views |-> {}]
    /\ compilation = [c \in Compilers |-> Resting]
    /\ fill = [f \in Fills |-> NoFill]
    /\ recorded = [open |-> {}, closed |-> {}]
    /\ wikiOverlapped = FALSE /\ behind = {}
    /\ compilations = 0 /\ wikiFaults = 0

WikiFault == wikiFaults < MaxWikiFaults /\ wikiFaults' = wikiFaults + 1

Compiling(c, phase) == compilation[c].phase = phase
Goes(c, changes) == compilation' = [compilation EXCEPT ![c] = changes]

\* compile_meeting is called with the meeting's utterances.
Begins(c, m) ==
    /\ compilations < MaxCompilations /\ compilations' = compilations + 1
    /\ Goes(c, [Resting EXCEPT !.phase = "extract", !.meeting = m, !.version = wikiSource[m]])

\* The pipeline's step 9: _run_step_wiki_compile.
PipelineCompiles ==
    /\ Compiling(Pipeline, "rest")
    /\ \E m \in WikiMeetings : wikiSource[m] > 0 /\ Begins(Pipeline, m)
    /\ UNCHANGED <<page, wikiSource, derived, fill, recorded, wikiOverlapped, behind, wikiFaults>>

Item(c) == [meeting |-> compilation[c].meeting, version |-> compilation[c].version]

\* Mutant: a page that cannot be parsed counts as an empty one.
OddIsEmpty == TRUE

\* Only a page that can be written back without loss is taken.
ParsesWell == page.canonical

\* _parse_existing_action_items, after extract_new has answered.
Existing(items) == IF page.canonical THEN items ELSE {}

ExtractAndParse(c) ==
    /\ Compiling(c, "extract")
    /\ \E new \in {{}, {Item(c)}} :
          Goes(c, [compilation[c] EXCEPT
                     !.phase = "detect", !.new = new, !.parsed = ParsesWell,
                     !.open = Existing(page.open), !.closed = Existing(page.closed)])
    /\ UNCHANGED <<page, wikiSource, derived, fill, recorded, wikiOverlapped, behind,
                   compilations, wikiFaults>>

\* detect_closed may find any of the open items done, or fail and find none.
NewlyClosed(c) == SUBSET compilation[c].open

\* render_unified_page: the items the page is to have.
Rendered(c, done) ==
    [compilation[c] EXCEPT !.open = (@ \ done) \cup compilation[c].new, !.closed = @ \cup done]

DetectAndRender(c) ==
    /\ Compiling(c, "detect")
    /\ \E done \in NewlyClosed(c) : Goes(c, [Rendered(c, done) EXCEPT !.phase = "verify"])
    /\ UNCHANGED <<page, wikiSource, derived, fill, recorded, wikiOverlapped, behind,
                   compilations, wikiFaults>>

\* WikiGuard: D2 asks the compiled meeting's utterances and the checkpoints of
\* the other meetings, D3 the average confidence of what is new.
CitesCheckpoint(c, item) ==
    item.meeting # compilation[c].meeting /\ wikiSource[item.meeting] = item.version

Cites(c, item) == item = Item(c) \/ CitesCheckpoint(c, item)

Verdicts(c) ==
    IF ~compilation[c].parsed THEN {"skipped"}
    ELSE IF \E item \in compilation[c].open \cup compilation[c].closed : ~Cites(c, item)
         THEN {"phantom_citation"}
         ELSE {"passed"} \cup (IF compilation[c].new # {} THEN {"low_confidence"} ELSE {})

VerifyCitations(c) ==
    /\ Compiling(c, "verify")
    /\ \E verdict \in Verdicts(c) :
          Goes(c, [compilation[c] EXCEPT !.phase = "write", !.verdict = verdict])
    /\ UNCHANGED <<page, wikiSource, derived, fill, recorded, wikiOverlapped, behind,
                   compilations, wikiFaults>>

Reads(d) == compilation[d].phase \in {"detect", "verify", "write"}

\* _dispatch_page_by_verdict, write_page included, which may fail.
PageOf(c) == [canonical |-> TRUE, open |-> compilation[c].open, closed |-> compilation[c].closed]

WritePage(c) ==
    /\ Compiling(c, "write") /\ compilation[c].verdict = "passed"
    /\ page' = PageOf(c)
    /\ compilation' = [d \in Compilers |->
          IF d = c THEN [compilation[c] EXCEPT !.phase = "written"]
          ELSE IF Reads(d) THEN [compilation[d] EXCEPT !.stale = TRUE] ELSE compilation[d]]
    /\ wikiOverlapped' = (wikiOverlapped \/ compilation[c].stale)
    /\ recorded' = [open |-> recorded.open \cup page'.open,
                    closed |-> recorded.closed \cup page'.closed]
    /\ UNCHANGED <<wikiSource, derived, fill, behind, compilations, wikiFaults>>

KeepPage(c) ==
    /\ Compiling(c, "write")
    /\ \/ compilation[c].verdict # "passed" /\ UNCHANGED wikiFaults
       \/ compilation[c].verdict = "passed" /\ WikiFault
    /\ Goes(c, [compilation[c] EXCEPT !.phase = "written",
                  !.verdict = IF @ = "passed" THEN "write_failed" ELSE @])
    /\ UNCHANGED <<page, wikiSource, derived, fill, recorded, wikiOverlapped, behind, compilations>>

\* A view is rebuilt from the pages as they are, or its refresh fails.
RefreshedView(view) ==
    \/ /\ derived' = [derived EXCEPT ![view] = ItemsShown] /\ behind' = behind \ {view}
       /\ UNCHANGED wikiFaults
    \/ WikiFault /\ derived' = derived /\ behind' = behind \cup {view}

\* WikiSearchIndex.rebuild
IndexRebuilt == RefreshedView("index")

\* It is due when a page, this one or another, was written or put aside.
RefreshIndex(c) ==
    /\ Compiling(c, "written")
    /\ \/ IndexRebuilt
       \/ /\ compilation[c].verdict \notin {"passed", "low_confidence"}
          /\ UNCHANGED <<derived, behind, wikiFaults>>
    /\ Goes(c, [compilation[c] EXCEPT !.phase = "indexed"])
    /\ UNCHANGED <<page, wikiSource, fill, recorded, wikiOverlapped, compilations>>

\* Mutant: the digest is made anew only when a page was written.
DigestOnChange(c) ==
    \/ RefreshedView("digest") /\ compilation[c].verdict = "passed"
    \/ /\ compilation[c].verdict # "passed"
       /\ derived' = derived /\ behind' = behind \ {"digest"} /\ UNCHANGED wikiFaults

\* _regenerate_digest, outside the guard on changes.
Digests(c) == RefreshedView("digest")

RefreshDigest(c) ==
    /\ Compiling(c, "indexed")
    /\ Digests(c)
    /\ Goes(c, [compilation[c] EXCEPT !.phase = "digested"])
    /\ UNCHANGED <<page, wikiSource, fill, recorded, wikiOverlapped, compilations>>

\* git_commit_atomic adds whatever the pages are, and may fail.
Committed == RefreshedView("history")

\* lint_all when it is due, the commit, and the result.
Commit(c) ==
    /\ Compiling(c, "digested")
    /\ Committed
    /\ Goes(c, Resting)
    /\ UNCHANGED <<page, wikiSource, fill, recorded, wikiOverlapped, compilations>>

Compile(c) ==
    \/ ExtractAndParse(c) \/ DetectAndRender(c) \/ VerifyCitations(c) \/ WritePage(c) \/ KeepPage(c)
    \/ RefreshIndex(c) \/ RefreshDigest(c) \/ Commit(c)

------------------------------------------------------------------------------

\* start_wiki_backfill, retry-failed and resume, each a new job: the targets
\* are listed as the task begins, or the queue cannot be read.
StartFill(f, targets, listed) ==
    /\ fill[f].memory = "none" /\ fill[f].row = "none"
    /\ fill' = [fill EXCEPT ![f] = [NoFill EXCEPT !.memory = "running", !.row = "running",
                                      !.todo = IF listed THEN targets ELSE {}]]
    /\ UNCHANGED <<page, wikiSource, derived, compilation, recorded, wikiOverlapped, behind,
                   compilations, wikiFaults>>

InLoop(f) == fill[f].memory = "running" /\ Compiling(f, "rest")

\* _load_utterances: the utterances of a meeting; its summary may be missing.
HasData(m) == wikiSource[m] > 0

\* _filter_jobs: any of the meetings; a dry run compiles none of them.
Targets == SUBSET WikiMeetings

\* The next target is compiled, which may come to nothing, or counted as
\* failed when it has no data.
NextMeeting(f) ==
    /\ InLoop(f) /\ ~fill[f].event
    /\ \E m \in fill[f].todo :
          \/ /\ HasData(m) /\ Begins(f, m)
             /\ \E empty \in BOOLEAN :
                   fill' = [fill EXCEPT ![f].todo = @ \ {m}, ![f].failed = @ \/ empty,
                                        ![f].succeeded = @ \/ ~empty]
          \/ /\ fill' = [fill EXCEPT ![f].todo = @ \ {m}, ![f].failed = TRUE]
             /\ UNCHANGED <<compilation, compilations>>
    /\ UNCHANGED <<page, wikiSource, derived, recorded, wikiOverlapped, behind, wikiFaults>>

\* Mutant: a cancelled loop ends like another one.
EndsLike(f) ==
    IF fill[f].failed /\ ~fill[f].succeeded THEN "failed" ELSE "completed"

\* _run_backfill: the status of a loop that has ended.
Outcome(f) ==
    IF fill[f].event THEN "cancelled"
    ELSE IF fill[f].failed /\ ~fill[f].succeeded THEN "failed" ELSE "completed"

\* complete_job, fail_job when it fails, or the old status when both fail.
EndRows(f) == {Outcome(f), "failed", fill[f].row}

EndFill(f) ==
    /\ InLoop(f) /\ (fill[f].event \/ fill[f].todo = {})
    /\ \E row \in EndRows(f) :
          fill' = [fill EXCEPT ![f].row = row,
                     ![f].memory = IF row = Outcome(f) THEN Outcome(f) ELSE "failed"]
    /\ UNCHANGED <<page, wikiSource, derived, compilation, recorded, wikiOverlapped, behind,
                   compilations, wikiFaults>>

\* cancel_wiki_backfill: whatever the status is.
CancelFill(f) ==
    /\ fill[f].row # "none"
    /\ fill' = [fill EXCEPT ![f].event = fill[f].memory # "none", ![f].row = "cancelled"]
    /\ UNCHANGED <<page, wikiSource, derived, compilation, recorded, wikiOverlapped, behind,
                   compilations, wikiFaults>>

------------------------------------------------------------------------------

\* A person edits action_items.md by hand, or puts it in order.
EditPage ==
    /\ WikiFault /\ page' = [page EXCEPT !.canonical = ~@]
    /\ UNCHANGED <<wikiSource, derived, compilation, fill, recorded, wikiOverlapped, behind,
                   compilations>>

\* A meeting is transcribed again or deleted.
ChangeTranscript(m) ==
    /\ WikiFault /\ wikiSource[m] = 1
    /\ \E version \in {0, 2} : wikiSource' = [wikiSource EXCEPT ![m] = version]
    /\ UNCHANGED <<page, derived, compilation, fill, recorded, wikiOverlapped, behind, compilations>>

\* A crash: the pages and the rows stay, what was running is gone.
CrashWiki ==
    /\ WikiFault
    /\ compilation' = [c \in Compilers |-> Resting]
    /\ behind' = behind \cup
          {v \in Views : \E c \in Compilers :
              \/ Compiling(c, "written")
              \/ Compiling(c, "indexed") /\ v # "index"
              \/ Compiling(c, "digested") /\ v = "history"}
    /\ fill' = [f \in Fills |-> [fill[f] EXCEPT !.memory = "none", !.event = FALSE]]
    /\ UNCHANGED <<page, wikiSource, derived, recorded, wikiOverlapped, compilations>>

WikiNext ==
    \/ PipelineCompiles
    \/ \E c \in Compilers : Compile(c)
    \/ \E f \in Fills :
          \/ \E targets \in Targets, listed \in BOOLEAN : StartFill(f, targets, listed)
          \/ NextMeeting(f) \/ EndFill(f) \/ CancelFill(f)
    \/ EditPage \/ CrashWiki
    \/ \E m \in WikiMeetings : ChangeTranscript(m)

WikiSpec == WikiInit /\ [][WikiNext]_wikiVars

------------------------------------------------------------------------------

\* An item once on the page stays there, open or closed, and a closed one stays
\* closed, unless compilations overlapped: no unreadable page, phantom citation
\* or low confidence costs what earlier meetings left.
ItemsSurvive ==
    ~wikiOverlapped => recorded.open \subseteq ItemsShown /\ recorded.closed \subseteq page.closed

\* A view that no failure or crash left behind shows the page as it is, once
\* the compilations that wrote it have come to that view.
Ahead(v) ==
    \E c \in Compilers :
        \/ Compiling(c, "written")
        \/ Compiling(c, "indexed") /\ v # "index"
        \/ Compiling(c, "digested") /\ v = "history"

ViewsFollow == \A v \in Views : v \in behind \/ Ahead(v) \/ derived[v] = ItemsShown

\* What GET /wiki/backfill/{job_id} tells.
Told(f) ==
    IF fill[f].memory # "none" THEN fill[f].memory
    ELSE IF fill[f].row = "running" THEN "interrupted" ELSE fill[f].row

\* A backfill told completed has come to every target the queue listed, and one
\* told cancelled, failed or interrupted does not compile any more.
FillsTellTheTruth ==
    \A f \in Fills :
        /\ Told(f) = "completed" => fill[f].todo = {} /\ (fill[f].failed => fill[f].succeeded)
        /\ Told(f) # "running" => Compiling(f, "rest")

WikiKept == ItemsSurvive /\ ViewsFollow /\ FillsTellTheTruth
================================================================================
