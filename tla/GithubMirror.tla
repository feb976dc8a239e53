---------------------------- MODULE GithubMirror ----------------------------
(***************************************************************************)
(* The GitHub mirror (features/ghmirror, publication): `github push`       *)
(* projects tasks, decisions and findings onto issues and comments of the  *)
(* linked repository, `github pull` adopts human-filed issues as tasks,    *)
(* `github link` binds a repository and records consent.  A push holds a   *)
(* lock file per repository; a pull holds none.  Every gh call may fail,   *)
(* or take effect and have its answer lost; a process may die anywhere.    *)
(* Issues are numbered per repository and keep marker and title.           *)
(***************************************************************************)
EXTENDS Naturals, FiniteSets, SequencesExt

CONSTANTS
    Tasks,        \* task numbers, 1 .. n; the first exists from the start
    Decisions, Findings,     \* notes; every finding is about task 1
    Repos, Procs,
    Modes,        \* how push is called: "tasks", "findings", "closure"
    Titles,       \* titles a human may file: the plain or the canonical one of task 1, or another
    MaxIssues, MaxChanges, MaxStops,
    None

Bounds == /\ IsFiniteSet(Tasks) /\ IsFiniteSet(Decisions) /\ IsFiniteSet(Findings)
          /\ Tasks = 1 .. Cardinality(Tasks) /\ 1 \in Tasks
          /\ None \notin Procs \cup Repos

VARIABLES
    link,      \* the project's frontmatter: [repo, public, internal]
    visible,   \* GitHub: each repository's visibility
    tasks,     \* None or [title, status, map]
    notes,     \* decision and finding files: their mapping
    issues,    \* GitHub: [marker, title, open, comments] by repository and number
    lock,      \* github-push-<repo>.lock
    proc,      \* the commands that run
    wrote,     \* history: <<repo, number, record>> whose issue a push edited, commented on or closed
    changes, stops

vars == <<link, visible, tasks, notes, issues, lock, proc, wrote, changes, stops>>

Notes == Decisions \cup Findings
Idle == [pc |-> "idle"]
Plain == <<"plain", 1>>
taskIssueTitle(t) == IF tasks[t].title = Plain THEN <<"canonical", 1>> ELSE <<"canonical", t + 1>>

githubBlock(n, repo) == [issue |-> n, repo |-> repo]
\* The number alone: the repository in the block is not looked at.
mappedIssueDoc(block) == IF block = None THEN 0 ELSE block.issue

To(p, pc) == proc' = [proc EXCEPT ![p].pc = pc]
Ends(p) == proc' = [proc EXCEPT ![p] = Idle]
Releases(p) == lock' = [lock EXCEPT ![proc[p].repo] = IF @ = p THEN None ELSE @]

-----------------------------------------------------------------------------
(* github link, and what may be disclosed.                                 *)

consentCoversRepo(confirmed, repo) == confirmed = repo

cmdLink(repo, public, internal) ==
    /\ changes < MaxChanges /\ changes' = changes + 1
    /\ internal => public /\ visible[repo] = "public"
    /\ visible[repo] = "public" => public
    /\ link' = [repo |-> repo, public |-> IF visible[repo] = "public" THEN repo ELSE link.public,
                internal |-> IF internal THEN repo ELSE link.internal]
    /\ link' # link
    /\ UNCHANGED <<visible, tasks, notes, issues, lock, proc, wrote, stops>>

\* publication.New: internal evidence on a private repository, or asked for
\* and authorised for exactly this public one.
publicationPolicy(include) ==
    visible[link.repo] = "private" \/ (include /\ consentCoversRepo(link.internal, link.repo))

\* The frontmatter and the live visibility are read before the lock is taken.
cmdPush(p, mode, include) ==
    /\ proc[p] = Idle /\ link.repo # None /\ mode \in Modes
    /\ visible[link.repo] = "public" => consentCoversRepo(link.public, link.repo)
    /\ (include \/ mode = "findings") => publicationPolicy(include)
    /\ mode = "closure" => ~include
    /\ proc' = [proc EXCEPT ![p] = [pc |-> "wait", mode |-> mode, repo |-> link.repo, allowed |-> publicationPolicy(include),
                                    cleared |-> visible[link.repo] = "private" \/ link.internal = link.repo,
                                    idx |-> 0, snap |-> tasks, todo |-> <<>>, num |-> 0, post |-> {}]]
    /\ UNCHANGED <<link, visible, tasks, notes, issues, lock, wrote, changes, stops>>

-----------------------------------------------------------------------------
(* github push, under the repository's lock.                               *)

TakeLock(p) ==
    /\ proc[p].pc = "wait" /\ lock[proc[p].repo] = None
    /\ lock' = [lock EXCEPT ![proc[p].repo] = p]
    /\ To(p, IF proc[p].mode = "closure" THEN "list" ELSE "index")
    /\ UNCHANGED <<link, visible, tasks, notes, issues, wrote, changes, stops>>

\* markerIndex.load: one snapshot of all issues; a list that failed or was cut
\* off refuses the push before anything is created.
preflightLenient(p) == {Len(issues[proc[p].repo]), 0}
preflight(p) == {Len(issues[proc[p].repo])}

markerIndex(p) ==
    /\ proc[p].pc = "index"
    /\ \/ \E n \in preflight(p) : proc' = [proc EXCEPT ![p].pc = "list", ![p].idx = n] /\ UNCHANGED lock
       \/ Ends(p) /\ Releases(p)
    /\ UNCHANGED <<link, visible, tasks, notes, issues, wrote, changes, stops>>

\* ListTasks and the notes, once: tasks by their numbers, which are given in
\* order, then decisions, then findings.
Existing == Cardinality({t \in Tasks : tasks[t] # None})
Project(p) == [i \in 1 .. Existing |-> <<"task", i>>]
              \o (IF proc[p].allowed THEN [i \in 1 .. Cardinality(Decisions) |-> <<"decision", SetToSeq(Decisions)[i]>>] ELSE <<>>)
FindingIssues == [i \in 1 .. Cardinality(Findings) |-> <<"finding", SetToSeq(Findings)[i]>>]
DoneMapped == \A t \in Tasks : tasks[t] # None => tasks[t].status = "done" /\ tasks[t].map # None

pushProject(p) ==
    /\ proc[p].pc = "list"
    /\ IF proc[p].mode = "closure" /\ ~DoneMapped THEN Ends(p) /\ Releases(p)
       ELSE /\ proc' = [proc EXCEPT ![p].pc = "next", ![p].snap = tasks,
                        ![p].todo = IF proc[p].mode = "findings" THEN FindingIssues ELSE Project(p)]
            /\ UNCHANGED lock
    /\ UNCHANGED <<link, visible, tasks, notes, issues, wrote, changes, stops>>

Record(p) == Head(proc[p].todo)
IsTask(p) == Record(p)[1] = "task"
Block(p) == IF IsTask(p) THEN proc[p].snap[Record(p)[2]].map ELSE notes[Record(p)[2]]
Done(p) == IsTask(p) /\ proc[p].snap[Record(p)[2]].status = "done"

\* The lowest issue of the snapshot with the record's marker, then, for a
\* task, with its canonical title.
Seen(p, Match(_)) == {i \in 1 .. proc[p].idx : Match(issues[proc[p].repo][i])}
Lowest(S) == IF S = {} THEN 0 ELSE CHOOSE i \in S : \A j \in S : i <= j
findAll(p) == Lowest(Seen(p, LAMBDA x : x.marker = Record(p)))
findByTitle(p) == IF IsTask(p) THEN Lowest(Seen(p, LAMBDA x : x.title = taskIssueTitle(Record(p)[2]))) ELSE 0
Adoptable(p) == IF findAll(p) # 0 THEN findAll(p) ELSE findByTitle(p)

Created(p, marker, title) ==
    issues' = [issues EXCEPT ![proc[p].repo] = Append(@, [marker |-> marker, title |-> title, open |-> TRUE, comments |-> <<>>])]
IssueTitle(p) == IF IsTask(p) THEN taskIssueTitle(Record(p)[2]) ELSE <<"note", 0>>

\* Frontmatter, then marker, then title, and only then create: which answers,
\* is refused, or is done and its answer lost.
Resolve(p) ==
    LET known == mappedIssueDoc(Block(p))
        n == IF known # 0 THEN known ELSE Adoptable(p)
    IN  /\ proc[p].pc = "next" /\ proc[p].todo # <<>>
        /\ IF proc[p].mode = "closure" THEN proc' = [proc EXCEPT ![p].pc = "close", ![p].num = known] /\ UNCHANGED <<issues, lock>>
           ELSE IF n # 0 THEN proc' = [proc EXCEPT ![p].pc = "map", ![p].num = n] /\ UNCHANGED <<issues, lock>>
           ELSE /\ Len(issues[proc[p].repo]) < MaxIssues
                /\ \/ /\ Created(p, Record(p), IssueTitle(p))
                      /\ \/ /\ proc' = [proc EXCEPT ![p].pc = IF Record(p)[1] = "decision" THEN "file" ELSE "map",
                                                    ![p].num = Len(issues[proc[p].repo]) + 1]
                            /\ UNCHANGED lock
                         \/ Ends(p) /\ Releases(p)
                   \/ Ends(p) /\ Releases(p) /\ UNCHANGED issues
        /\ UNCHANGED <<link, visible, tasks, notes, wrote, changes, stops>>

Exists(p) == proc[p].num \in DOMAIN issues[proc[p].repo]
Wrote(p) == wrote' = IF Exists(p) THEN wrote \cup {<<proc[p].repo, proc[p].num, Record(p)>>} ELSE wrote
SetOpen(p, open) == issues' = IF Exists(p) THEN [issues EXCEPT ![proc[p].repo][proc[p].num].open = open] ELSE issues

\* A decision is filed closed, once, as far as that works.
FileClosed(p) ==
    /\ proc[p].pc = "file" /\ To(p, "map") /\ (SetOpen(p, FALSE) \/ UNCHANGED issues)
    /\ UNCHANGED <<link, visible, tasks, notes, lock, wrote, changes, stops>>

\* The mapping is written once the issue exists; the labels follow.
WriteBack(p) ==
    LET block == githubBlock(proc[p].num, proc[p].repo) IN
    /\ proc[p].pc = "map"
    /\ IF IsTask(p) THEN tasks' = [tasks EXCEPT ![Record(p)[2]].map = block] /\ UNCHANGED notes
       ELSE notes' = [notes EXCEPT ![Record(p)[2]] = block] /\ UNCHANGED tasks
    /\ To(p, IF IsTask(p) THEN "label" ELSE "drop")
    /\ UNCHANGED <<link, visible, issues, lock, wrote, changes, stops>>

syncIssueTaxonomy(p) ==
    /\ proc[p].pc = "label" /\ Wrote(p)
    /\ To(p, IF proc[p].allowed /\ Record(p)[2] = 1 THEN "read" ELSE "close")
    /\ UNCHANGED <<link, visible, tasks, notes, issues, lock, changes, stops>>

\* Comments that cannot be read stop the push; only what carries no marker of
\* the finding yet is posted.
findingsToPost(p) == Findings \ Range(issues[proc[p].repo][proc[p].num].comments)
mirrorFindings(p) ==
    /\ proc[p].pc = "read"
    /\ \/ Exists(p) /\ proc' = [proc EXCEPT ![p].pc = "post", ![p].post = findingsToPost(p)] /\ UNCHANGED lock
       \/ Ends(p) /\ Releases(p)
    /\ UNCHANGED <<link, visible, tasks, notes, issues, wrote, changes, stops>>
PostComment(p) ==
    /\ proc[p].pc = "post"
    /\ IF proc[p].post = {} THEN To(p, "close") /\ UNCHANGED <<issues, lock, wrote>>
       ELSE \E f \in proc[p].post :
              \/ /\ issues' = [issues EXCEPT ![proc[p].repo][proc[p].num].comments = Append(@, f)] /\ Wrote(p)
                 /\ \/ proc' = [proc EXCEPT ![p].post = @ \ {f}] /\ UNCHANGED lock
                    \/ Ends(p) /\ Releases(p)
              \/ Ends(p) /\ Releases(p) /\ UNCHANGED <<issues, wrote>>
    /\ UNCHANGED <<link, visible, tasks, notes, changes, stops>>

\* A close that fails ends the push: what comes later waits for the next one.
CloseDone(p) ==
    /\ proc[p].pc = "close"
    /\ IF ~Done(p) THEN To(p, "drop") /\ UNCHANGED <<issues, lock, wrote>>
       ELSE \/ SetOpen(p, FALSE) /\ Wrote(p) /\ To(p, "drop") /\ Exists(p) /\ UNCHANGED lock
            \/ Ends(p) /\ Releases(p) /\ UNCHANGED <<issues, wrote>>
    /\ UNCHANGED <<link, visible, tasks, notes, changes, stops>>

Following(p) ==
    /\ proc[p].pc = "drop" /\ proc' = [proc EXCEPT ![p].pc = "next", ![p].todo = Tail(@), ![p].num = 0]
    /\ UNCHANGED <<link, visible, tasks, notes, issues, lock, wrote, changes, stops>>
Applied(p) ==
    /\ proc[p].pc = "next" /\ proc[p].todo = <<>> /\ Ends(p) /\ Releases(p)
    /\ UNCHANGED <<link, visible, tasks, notes, issues, wrote, changes, stops>>

-----------------------------------------------------------------------------
(* github pull                                                             *)

mappedIssues == {mappedIssueDoc(tasks[t].map) : t \in {t \in Tasks : tasks[t] # None}} \ {0}
shouldImport(i) == LET x == issues[link.repo][i] IN i \notin mappedIssues /\ x.marker = None /\ x.open

\* What a live task of a similar title means for an issue.
Live == {t \in Tasks : tasks[t] # None /\ tasks[t].status = "open"}
Similar(x) == {t \in Live : tasks[t].title = x \/ (x = <<"canonical", 1>> /\ tasks[t].title = Plain)}
Exact(x) == {t \in Similar(x) : tasks[t].title = x /\ tasks[t].map = None}
planPull(i) == LET x == issues[link.repo][i].title IN
               IF Similar(x) = {} THEN "create" ELSE IF Exact(x) # {} THEN "link" ELSE "refuse"

\* One issue at a time in this model: the plan of one issue, then its mutation.
cmdPull(p) ==
    /\ proc[p] = Idle /\ link.repo # None
    /\ \E i \in DOMAIN issues[link.repo] :
        /\ shouldImport(i) /\ planPull(i) # "refuse"
        /\ \A j \in DOMAIN issues[link.repo] : shouldImport(j) => planPull(j) # "refuse"
        /\ proc' = [proc EXCEPT ![p] = [pc |-> planPull(i), repo |-> link.repo, num |-> i, title |-> issues[link.repo][i].title,
                                        task |-> IF planPull(i) = "link" THEN CHOOSE t \in Exact(issues[link.repo][i].title) : TRUE ELSE 0]]
    /\ UNCHANGED <<link, visible, tasks, notes, issues, lock, wrote, changes, stops>>

\* CreateTask gives the next number; the mapping is a second write.
CreateTask(p) ==
    /\ proc[p].pc = "create"
    /\ \E t \in Tasks : /\ tasks[t] = None /\ \A u \in Tasks : u < t => tasks[u] # None
                        /\ tasks' = [tasks EXCEPT ![t] = [title |-> proc[p].title, status |-> "open", map |-> None]]
                        /\ proc' = [proc EXCEPT ![p].pc = "link", ![p].task = t]
    /\ UNCHANGED <<link, visible, notes, issues, lock, wrote, changes, stops>>
LinkTask(p) ==
    /\ proc[p].pc = "link" /\ Ends(p)
    /\ tasks' = [tasks EXCEPT ![proc[p].task].map = githubBlock(proc[p].num, proc[p].repo)]
    /\ UNCHANGED <<link, visible, notes, issues, lock, wrote, changes, stops>>

-----------------------------------------------------------------------------
(* The operator, GitHub and crashes.                                       *)

Files(repo, title) ==
    /\ changes < MaxChanges /\ Len(issues[repo]) < MaxIssues /\ changes' = changes + 1
    /\ issues' = [issues EXCEPT ![repo] = Append(@, [marker |-> None, title |-> title, open |-> TRUE, comments |-> <<>>])]
    /\ UNCHANGED <<link, visible, tasks, notes, lock, proc, wrote, stops>>
Flips(repo) ==
    /\ changes < MaxChanges /\ changes' = changes + 1
    /\ visible' = [visible EXCEPT ![repo] = IF @ = "public" THEN "private" ELSE "public"]
    /\ UNCHANGED <<link, tasks, notes, issues, lock, proc, wrote, stops>>
Moves(t) ==
    /\ tasks[t] # None /\ changes < MaxChanges /\ changes' = changes + 1
    /\ tasks' = [tasks EXCEPT ![t].status = IF @ = "open" THEN "done" ELSE "open"]
    /\ UNCHANGED <<link, visible, notes, issues, lock, proc, wrote, stops>>
Stops(p) ==
    /\ proc[p] # Idle /\ stops < MaxStops /\ stops' = stops + 1 /\ Ends(p) /\ Releases(p)
    /\ UNCHANGED <<link, visible, tasks, notes, issues, wrote, changes>>

Init ==
    /\ link = [repo |-> None, public |-> None, internal |-> None] /\ visible = [r \in Repos |-> "public"]
    /\ tasks = [t \in Tasks |-> IF t = 1 THEN [title |-> Plain, status |-> "open", map |-> None] ELSE None]
    /\ notes = [n \in Notes |-> None] /\ issues = [r \in Repos |-> <<>>] /\ lock = [r \in Repos |-> None]
    /\ proc = [p \in Procs |-> Idle] /\ wrote = {} /\ changes = 0 /\ stops = 0

Push(p) == \/ \E mode \in Modes, include \in BOOLEAN : cmdPush(p, mode, include)
           \/ TakeLock(p) \/ markerIndex(p) \/ pushProject(p) \/ Resolve(p) \/ FileClosed(p) \/ WriteBack(p)
           \/ syncIssueTaxonomy(p) \/ mirrorFindings(p) \/ PostComment(p) \/ CloseDone(p) \/ Following(p) \/ Applied(p)
Pull(p) == cmdPull(p) \/ CreateTask(p) \/ LinkTask(p)

Next == \/ \E p \in Procs : Push(p) \/ Pull(p) \/ Stops(p)
        \/ \E r \in Repos : Flips(r) \/ \E t \in Titles : Files(r, t)
        \/ \E r \in Repos, public, internal \in BOOLEAN : cmdLink(r, public, internal)
        \/ \E t \in Tasks : Moves(t)

Spec == Init /\ [][Next]_vars

-----------------------------------------------------------------------------
\* Whatever is interrupted, timed out or repeated, and whoever else pushes: a
\* task, a decision and a finding has one issue in a repository, and a finding
\* one comment.
PublishedOnce ==
    \A r \in Repos :
        /\ \A i, j \in DOMAIN issues[r] : issues[r][i].marker # None /\ issues[r][i].marker = issues[r][j].marker => i = j
        /\ \A i \in DOMAIN issues[r] : IsInjective(issues[r][i].comments)

\* Decisions and findings go only to a repository that was private, or named
\* in the recorded internal authority, when the push was checked: authority
\* never follows the project to another repository.
Internal(p) == \/ proc[p].pc = "post" /\ proc[p].post # {}
               \/ proc[p].pc = "map" /\ ~IsTask(p)
NothingUndisclosed == \A p \in Procs : proc[p] # Idle /\ Internal(p) => proc[p].cleared

\* Push edits, comments on and closes only the issues of its own records: the
\* ones that carry their marker or title.
OwnTitle(t, x) == tasks[t] # None /\ (x = tasks[t].title \/ x = taskIssueTitle(t))
OwnIssuesOnly ==
    \A w \in wrote : LET x == issues[w[1]][w[2]] IN x.marker = w[3] \/ (x.marker = None /\ w[3][1] = "task" /\ OwnTitle(w[3][2], x.title))

=============================================================================
