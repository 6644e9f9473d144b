---------------------------- MODULE RepositoryGit ----------------------------
(***************************************************************************)
(* tools/repository_git.py: what repository tools learn from git while     *)
(* others change the repository.  Every question is asked in two rounds of *)
(* git commands (GitCommand says how one is run), and an answer is given   *)
(* only if both rounds agree and the .git marker never changed.            *)
(***************************************************************************)
EXTENDS Integers, Sequences, FiniteSets

CONSTANTS Paths, Contents,      \* content 0 means that there is no such file
          Branches,
          MaxChanges            \* bound on what others do while a question is asked

\* Content 0 is one; the repository has a branch to start on.
RepositoryAssumption == 0 \in Contents /\ "main" \in Branches /\ MaxChanges \in Nat

VARIABLES
    repo,           \* the repository the marker leads to, and the marker
    past,           \* history: how it was after every change, newest last
    question,       \* "file set", "identity" or "publication"
    phase,
    marker,         \* the marker identity remembered when the repository was opened
    step,           \* command of the question that is next
    between,        \* where in RepositoryGit.run it is
    output,         \* of the current command
    answers,        \* of the commands done
    asked,          \* history: Len(past) when each command ran
    result

vars == <<repo, past, question, phase, marker, step, between, output, answers, asked, result>>

-----------------------------------------------------------------------------
\* The repository.
NoFile == 0
Absent == 0                     \* no marker
Original == 1                   \* the repository that is meant; 2 is another one
Detached == "detached"         \* a branch whose tip is 0 has no commit

HeadOf(r) == r.tip[r.branch]
Tree(r) == r.tree[HeadOf(r)]
Trees == [Paths -> Contents]

\* git ls-files --cached --others, and git diff-files --diff-filter=D
Listed(r)  == {p \in Paths : r.index[p] # NoFile \/ r.work[p] # NoFile}
Deleted(r) == {p \in Paths : r.index[p] # NoFile /\ r.work[p] = NoFile}

\* git status --porcelain: the two letters of every path that has any.
Letter(from, to) ==
    IF from = to THEN " " ELSE IF from = NoFile THEN "A" ELSE IF to = NoFile THEN "D" ELSE "M"
Status(r) ==
    {<<p, Letter(Tree(r)[p], r.index[p]), Letter(r.index[p], r.work[p])>> :
        p \in {q \in Paths : Tree(r)[q] # r.index[q] \/ r.index[q] # r.work[q]}}

\* All of it that a question can be about, with the committed and the working tree.
Moment(r) == [revision |-> HeadOf(r), branch |-> r.branch, status |-> Status(r), index |-> r.index,
              listed |-> Listed(r), deleted |-> Deleted(r), marker |-> r.marker,
              tree |-> Tree(r), work |-> r.work]

\* What changes before the first question only gives another start.
Change(new) ==
    /\ Len(past) <= MaxChanges /\ new # repo
    /\ phase = "ask" \/ (phase = "open" /\ new.marker # repo.marker)
    /\ repo' = new /\ past' = Append(past, Moment(new))
    /\ UNCHANGED <<question, phase, marker, step, between, output, answers, asked, result>>

Edit   == \E p \in Paths, c \in Contents : Change([repo EXCEPT !.work[p] = c])
Stage  == Change([repo EXCEPT !.index = repo.work])
Forget == \E p \in Paths : Change([repo EXCEPT !.index[p] = NoFile])
Commit == LET new == Len(repo.tree)
          IN Change([repo EXCEPT !.tree = Append(@, repo.index), !.tip[repo.branch] = new + 1])
Switch == \E b \in Branches :
            LET there == repo.tree[repo.tip[b]]
            IN Change([repo EXCEPT !.branch = b, !.index = there, !.work = there])
ReplaceMarker == \E m \in {Absent, Original, 2} : Change([repo EXCEPT !.marker = m])

-----------------------------------------------------------------------------
\* The questions, as the commands of both rounds.
Round(q) == CASE q = "file set"    -> <<"deleted", "listed">>
              [] q = "identity"    -> <<"revision", "branch", "status", "index">>
              [] q = "publication" -> <<"commit", "clean", "tree">>
Commands(q) == Round(q) \o Round(q)

\* What git answers.  HEAD of an unborn branch is no commit: the tree of no files is its.
\* git ls-tree is given the revision that this round found.
Reply(command) ==
    CASE command = "deleted"  -> Deleted(repo)
      [] command = "listed"   -> Listed(repo)
      [] command \in {"revision", "commit"} -> HeadOf(repo)
      [] command = "branch"   -> repo.branch
      [] command = "status"   -> Status(repo)
      [] command = "index"    -> repo.index
      [] command = "clean"    -> Status(repo)
      [] command = "tree"     -> repo.tree[answers[Len(answers) - 1]]

\* A response that ends badly, says something on stderr, passes a limit or is not framed as
\* its decoder wants it is as good as none.
NoResponse == << >>
Responses(command) == {<<Reply(command)>>, NoResponse}

\* The response refuses itself.
Refused(command, reply) ==
    \/ command = "commit" /\ reply = 1              \* no commit yet
    \/ command = "clean" /\ reply # {}
    \/ command = "branch" /\ reply = Detached /\ answers[Len(answers)] = 1

-----------------------------------------------------------------------------
\* The first tree is the empty one; the main branch may start from a commit or unborn.
Init ==
    /\ \E start \in Trees, index \in Trees, work \in Trees, born \in BOOLEAN :
         repo = [marker |-> Original, branch |-> "main", index |-> index, work |-> work,
                 tree |-> <<[p \in Paths |-> NoFile], start>>,
                 tip |-> [b \in Branches |-> IF b = "main" /\ ~born THEN 1 ELSE 2]]
    /\ past = <<Moment(repo)>>
    /\ question \in {"file set", "identity", "publication"}
    /\ phase = "open" /\ marker = Absent /\ step = 0 /\ between = "before"
    /\ output = << >> /\ answers = << >> /\ asked = << >> /\ result = "none"

Done(how) == phase' = "done" /\ result' = how

\* open_repository: without a marker git is never used; then git's environment, git itself,
\* the marker once more and git's own idea of the root are looked at.
OpenRepository ==
    /\ phase = "open"
    /\ IF repo.marker = Absent THEN Done("archive") /\ UNCHANGED marker
       ELSE \/ Done("error") /\ UNCHANGED marker    \* GIT_* set, no git, another root
            \/ marker' = repo.marker /\ phase' = "ask" /\ UNCHANGED result
    /\ UNCHANGED <<repo, past, question, step, between, output, answers, asked>>

\* _verify_git_marker, before and after every command.
VerifyMarker ==
    /\ phase = "ask" /\ between \in {"before", "after"}
    /\ IF repo.marker # marker THEN Done("error") /\ UNCHANGED between
       ELSE /\ between' = IF between = "before" THEN "run" ELSE "judge"
            /\ UNCHANGED <<phase, result>>
    /\ UNCHANGED <<repo, past, question, marker, step, output, answers, asked>>

RunGit ==
    /\ phase = "ask" /\ between = "run"
    /\ output' \in Responses(Commands(question)[step + 1])
    /\ asked' = Append(asked, Len(past))
    /\ IF output' = NoResponse THEN Done("error") /\ UNCHANGED between
       ELSE between' = "after" /\ UNCHANGED <<phase, result>>
    /\ UNCHANGED <<repo, past, question, marker, step, answers>>

\* Decoding, and the comparison of the two rounds after the last command.
RoundsAgree(all) ==
    LET half == Len(all) \div 2
    IN \A i \in 1 .. half : all[i] = all[half + i]

Judge ==
    /\ phase = "ask" /\ between = "judge"
    /\ LET all == Append(answers, output[1])
       IN /\ answers' = all
          /\ IF Refused(Commands(question)[step + 1], output[1])
             THEN Done("error") /\ UNCHANGED <<step, between>>
             ELSE IF Len(all) < Len(Commands(question))
             THEN step' = step + 1 /\ between' = "before" /\ UNCHANGED <<phase, result>>
             ELSE /\ Done(IF RoundsAgree(all) /\ (question = "file set" => all[1] \subseteq all[2])
                          THEN "ok" ELSE "changed")
                  /\ UNCHANGED <<step, between>>
    /\ UNCHANGED <<repo, past, question, marker, output, asked>>

Ended == phase = "done" /\ UNCHANGED vars

Next == \/ OpenRepository \/ VerifyMarker \/ RunGit \/ Judge \/ Ended
        \/ Edit \/ Stage \/ Forget \/ Commit \/ Switch \/ ReplaceMarker

Spec == Init /\ [][Next]_vars

-----------------------------------------------------------------------------
TypeOK ==
    /\ phase \in {"open", "ask", "done"}
    /\ between \in {"before", "run", "after", "judge"}
    /\ step \in 0 .. Len(Commands(question)) - 1
    /\ Len(answers) <= Len(asked) /\ Len(asked) <= Len(Commands(question))
    /\ result \in {"none", "ok", "error", "changed", "archive"}
    /\ result = "ok" => Len(answers) = Len(Commands(question))

\* The part of an observation a question is about.
About(moment) ==
    CASE question = "file set"    -> <<moment.deleted, moment.listed>>
      [] question = "identity"    -> <<moment.revision, moment.branch, moment.status, moment.index>>
      [] question = "publication" -> <<moment.revision, moment.status, moment.tree>>
Answered == SubSeq(answers, 1, Len(answers) \div 2)

\* The moments of the observation, and whether anything observed was left and taken up again.
Window == asked[1] .. asked[Len(asked)]
Returned(part(_)) ==
    \E i, j, k \in Window : i < j /\ j < k /\ part(past[i]) = part(past[k]) /\ part(past[i]) # part(past[j])
SomethingReturned ==
    \/ Returned(LAMBDA m : m.revision) \/ Returned(LAMBDA m : m.branch)
    \/ Returned(LAMBDA m : m.status)   \/ Returned(LAMBDA m : m.index)
    \/ Returned(LAMBDA m : m.listed)   \/ Returned(LAMBDA m : m.deleted)
    \/ Returned(LAMBDA m : m.marker)

\* An accepted answer was true as a whole, of the repository that was opened, at one moment of
\* the observation, unless something observed was changed and changed back meanwhile.
\* (observe_identity, snapshot_publication, snapshot_file_set.)
AcceptedWasTrue ==
    (result = "ok" /\ ~SomethingReturned) =>
        \E i \in Window : /\ About(past[i]) = Answered
                          /\ past[i].marker = marker

\* What is published under a revision is that revision's tree; and unless something
\* returned, the files lay in the worktree exactly so at one moment.
\* (snapshot_publication, ls-tree of the revision found.)
PublishedIsCommitted ==
    (result = "ok" /\ question = "publication") =>
        /\ Answered[1] # 1 /\ Answered[3] = repo.tree[Answered[1]]
        /\ ~SomethingReturned => \E i \in Window : /\ past[i].work = Answered[3]
                                                   /\ past[i].index = Answered[3]
=============================================================================
