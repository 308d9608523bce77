------------------------ MODULE PullRequestComments ------------------------
(***************************************************************************)
(* One comment per account on a pull request: comment_on_pull_request of   *)
(* app/routers/reports.py and upsert_comment of app/ingest/pull_request.py *)
(* for concurrent requests.  Each request to GitHub is a step; pushes to   *)
(* the branch of the pull request come in between.                         *)
(*                                                                         *)
(* A comment has its author and what it says: the report it is about, the  *)
(* commit it names and whether it carries the MARKER, which people's own   *)
(* comments do not.                                                        *)
(***************************************************************************)
EXTENDS GitHubRepository, SequencesExt

CONSTANTS
    Requests,          \* POSTs to /pull-request-comment
    Accounts, NoAccount,
    RequestedBy,       \* request -> account
    PageSize           \* comments in one page of the listing: 100

ASSUME AccountsAssumption ==
    RequestedBy \in [Requests -> Accounts] /\ NoAccount \notin Accounts /\ PageSize \in Nat \ {0}

VARIABLES
    comments,          \* of the pull request, oldest first
    request,           \* request -> where it is and what it knows
    \* history
    excused,           \* accounts that may have two: see OneCommentEach
    last               \* account -> the request that last wrote its comment

commentVars == <<githubVars, comments, request, excused, last>>

RequestSteps == {"idle", "pull", "viewer", "list", "write", "done", "failed"}
NoComment == 0
NoRequest == [step |-> "idle", report |-> NoCommit, sha |-> NoCommit, viewer |-> NoAccount,
              existing |-> NoComment]

PeoplesComment == [author |-> NoAccount, marked |-> FALSE]

CommentsInit ==
    /\ GitHubInit
    /\ \E n \in {0, PageSize} : comments = [i \in 1..n |-> PeoplesComment]
    /\ request = [q \in Requests |-> NoRequest]
    /\ excused = {}
    /\ last = [a \in Accounts |-> NoComment]

Busy(q) == request[q].step \in {"pull", "viewer", "list", "write"}
ByOthers(q) == {o \in Requests \ {q} : RequestedBy[o] = RequestedBy[q] /\ Busy(o)}

-----------------------------------------------------------------------------
(* The report, with its owner's suppressions applied, is read first and is *)
(* what the comment will say.                                              *)
BeginRequest(q) ==
    /\ request[q].step = "idle"
    /\ \E r \in Made : request' = [request EXCEPT ![q].step = "pull", ![q].report = r]
    /\ excused' = IF ByOthers(q) = {} THEN excused ELSE excused \cup {RequestedBy[q]}
    /\ UNCHANGED <<githubVars, comments, last>>

(* fetch_pull_request: the commit the pull request is at now.              *)
FetchPullRequest(q) ==
    /\ request[q].step = "pull"
    /\ request' = [request EXCEPT ![q].step = "viewer", ![q].sha = head]
    /\ UNCHANGED <<githubVars, comments, excused, last>>

(* GET /user, whose failure leaves the viewer unknown.                     *)
AskViewer(q) ==
    /\ request[q].step = "viewer"
    /\ \/ /\ request' = [request EXCEPT ![q].step = "list", ![q].viewer = RequestedBy[q]]
          /\ UNCHANGED <<troubles, excused>>
       \/ /\ Trouble
          /\ request' = [request EXCEPT ![q].step = "list"]
          /\ excused' = excused \cup {RequestedBy[q]}
    /\ UNCHANGED <<head, private, gone, analysis, moved, comments, last>>

(* Faulty variant of Existing: anybody's comment that has the marker.      *)
ExistingOfAnybody(page, viewer) == SelectInSeq(page, LAMBDA c : c.marked)

(* The first of the listed comments that has the marker and is the         *)
(* viewer's, if it is known who that is.                                   *)
Existing(page, viewer) ==
    SelectInSeq(page, LAMBDA c : c.marked /\ (viewer = NoAccount \/ c.author = viewer))

(* One page of the listing; when it is refused there is nothing to edit.   *)
ListComments(q) ==
    /\ request[q].step = "list"
    /\ LET page == SubSeq(comments, 1, IF Len(comments) < PageSize THEN Len(comments) ELSE PageSize)
       IN  \/ /\ request' = [request EXCEPT ![q].step = "write",
                                            ![q].existing = Existing(page, request[q].viewer)]
              /\ excused' = IF Len(comments) > PageSize THEN excused \cup {RequestedBy[q]} ELSE excused
              /\ UNCHANGED troubles
           \/ /\ Trouble
              /\ request' = [request EXCEPT ![q].step = "write"]
              /\ excused' = excused \cup {RequestedBy[q]}
    /\ UNCHANGED <<head, private, gone, analysis, moved, comments, last>>

Says(q) == [author |-> RequestedBy[q], marked |-> TRUE, by |-> q,
            report |-> request[q].report, names |-> request[q].sha]

(* PATCH or POST.  GitHub decides whether this account may edit another's. *)
(* The answer may be lost: the request has failed, and the comment stands. *)
WriteComment(q) ==
    /\ request[q].step = "write"
    /\ LET i == request[q].existing
       IN  comments' = IF i = NoComment THEN Append(comments, Says(q))
                       ELSE [comments EXCEPT ![i] = [Says(q) EXCEPT !.author = comments[i].author]]
    /\ \/ request' = [request EXCEPT ![q].step = "done"] /\ UNCHANGED troubles
       \/ request' = [request EXCEPT ![q].step = "failed"] /\ Trouble
    /\ last' = [last EXCEPT ![RequestedBy[q]] = q]
    /\ UNCHANGED <<head, private, gone, analysis, moved, excused>>

(* Refused at the pull request, or at the comment: PullRequestAccessError. *)
(* Any of the four requests may also get no answer, which is not caught.   *)
RequestFails(q) ==
    /\ Busy(q) /\ Trouble
    /\ request' = [request EXCEPT ![q].step = "failed"]
    /\ UNCHANGED <<head, private, gone, analysis, moved, comments, excused, last>>

SomebodyComments ==
    /\ Len(comments) < PageSize
    /\ comments' = Append(comments, PeoplesComment)
    /\ UNCHANGED <<githubVars, request, excused, last>>

Comment(q) ==
    BeginRequest(q) \/ FetchPullRequest(q) \/ AskViewer(q) \/ ListComments(q) \/ WriteComment(q) \/ RequestFails(q)

CommentsStep ==
    \/ GitHubStep /\ UNCHANGED <<comments, request, excused, last>>
    \/ \E q \in Requests : Comment(q)
    \/ SomebodyComments

CommentsSpec == CommentsInit /\ [][CommentsStep]_commentVars
-----------------------------------------------------------------------------
Marked == {i \in DOMAIN comments : comments[i].marked}
Of(a) == {i \in Marked : comments[i].author = a}

(* A branch that is analysed again and again ends with one comment of each *)
(* account, which says what that account's latest request said, and no     *)
(* account's words are put into another's comment while GitHub says who is *)
(* asking.  Excused are accounts with two requests at a time, with one     *)
(* whose question who is asking or whose listing was refused, and with a   *)
(* listing that did not fit a page.                                        *)
OneCommentEach ==
    \A a \in Accounts :
        /\ a \notin excused => Cardinality(Of(a)) <= 1
        /\ \A i \in Of(a) :
              LET q == comments[i].by
              IN  /\ RequestedBy[q] = a \/ request[q].viewer = NoAccount
                  /\ RequestedBy[q] = a /\ a \notin excused => q = last[a]

(* fetch_pull_request: the comment "names the commit it describes, so a    *)
(* reader can tell whether it is stale", and the schema calls head_sha     *)
(* "The commit the comment describes".                                     *)
CommentNamesItsCommit ==
    \A i \in Marked : comments[i].names = analysis[comments[i].report].tree
=============================================================================
