-------------------------- MODULE GitHubRepository --------------------------
(***************************************************************************)
(* One branch of a repository on GitHub and the requests that analyses     *)
(* make about it: fetch_repository of app/ingest/github.py, which asks for *)
(* the repository, for the commit a branch is at and for the archive of    *)
(* that branch, three requests with pushes in between; and the provider of *)
(* app/source/providers.py, which reads files of a report again later,     *)
(* pinned to the commit that was recorded.                                 *)
(*                                                                         *)
(* GitHub itself is the environment.  The code at a commit is the commit.  *)
(***************************************************************************)
EXTENDS Integers, FiniteSets, Sequences

CONSTANTS
    Reports,           \* analyses, each with the report it makes
    AsUser,            \* the analyses made with a signed-in user's credentials
    MaxCommit,         \* commits are 1..MaxCommit, each pushed onto the last
    MaxTroubles,       \* how often GitHub refuses, hides the repository or loses a
                       \*   commit, together
    ServerSeesPrivate, \* whether the server's token reaches private repositories
    NoCommit

ASSUME CommitsAssumption ==
    MaxCommit \in Nat \ {0} /\ NoCommit \notin 1..MaxCommit /\ MaxTroubles \in Nat
ASSUME ReportsAssumption == AsUser \subseteq Reports

VARIABLES
    head,              \* the commit the branch is at
    private, gone,     \* is it private; commits that a force-push removed
    troubles,
    analysis,          \* report -> how far its analysis is and what it recorded
    moved              \* history: reports whose branch moved under them

githubVars == <<head, private, gone, troubles, analysis, moved>>

Commits == 1..MaxCommit
Steps == {"idle", "meta", "commit", "tarball", "done", "failed"}

GitHubInit ==
    /\ head = 1
    /\ private \in BOOLEAN
    /\ gone = {}
    /\ troubles = 0
    /\ analysis = [r \in Reports |->
                     [step |-> "idle", private |-> FALSE, commit |-> NoCommit, tree |-> NoCommit]]
    /\ moved = {}

Trouble == troubles < MaxTroubles /\ troubles' = troubles + 1

(* Whether GitHub shows the repository to the token a request is made      *)
(* with; build_headers falls back to the server's.                         *)
Visible(asUser) == private => asUser \/ ServerSeesPrivate

-----------------------------------------------------------------------------
(* The environment.                                                        *)
Push ==
    /\ head < MaxCommit
    /\ head' = head + 1
    /\ \/ UNCHANGED <<gone, troubles>>
       \/ Trouble /\ gone' = gone \cup {head}                     \* forced
    /\ moved' = moved \cup {r \in Reports : analysis[r].step = "tarball"}
    /\ UNCHANGED <<private, analysis>>

MakePrivate ==
    /\ ~ private /\ Trouble
    /\ private' = TRUE
    /\ UNCHANGED <<head, gone, analysis, moved>>

-----------------------------------------------------------------------------
(* fetch_repository.                                                       *)
BeginAnalysis(r) ==
    /\ analysis[r].step = "idle"
    /\ analysis' = [analysis EXCEPT ![r].step = "meta"]
    /\ UNCHANGED <<head, private, gone, troubles, moved>>

(* 404 when the token does not see it; refused when it is private and the  *)
(* credentials are not a user's, whatever the server's token can see.      *)
FetchMeta(r) ==
    /\ analysis[r].step = "meta"
    /\ analysis' = [analysis EXCEPT
            ![r].step = IF Visible(r \in AsUser) /\ (private => r \in AsUser)
                        THEN "commit" ELSE "failed",
            ![r].private = private]
    /\ UNCHANGED <<head, private, gone, troubles, moved>>

(* The commit is recorded if GitHub names one, and is no precondition.     *)
FetchCommit(r) ==
    /\ analysis[r].step = "commit"
    /\ \/ /\ Visible(r \in AsUser)
          /\ analysis' = [analysis EXCEPT ![r].step = "tarball", ![r].commit = head]
          /\ UNCHANGED troubles
       \/ /\ Trouble \/ (~ Visible(r \in AsUser) /\ UNCHANGED troubles)
          /\ analysis' = [analysis EXCEPT ![r].step = "tarball"]
    /\ UNCHANGED <<head, private, gone, moved>>

(* The archive is asked for by branch.  It is what is analysed.            *)
FetchTarball(r) ==
    /\ analysis[r].step = "tarball"
    /\ analysis' = [analysis EXCEPT
            ![r].step = IF Visible(r \in AsUser) THEN "done" ELSE "failed",
            ![r].tree = IF Visible(r \in AsUser) THEN head ELSE NoCommit]
    /\ UNCHANGED <<head, private, gone, troubles, moved>>

(* _raise_for_status, a repository or an archive over the limit, or a      *)
(* connection that breaks: the download is removed, the analysis fails.    *)
FetchFails(r) ==
    /\ analysis[r].step \in {"meta", "tarball"} /\ Trouble
    /\ analysis' = [analysis EXCEPT ![r].step = "failed"]
    /\ UNCHANGED <<head, private, gone, moved>>

Analyse(r) == BeginAnalysis(r) \/ FetchMeta(r) \/ FetchCommit(r) \/ FetchTarball(r) \/ FetchFails(r)

GitHubStep == Push \/ MakePrivate \/ \E r \in Reports : Analyse(r)

-----------------------------------------------------------------------------
(* provider_for and GitHubSourceProvider.  Each reading is a request of    *)
(* its own, and says which code it saw, or NoCommit for SourceUnavailable. *)
Made == {r \in Reports : analysis[r].step = "done"}

(* Faulty variant of ReadAt: the branch as it is now.                      *)
ReadAtHead(r, asUser) ==
    IF analysis[r].commit # NoCommit /\ Visible(asUser) THEN head ELSE NoCommit

ReadAt(r, asUser) ==
    LET commit == analysis[r].commit
    IN  IF commit # NoCommit /\ commit \notin gone /\ Visible(asUser) THEN commit ELSE NoCommit

GitHubTypeOK ==
    /\ head \in Commits /\ private \in BOOLEAN /\ gone \subseteq Commits
    /\ troubles \in 0..MaxTroubles
    /\ analysis \in [Reports -> [step : Steps, private : BOOLEAN,
                                 commit : Commits \cup {NoCommit},
                                 tree : Commits \cup {NoCommit}]]
    /\ moved \subseteq Reports
=============================================================================
