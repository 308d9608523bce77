---------------------------- MODULE SourceViewer ----------------------------
(***************************************************************************)
(* Reading the files behind a report, /files and /file of                  *)
(* app/routers/source.py: by whoever has its id, unless the repository was *)
(* private when it was analysed.  Nobody's permission is asked of GitHub;  *)
(* GitHub decides about the credentials the file is read with.             *)
(***************************************************************************)
EXTENDS GitHubRepository

CONSTANTS
    Viewings, SignedInViewings   \* GETs, and those of a signed-in user

ASSUME ViewingsAssumption == SignedInViewings \subseteq Viewings

VARIABLE viewed                  \* GET -> what was shown

Unviewed == [step |-> "idle", report |-> NoCommit, of |-> NoCommit]

ViewerInit == viewed = [v \in Viewings |-> Unviewed]

(* The flag of the report, as it was at the time of the analysis.          *)
GuardPrivate(r, signedIn) == analysis[r].private => signedIn

Ends(v, step, r, commit) ==
    viewed' = [viewed EXCEPT ![v] = [step |-> step, report |-> r, of |-> commit]]

(* The only await whose result matters is the request to GitHub: a report  *)
(* does not change, and the guard looks at nothing else.                   *)
View(v) ==
    /\ viewed[v].step = "idle"
    /\ \E r \in Made :
          LET signedIn == v \in SignedInViewings
              commit == ReadAt(r, signedIn)
          IN  \/ /\ ~ GuardPrivate(r, signedIn)
                 /\ Ends(v, "not authorised", r, NoCommit) /\ UNCHANGED troubles
              \/ /\ GuardPrivate(r, signedIn) /\ commit # NoCommit
                 /\ Ends(v, "shown", r, commit) /\ UNCHANGED troubles
              \/ /\ GuardPrivate(r, signedIn)
                 /\ \/ commit = NoCommit /\ UNCHANGED troubles
                    \/ commit # NoCommit /\ Trouble
                 /\ Ends(v, "unavailable", r, NoCommit)
    /\ UNCHANGED <<head, private, gone, analysis, moved>>

Shown == {v \in Viewings : viewed[v].step = "shown"}
=============================================================================
