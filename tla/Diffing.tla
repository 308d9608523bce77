------------------------------ MODULE Diffing ------------------------------
(***************************************************************************)
(* app/analysis/diffing.py: what changed between two reports of one        *)
(* repository.  A report here is a record with at least its id, its        *)
(* repository, its findings, the rules that ran and whether it was cut.    *)
(* A finding has a fingerprint, or NoPrint in a report that was written    *)
(* before there were fingerprints.                                         *)
(***************************************************************************)
EXTENDS Integers, FiniteSets

CONSTANTS NoPrint, NoRepository

(* The fingerprints of a report; an empty one matches nothing.             *)
Prints(report) == {f.fingerprint : f \in report.findings} \ {NoPrint}

(* "earlier" is the analyses before "previous".  It is asked only whether  *)
(* a fingerprint was there, so a report that was cut may answer too.       *)
Compare(current, previous, earlier) ==
    LET appeared == Prints(current) \ Prints(previous)
        reopened == appeared \cap UNION {Prints(r) : r \in earlier}
    IN  [previous  |-> previous.id,
         new       |-> appeared \ reopened,
         reopened  |-> reopened,
         resolved  |-> Prints(previous) \ Prints(current),
         unchanged |-> Cardinality(Prints(current) \cap Prints(previous)),
         new_rules |-> current.rule_ids \ previous.rule_ids]

(* Faulty variant of IsComparable: reports that were cut are compared.     *)
IsComparableTruncated(current, previous) ==
    /\ current.repository # NoRepository /\ previous.repository # NoRepository
    /\ current.repository = previous.repository
    /\ previous.id # current.id
    /\ Prints(previous) # {} \/ previous.findings = {}

IsComparable(current, previous) ==
    /\ current.repository # NoRepository /\ previous.repository # NoRepository
    /\ current.repository = previous.repository
    /\ previous.id # current.id
    /\ ~ previous.truncated /\ ~ current.truncated
    /\ Prints(previous) # {} \/ previous.findings = {}
=============================================================================
