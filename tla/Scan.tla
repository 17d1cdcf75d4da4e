-------------------------------- MODULE Scan --------------------------------
(***************************************************************************)
(* What the callers of a traverser rely on: entries come one by one, none  *)
(* of them twice, and of a traversal that ends without an error each entry *)
(* has come, unless it was reported to the caller as one that cannot be    *)
(* had, or skipped with no word.                                           *)
(***************************************************************************)
EXTENDS Naturals

CONSTANT Entries

VARIABLES fallible,    \* whether anything may go wrong
          delivered,   \* how often each entry came
          reported, skipped,
          ended        \* "no", "done" or "failed"

scanVars == <<fallible, delivered, reported, skipped, ended>>

ScanInit ==
    /\ fallible \in BOOLEAN
    /\ delivered = [e \in Entries |-> 0]
    /\ reported = {} /\ skipped = {}
    /\ ended = "no"

Deliver(e) ==
    /\ ended = "no" /\ delivered[e] = 0
    /\ delivered' = [delivered EXCEPT ![e] = 1]
    /\ UNCHANGED <<fallible, reported, skipped, ended>>

Report(es) ==
    /\ ended = "no" /\ fallible
    /\ reported' = reported \cup es
    /\ UNCHANGED <<fallible, delivered, skipped, ended>>

Skip(es) ==
    /\ ended = "no" /\ fallible
    /\ skipped' = skipped \cup es
    /\ UNCHANGED <<fallible, delivered, reported, ended>>

Complete ==
    /\ ended = "no"
    /\ \A e \in Entries : delivered[e] = 1 \/ e \in reported \cup skipped
    /\ ended' = "done"
    /\ UNCHANGED <<fallible, delivered, reported, skipped>>

Fail ==
    /\ ended = "no" /\ fallible
    /\ ended' = "failed"
    /\ \E es \in SUBSET Entries : reported' = reported \cup es
    /\ UNCHANGED <<fallible, delivered, skipped>>

ScanNext ==
    \/ \E e \in Entries : Deliver(e)
    \/ \E es \in SUBSET Entries : Report(es) \/ Skip(es)
    \/ Complete \/ Fail

ScanSpec == ScanInit /\ [][ScanNext]_scanVars
============================================================================
