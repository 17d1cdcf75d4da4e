------------------------------ MODULE PlanFile ------------------------------
(***************************************************************************)
(* The layout of a part's plan file: JobPartPlanFileName.Create writes an  *)
(* entry per transfer with the offset and the lengths of its strings, then *)
(* the strings themselves, and JobPartPlanHeader reads them back through   *)
(* the entries.  Lengths are int16, and so is their sum, by which the      *)
(* offset of the next transfer's strings is found; MaxInt is the largest.  *)
(*                                                                         *)
(* Offsets are counted from the end of the entries.  A string is the       *)
(* sequence of its characters <<transfer, field, position>>.               *)
(***************************************************************************)
EXTENDS Integers, Sequences

CONSTANTS MaxInt,      \* math.MaxInt16
          Lengths,     \* lengths a string may have
          Checked,     \* Source, Destination, metadata, tags: compared with the largest length
          Properties,  \* the source's properties, in the order in which they are stored
          NumTransfers

Strings == <<"Source", "Destination">> \o Properties
Fields == {Strings[i] : i \in DOMAIN Strings}
Plan == 1..NumTransfers

ASSUME PlanAssumption ==
    /\ MaxInt \in Nat /\ Lengths \subseteq Nat
    /\ Properties \in Seq(STRING) /\ NumTransfers \in Nat \ {0}

(* The conversion to int16.                                                *)
ToInt(n) == ((n + MaxInt + 1) % (2 * (MaxInt + 1))) - (MaxInt + 1)

VARIABLES order,     \* the length of each string of each transfer
          entries,   \* the entries written
          nextOffset,  \* currentSrcStringOffset
          strings,   \* the characters written after the entries
          wrote,     \* how many transfers' strings are written
          nth,       \* the string of the next transfer to be written
          creating   \* "entries", "strings", "created" or "panic"

planVars == <<order, entries, nextOffset, strings, wrote, nth, creating>>

(* What is not checked comes from headers, which are short.                *)
PlanInit ==
    /\ order \in [Plan -> [Fields -> Lengths]]
    /\ \A t \in Plan : \A field \in Fields \ Checked : order[t][field] <= MaxInt
    /\ entries = << >> /\ nextOffset = 0 /\ strings = << >> /\ wrote = 0 /\ nth = 1
    /\ creating = "entries"

Text(t, field) == [i \in 1..order[t][field] |-> <<t, field, i>>]

(* Where each string of an entry ends, from the entry's offset.            *)
Ends(length) ==
    LET end[i \in 0..Len(Strings)] == IF i = 0 THEN 0 ELSE end[i - 1] + length[Strings[i]]
    IN  end

(* What the next transfer's offset is further by: the sum is one of int16, *)
(* converted only then.                                                    *)
StringsLength(entry) == ToInt(Ends(entry.length)[Len(Strings)])

(* The first loop: too long a string stops the process; else the entry.    *)
WriteEntry ==
    /\ creating = "entries"
    /\ LET t == Len(entries) + 1
           entry == [offset |-> nextOffset, length |-> [field \in Fields |-> ToInt(order[t][field])]]
           tooLong == \E field \in Checked : order[t][field] > MaxInt
       IN  IF tooLong
           THEN creating' = "panic" /\ UNCHANGED <<entries, nextOffset>>
           ELSE /\ entries' = Append(entries, entry)
                /\ nextOffset' = nextOffset + StringsLength(entry)
                /\ creating' = IF t = NumTransfers THEN "strings" ELSE "entries"
    /\ UNCHANGED <<order, strings, wrote, nth>>

\* Mutant: no sanity check.
NeverMind(t) == t \in Plan

(* "Sanity check: Verify that we are were we think we are"                 *)
LinesUp(t) == Len(strings) = entries[t].offset

(* The second loop, one string after the other.                            *)
WriteString ==
    /\ creating = "strings"
    /\ LET t == wrote + 1
       IN  IF nth = 1 /\ ~LinesUp(t)
           THEN creating' = "panic" /\ UNCHANGED <<strings, wrote, nth>>
           ELSE /\ strings' = strings \o Text(t, Strings[nth])
                /\ nth' = IF nth = Len(Strings) THEN 1 ELSE nth + 1
                /\ wrote' = IF nth = Len(Strings) THEN t ELSE wrote
                /\ creating' = IF wrote' = NumTransfers THEN "created" ELSE "strings"
    /\ UNCHANGED <<order, entries, nextOffset>>

PlanNext == WriteEntry \/ WriteString

PlanSpec == PlanInit /\ [][PlanNext]_planVars

(***************************************************************************)
(* TransferSrcDstStrings, TransferSrcPropertiesAndMetadata: the strings of *)
(* a transfer stand one after the other from its offset on.                *)
(***************************************************************************)
StartOf(t, i) == entries[t].offset + Ends(entries[t].length)[i - 1]

Outside == <<0, "none", 0>> \* what is read outside of the strings
CharAt(at) == IF at \in DOMAIN strings THEN strings[at] ELSE Outside
GetString(t, i) ==
    [k \in 1..entries[t].length[Strings[i]] |-> CharAt(StartOf(t, i) + k)]

(***************************************************************************)
(* A plan file that was created gives back every string of every transfer  *)
(* exactly: when the lengths of a transfer's strings, each within its      *)
(* bound, add up to more than an int16 holds, Create stops rather than let *)
(* a job resume on other names.                                            *)
(***************************************************************************)
ReadBack ==
    creating = "created" =>
        \A t \in Plan : \A i \in DOMAIN Strings : GetString(t, i) = Text(t, Strings[i])

=============================================================================
