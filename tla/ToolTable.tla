----------------------------- MODULE ToolTable -----------------------------
(***************************************************************************)
(* What the table of user tools promises: a call changes it in one step, or *)
(* not at all, and a restart between calls leaves it alone. Only a restart  *)
(* in the middle of a delete, or after a save that failed, does more than   *)
(* that: CutDelete says what is left of a table that was whole, and Lost    *)
(* promises nothing.                                                        *)
(***************************************************************************)
EXTENDS Integers, Sequences, SequencesExt

CONSTANTS Tools, Idle

VARIABLES
    table,
    call,          \* the call under way
    torn,          \* a delete was cut short, or a save failed, since the last success
    unsaved        \* a save failed since the last success or restart

Init == table = <<>> /\ call = Idle /\ torn = FALSE /\ unsaved = FALSE

Firsts(tool) == {i \in DOMAIN table : table[i] = tool /\ \A j \in 1..(i - 1) : table[j] # tool}

\* What the table is after the call.
Results == IF call.call = "create" THEN {Append(table, call.tool)}
           ELSE {RemoveAt(table, i) : i \in Firsts(call.tool)}

Begin(name, tool) ==
    /\ call = Idle
    /\ (tool \in Range(table)) <=> (name = "delete")
    /\ call' = [call |-> name, tool |-> tool]
    /\ UNCHANGED <<table, torn, unsaved>>

Ends == call # Idle /\ call' = Idle

Done == /\ Ends
        /\ table' \in Results
        /\ torn' = FALSE /\ unsaved' = FALSE

Fail == /\ Ends
        /\ torn' = TRUE /\ unsaved' = TRUE
        /\ UNCHANGED table

\* A restart while a tool is created: it is there or not, if the table was whole,
\* and in any case all the others are.
CutCreate == /\ Ends /\ call.call = "create" /\ ~unsaved
             /\ IF torn THEN Range(table) \subseteq Range(table')
                ELSE table' \in {table} \cup Results
             /\ UNCHANGED <<torn, unsaved>>

\* A restart while a tool is deleted from a table that was whole: the tools behind it
\* have moved down as far as some slot, and what was in the last slot may be lost.
CutDelete == /\ Ends /\ call.call = "delete" /\ ~torn
             /\ \/ table' = table
                \/ \E new \in Results, n \in 0..Len(table) :
                      table' = [i \in 1..(Len(table) - 1) |->
                                   IF i <= n THEN new[i] ELSE table[i]]
             /\ torn' = TRUE /\ UNCHANGED unsaved

\* A restart after a failure, or while a tool is deleted from a torn table.
Lost == /\ unsaved \/ (torn /\ call.call = "delete")
        /\ call' = Idle /\ torn' = TRUE /\ unsaved' = FALSE

Next == \/ \E name \in {"create", "delete"}, tool \in Tools : Begin(name, tool)
        \/ Done \/ Fail \/ CutCreate \/ CutDelete \/ Lost

Spec == Init /\ [][Next]_<<table, call, torn, unsaved>>
=============================================================================
