----------------------------- MODULE UserTools ------------------------------
(***************************************************************************)
(* The tools that users define, main/user_tools.c: a table in RAM and its   *)
(* copy in flash, which save_to_nvs writes key by key. A restart may come   *)
(* between any two writes, and any write may fail.                          *)
(*                                                                          *)
(* A tool stands for its record; names that are invalid, or those of        *)
(* built-in tools, are rejected before any state changes and left out.      *)
(* Flash takes each write at once, as the NVS library of ESP-IDF does.      *)
(***************************************************************************)
EXTENDS Integers, Sequences, SequencesExt

CONSTANTS
    Tools,         \* the tools that users define
    NoTool,        \* an erased slot
    MaxTools,      \* MAX_DYNAMIC_TOOLS
    MaxRestarts    \* bound: restarts

ASSUME UserToolsAssumption ==
    MaxTools \in Nat \ {0} /\ MaxRestarts \in Nat /\ NoTool \notin Tools

VARIABLES
    s_tools,       \* the table in RAM
    ut_count, ut,  \* in flash: the count and the slots, index i - 1 as slot i
    request,       \* the call under way
    previous,      \* the table before it
    at,            \* the write of save_to_nvs that is next
    unsaved,       \* a save failed since the last that succeeded or restart
    torn,          \* a save failed, or a delete was cut short, since the last that succeeded
    told,          \* the tools reported as created, and not as deleted or lost
    restarts

flash == <<ut_count, ut>>
vars == <<s_tools, flash, request, previous, at, unsaved, torn, told, restarts>>

Slots == 1..MaxTools
Idle == [call |-> "none", tool |-> NoTool]

\* load_from_nvs: slot after slot, up to ut_count; an empty one is skipped.
ToolsIn(slots) ==
    LET first[n \in 0..MaxTools] == IF n = 0 THEN <<>>
                                    ELSE IF slots[n] = NoTool THEN first[n - 1]
                                    ELSE Append(first[n - 1], slots[n])
    IN  first
Loaded == ToolsIn(ut)[ut_count]

-----------------------------------------------------------------------------
Init == /\ s_tools = <<>>
        /\ ut_count = 0 /\ ut = [i \in Slots |-> NoTool]
        /\ request = Idle /\ previous = <<>> /\ at = 0
        /\ unsaved = FALSE /\ torn = FALSE /\ told = {} /\ restarts = 0

\* Mutant: the check of the limit is off by one.
CreateOneTooMany(t) ==
    /\ request = Idle
    /\ t \notin Range(s_tools) /\ Len(s_tools) <= MaxTools
    /\ s_tools' = Append(s_tools, t)
    /\ request' = [call |-> "create", tool |-> t]
    /\ previous' = s_tools /\ at' = 0
    /\ UNCHANGED <<flash, unsaved, torn, told, restarts>>

\* user_tools_create: a new name is appended, then all is saved.
user_tools_create(t) ==
    /\ request = Idle
    /\ t \notin Range(s_tools) /\ Len(s_tools) < MaxTools
    /\ s_tools' = Append(s_tools, t)
    /\ request' = [call |-> "create", tool |-> t]
    /\ previous' = s_tools /\ at' = 0
    /\ UNCHANGED <<flash, unsaved, torn, told, restarts>>

\* user_tools_delete: the tools behind the first one of that name move down.
user_tools_delete(t) ==
    /\ request = Idle
    /\ \E i \in DOMAIN s_tools :
          /\ s_tools[i] = t /\ \A j \in 1..(i - 1) : s_tools[j] # t
          /\ s_tools' = RemoveAt(s_tools, i)
    /\ request' = [call |-> "delete", tool |-> t]
    /\ previous' = s_tools /\ at' = 0
    /\ told' = told \ {t}
    /\ UNCHANGED <<flash, unsaved, torn, restarts>>

-----------------------------------------------------------------------------
(* save_to_nvs: the count, every slot in use, every slot not in use, commit *)

Saving == /\ request # Idle
          /\ at' = at + 1
          /\ UNCHANGED <<s_tools, request, previous, unsaved, torn, told, restarts>>

SaveCount == /\ Saving /\ at = 0
             /\ ut_count' = Len(s_tools)
             /\ UNCHANGED ut

\* Mutants: the last slot is not written; slots are erased before they are written.
SaveAllButLast == /\ Saving /\ at \in DOMAIN s_tools
                  /\ ut' = IF at < Len(s_tools) THEN [ut EXCEPT ![at] = s_tools[at]] ELSE ut
                  /\ UNCHANGED ut_count
SaveAfterErase == /\ Saving /\ at \in DOMAIN s_tools
                  /\ ut' = [i \in Slots |-> IF i > at THEN NoTool
                                            ELSE IF i = at THEN s_tools[i] ELSE ut[i]]
                  /\ UNCHANGED ut_count

SaveSlot == /\ Saving /\ at \in DOMAIN s_tools
            /\ ut' = [ut EXCEPT ![at] = s_tools[at]]
            /\ UNCHANGED ut_count

EraseSlot == /\ Saving /\ at \in (Len(s_tools) + 1)..MaxTools
             /\ ut' = [ut EXCEPT ![at] = NoTool]
             /\ UNCHANGED ut_count

Return == request' = Idle /\ previous' = <<>> /\ at' = 0

\* The commit succeeds, and the call returns true.
SaveDone == /\ request # Idle /\ at = MaxTools + 1
            /\ Return
            /\ unsaved' = FALSE /\ torn' = FALSE
            /\ told' = IF request.call = "create" THEN told \cup {request.tool} ELSE told
            /\ UNCHANGED <<s_tools, flash, restarts>>

\* A write or the commit fails: the table in RAM is put back, flash is not.
SaveFails == /\ request # Idle
             /\ s_tools' = previous
             /\ Return
             /\ unsaved' = TRUE /\ torn' = TRUE
             /\ told' = IF request.call = "delete" THEN told \cup {request.tool} ELSE told
             /\ UNCHANGED <<flash, restarts>>

\* A restart, and user_tools_init.
Restart == /\ restarts < MaxRestarts
           /\ restarts' = restarts + 1
           /\ s_tools' = Loaded
           /\ Return
           /\ unsaved' = FALSE /\ told' = Range(Loaded)
           /\ torn' = (torn \/ request.call = "delete")
           /\ UNCHANGED flash

-----------------------------------------------------------------------------
Save == SaveCount \/ SaveSlot \/ EraseSlot \/ SaveDone \/ SaveFails

Next == \/ \E t \in Tools : user_tools_create(t) \/ user_tools_delete(t)
        \/ Save \/ Restart

Spec == Init /\ [][Next]_vars

-----------------------------------------------------------------------------
(* Properties *)

\* Every variable stays in its range.
TypeOK ==
    /\ s_tools \in Seq(Tools) /\ Len(s_tools) <= MaxTools
    /\ ut_count \in 0..MaxTools /\ ut \in [Slots -> Tools \cup {NoTool}]
    /\ request \in {Idle} \cup [call : {"create", "delete"}, tool : Tools]
    /\ previous \in Seq(Tools) /\ Len(previous) <= MaxTools /\ at \in 0..(MaxTools + 1)
    /\ unsaved \in BOOLEAN /\ torn \in BOOLEAN
    /\ told \subseteq Tools /\ restarts \in 0..MaxRestarts

\* Between calls a restart brings back the very table that is in RAM, whatever
\* restarts in the middle of a save left in flash, unless the last save failed.
RestartKeepsTable == request = Idle /\ ~unsaved => Loaded = s_tools

\* Creating a tool never takes another from flash, not even between two of its
\* writes: a restart in the middle keeps every tool there was.
CreateLosesNothing ==
    request.call = "create" /\ ~unsaved => Range(previous) \subseteq Range(Loaded)

\* The table that a failure puts back, or that no call is changing.
Base == IF request = Idle THEN s_tools ELSE previous

\* The table is a ToolTable: between the writes of a call flash holds the table
\* before it or the one after it, unless a delete is cut short or a save fails; and
\* the next save that succeeds makes up for both.
ToolTable == INSTANCE ToolTable WITH table <- Base, call <- request
ImplementsToolTable == ToolTable!Spec

-----------------------------------------------------------------------------
(* What the documentation says of user tools, and the code does not do *)

\* "User tools are stored persistently and survive reboots" (README_COMPLETE.md).
\* Deleting a tool moves the ones behind it down after the count has been
\* lowered: a restart in between loses the last tool, which nobody deleted.
ToolsSurviveReboots ==
    [][Restart /\ ~unsaved => told \subseteq Range(s_tools')]_vars

=============================================================================
