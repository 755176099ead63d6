---------------------------- MODULE GpioMapping -----------------------------
(***************************************************************************)
(* The names that users give to GPIO pins, main/gpio_mapping.c, and their   *)
(* use by the tools in main/tools_gpio.c. All of it is in flash: a key for  *)
(* each device, which holds the pin, and one key with the list of devices.  *)
(* A call writes the two one after the other; a restart may come between,   *)
(* and any write may fail.                                                  *)
(*                                                                          *)
(* A text is the sequence of its words, which commas part: a name with a    *)
(* comma has two. A device's key is "u_gpio_" and its name, and the list's  *)
(* is "u_gpio_list", so keys are named by what follows "u_gpio_". Names are *)
(* in lower case and short enough for a key; others are rejected before     *)
(* anything is written. Only the agent task makes calls, so the mutex is    *)
(* always free. No tool sets a password, so every call is authorised.       *)
(***************************************************************************)
EXTENDS Integers, Sequences, Functions

CONSTANTS
    Names,        \* the names of devices
    Pins,         \* the words that are numbers of pins
    Policies,     \* the pins that are allowed, in each of the firmware builds
    Texts,        \* what the memory tools may store in the keys
    MaxWords,     \* how many words the list has room for
    MaxRestarts   \* bound: restarts

Words == (UNION {Range(d) : d \in Names \cup Texts}) \cup Pins \cup {"list"}

ASSUME GpioMappingAssumption ==
    /\ \A d \in Names \cup Texts : d \in Seq(Words) /\ Len(d) \in 1..MaxWords
    /\ Policies # {} /\ \A allowed \in Policies : allowed \subseteq Pins
    /\ MaxWords \in Nat \ {0} /\ MaxRestarts \in Nat

VARIABLES
    nvs,          \* the text in each key, empty when there is no such key
    allowed,      \* the pins that gpio_policy_pin_is_allowed accepts
    driven,       \* the pins made outputs since the last restart
    request,      \* the call that has written the device's key and not the list
    saved, gone,  \* the names that were last saved, or deleted, with success
    restarts

fates == <<saved, gone>>
vars == <<nvs, allowed, driven, request, fates, restarts>>

List == <<"list">>
Keys == Names \cup {<<w>> : w \in Words}
Idle == [call |-> "none", name |-> <<>>]

Exists(key) == nvs[key] # <<>>
atoi(text) == IF text # <<>> /\ text[1] \in Pins THEN text[1] ELSE "0"

\* list_contains_device: one word of the list is the whole name.
Listed(name) == \E i \in DOMAIN nvs[List] : <<nvs[List][i]>> = name

\* Mutant: the last device in the list is not looked at.
TakenButLast(name, pin) ==
    \E i \in 1..(Len(nvs[List]) - 1) :
        LET other == <<nvs[List][i]>>
        IN other # name /\ Exists(other) /\ atoi(nvs[other]) = pin

\* Whether the pin is mapped to another of the devices in the list.
Taken(name, pin) ==
    \E i \in DOMAIN nvs[List] :
        LET other == <<nvs[List][i]>>
        IN other # name /\ Exists(other) /\ atoi(nvs[other]) = pin

\* memory_set and memory_delete (an empty text): flash takes the text, or an
\* error is reported and flash may have taken it all the same.
Written(key, text) == nvs' = [nvs EXCEPT ![key] = text]
NotWritten(key, text) == nvs' \in {nvs, [nvs EXCEPT ![key] = text]}

-----------------------------------------------------------------------------
Init == /\ nvs = [key \in Keys |-> <<>>]
        /\ allowed \in Policies /\ driven = {}
        /\ request = Idle /\ saved = {} /\ gone = {} /\ restarts = 0

(* gpio_mapping_save *)

Saving(name, pin) == /\ request = Idle
                     /\ pin \in allowed /\ ~Taken(name, pin)
                     /\ gone' = gone \ {name}
                     /\ UNCHANGED <<allowed, driven, saved, restarts>>

SaveKey(name, pin) == /\ Saving(name, pin)
                      /\ Written(name, <<pin>>)
                      /\ request' = [call |-> "save", name |-> name]

SaveKeyFails(name, pin) == /\ Saving(name, pin)
                           /\ NotWritten(name, <<pin>>)
                           /\ UNCHANGED request

\* list_add_device: what it is going to store; nothing, if the list has no room.
HasRoom(name) == Len(nvs[List]) + Len(name) <= MaxWords
NewList(name) == IF Listed(name) THEN nvs[List] ELSE nvs[List] \o name

\* The call returns.
Returns(call) == /\ request.call = call /\ request' = Idle
                 /\ UNCHANGED <<allowed, driven, restarts>>

\* Mutants: the room in the list is not checked; the list is written anew.
SaveListUnchecked == /\ Returns("save")
                     /\ Written(List, NewList(request.name))
                     /\ saved' = saved \cup {request.name} /\ UNCHANGED gone
SaveListAnew == /\ Returns("save")
                /\ Written(List, request.name)
                /\ saved' = saved \cup {request.name} /\ UNCHANGED gone

SaveList == /\ Returns("save")
            /\ Listed(request.name) \/ HasRoom(request.name)
            /\ Written(List, NewList(request.name))
            /\ saved' = saved \cup {request.name} /\ UNCHANGED gone

\* There is no room in the list, or writing it fails.
SaveListFails == /\ Returns("save")
                 /\ ~Listed(request.name)
                 /\ \/ HasRoom(request.name) /\ NotWritten(List, NewList(request.name))
                    \/ ~HasRoom(request.name) /\ UNCHANGED nvs
                 /\ UNCHANGED fates

-----------------------------------------------------------------------------
(* gpio_mapping_delete *)

\* A key that does not exist ends the call: memory_delete returns
\* ESP_ERR_NVS_NOT_FOUND, which is not the ESP_ERR_NOT_FOUND it is compared with.
Deleting(name) == /\ request = Idle /\ Exists(name)
                  /\ saved' = saved \ {name}
                  /\ UNCHANGED <<allowed, driven, gone, restarts>>

DeleteKey(name) == /\ Deleting(name)
                   /\ Written(name, <<>>)
                   /\ request' = [call |-> "delete", name |-> name]

DeleteKeyFails(name) == /\ Deleting(name)
                        /\ NotWritten(name, <<>>)
                        /\ UNCHANGED request

\* list_remove_device's loop: word after word, the words that are not the name.
Copied(words, name) ==
    LET first[n \in 0..Len(words)] == IF n = 0 THEN <<>>
                                      ELSE IF <<words[n]>> = name THEN first[n - 1]
                                      ELSE Append(first[n - 1], words[n])
    IN  first
Without(name) == Copied(nvs[List], name)[Len(nvs[List])]

\* Mutant: the list keeps the name.
DeleteFromKeyOnly == /\ Returns("delete")
                     /\ gone' = gone \cup {request.name}
                     /\ UNCHANGED <<nvs, saved>>

\* list_remove_device.
DeleteFromList == /\ Returns("delete")
                  /\ Written(List, Without(request.name))
                  /\ gone' = gone \cup {request.name} /\ UNCHANGED saved

DeleteFromListFails == /\ Returns("delete")
                       /\ Listed(request.name)
                       /\ NotWritten(List, Without(request.name))
                       /\ UNCHANGED fates

-----------------------------------------------------------------------------
(* gpio_write, by the number of a pin and by the name of a device *)

Drive(pin) == /\ request = Idle
              /\ pin \in allowed
              /\ driven' = driven \cup {pin}
              /\ UNCHANGED <<nvs, allowed, request, fates, restarts>>

WriteByName(name) == Exists(name) /\ Drive(atoi(nvs[name]))

-----------------------------------------------------------------------------
(* memory_set and memory_delete, the tools: these keys are user keys *)

\* The tools make no difference between a mapping and a note of the user, so
\* nothing is known any more of the device, or of all when the key is the list's.
MemoryTool(key) == /\ request = Idle
                   /\ saved' = IF key = List THEN {} ELSE saved \ {key}
                   /\ gone' = IF key = List THEN {} ELSE gone \ {key}
                   /\ UNCHANGED <<allowed, driven, request, restarts>>

MemorySet(key, text) == /\ MemoryTool(key)
                        /\ Written(key, text) \/ NotWritten(key, text)

MemoryDelete(key) == /\ MemoryTool(key) /\ Exists(key)
                     /\ Written(key, <<>>) \/ NotWritten(key, <<>>)

-----------------------------------------------------------------------------
\* A restart, after which another build of the firmware may run.
Restart == /\ restarts < MaxRestarts
           /\ restarts' = restarts + 1
           /\ allowed' \in Policies /\ driven' = {}
           /\ request' = Idle
           /\ UNCHANGED <<nvs, fates>>

Save(name, pin) == SaveKey(name, pin) \/ SaveKeyFails(name, pin)
Delete(name) == DeleteKey(name) \/ DeleteKeyFails(name)

Memory == \E key \in Names \cup {List} :
              MemoryDelete(key) \/ \E text \in Texts : MemorySet(key, text)

Next == \/ Memory
        \/ \E name \in Names, pin \in Pins : Save(name, pin)
        \/ \E name \in Names : Delete(name) \/ WriteByName(name)
        \/ \E pin \in Pins : Drive(pin)
        \/ SaveList \/ SaveListFails \/ DeleteFromList \/ DeleteFromListFails
        \/ Restart

Spec == Init /\ [][Next]_vars

-----------------------------------------------------------------------------
(* Properties *)

\* Every variable stays in its range; the list keeps within its buffer; and only
\* pins are driven that the firmware that runs allows, also by names that were
\* saved when another one ran, or written by a memory tool.
TypeOK ==
    /\ nvs \in [Keys -> Seq(Words)] /\ Len(nvs[List]) <= MaxWords
    /\ allowed \in Policies /\ driven \subseteq allowed
    /\ request \in {Idle} \cup [call : {"save", "delete"}, name : Names]
    /\ saved \subseteq Names /\ gone \subseteq Names /\ restarts \in 0..MaxRestarts

\* A mapping that was saved with success stays, in its key and in the list,
\* until it is deleted or a memory tool writes one of the two: whatever other
\* calls fail, or are cut short by a restart.
SavedIsKept == \A d \in saved : Exists(d) /\ nvs[d][1] \in Pins /\ Listed(d)

\* No two devices whose mappings were saved with success share a pin, though a
\* save looks only at the list, which failed calls leave behind with names
\* missing and names too many.
SavedPinsDiffer == \A d, e \in saved : d # e => atoi(nvs[d]) # atoi(nvs[e])

\* The devices saved with success, with the pins in their keys, are Mappings: a step
\* gives at most one of them another pin, which no other has, and else leaves all
\* that it does not forget as they are, between the writes of a call as well.
Mappings == INSTANCE Mappings WITH pin <- [d \in saved |-> atoi(nvs[d])]
ImplementsMappings == Mappings!Spec

\* A device deleted with success is neither found by its name nor listed.
DeletedIsGone == \A d \in gone : ~Exists(d) /\ ~Listed(d)

=============================================================================
