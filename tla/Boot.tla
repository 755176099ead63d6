-------------------------------- MODULE Boot --------------------------------
(***************************************************************************)
(* From power-up to normal operation, and back: app_main (main/main.c), the *)
(* boot counter and safe mode (main/boot_guard.c), the task that confirms a *)
(* boot as stable, the WiFi connection with its event handler, and the      *)
(* commands that restart the device (main/local_admin.c).                   *)
(*                                                                          *)
(* A reset may come at any moment. The boot counter is compared with        *)
(* MAX_BOOT_FAILURES only, so it stays there once it got there. OTA images  *)
(* are left out: nothing in the firmware installs one.                      *)
(***************************************************************************)
EXTENDS Integers

CONSTANTS
    MaxBootFailures,  \* MAX_BOOT_FAILURES
    WifiMaxRetry,     \* WIFI_MAX_RETRY
    MaxUnwritten,     \* bound: boots in a row whose count was not written
    MaxTrouble        \* bound: crashes, failed start-ups and early restarts

ASSUME BootAssumption ==
    /\ MaxBootFailures \in Nat \ {0} /\ WifiMaxRetry \in Nat
    /\ MaxUnwritten \in Nat /\ MaxTrouble \in Nat

VARIABLES
    boot_count, provisioned,   \* in flash: the counter; WiFi credentials are there
    pc,                        \* where app_main is
    s_safe_mode,
    boot_ok,                   \* the task that clears the counter
    link,                      \* the WiFi driver
    s_wifi_connect_in_progress, s_wifi_retry_num,
    s_wifi_event_group,        \* its bits
    ap,                        \* the access point is in reach and serves the board
    trouble,                   \* used up of MaxTrouble
    unstable,                  \* boots since the counter was last cleared, this one included
    unwritten,                 \* of those, the ones that could not store the counter
    clear_failed,              \* the counter was to be cleared, and the write failed
    online                     \* the board got an address in this boot

flash == <<boot_count, provisioned>>
wifi == <<link, s_wifi_connect_in_progress, s_wifi_retry_num, s_wifi_event_group>>
history == <<unstable, unwritten, clear_failed>>
vars == <<flash, pc, s_safe_mode, boot_ok, wifi, ap, trouble, history, online>>

MaxUnstable == MaxBootFailures + MaxUnwritten
Smaller(i, j) == IF i < j THEN i ELSE j

-----------------------------------------------------------------------------
(* boot_guard.c *)

\* boot_guard_next_count, up to the only value it is compared with.
NextCount(count) == Smaller(count + 1, MaxBootFailures)

\* Mutants: off by one, either way.
EntersEarly(count) == NextCount(count) >= MaxBootFailures - 1
EntersLate(count) == count > MaxBootFailures

ShouldEnterSafeMode(count) == NextCount(count) >= MaxBootFailures

-----------------------------------------------------------------------------
Init == /\ boot_count = 0 /\ provisioned = FALSE
        /\ pc = "off" /\ s_safe_mode = FALSE /\ boot_ok = "none"
        /\ link = "idle" /\ s_wifi_connect_in_progress = FALSE /\ s_wifi_retry_num = 0
        /\ s_wifi_event_group = {} /\ ap \in BOOLEAN
        /\ trouble = 0 /\ unstable = 0 /\ unwritten = 0 /\ clear_failed = FALSE
        /\ online = FALSE

\* The memory and the tasks are gone; what flash holds stays.
Reset == /\ pc' = "off" /\ s_safe_mode' = FALSE /\ boot_ok' = "none"
         /\ link' = "idle" /\ s_wifi_connect_in_progress' = FALSE
         /\ s_wifi_retry_num' = 0 /\ s_wifi_event_group' = {} /\ online' = FALSE
         /\ UNCHANGED ap

\* nvs_flash_erase: the counter and the credentials are gone.
Erased == /\ boot_count' = 0 /\ provisioned' = FALSE
          /\ unstable' = 0 /\ unwritten' = 0 /\ clear_failed' = FALSE

Trouble == trouble < MaxTrouble /\ trouble' = trouble + 1

-----------------------------------------------------------------------------
(* app_main *)

At(here) == pc = here /\ UNCHANGED <<wifi, ap, online>>

\* memory_init erases a flash that has no free page or another format.
MemoryInit == /\ At("off")
              /\ pc' = "button"
              /\ \/ UNCHANGED <<flash, history, trouble>>
                 \/ Trouble /\ Erased
              /\ UNCHANGED <<s_safe_mode, boot_ok>>

\* check_factory_reset: the BOOT button is held for five seconds, or not.
FactoryResetButton ==
    /\ At("button")
    /\ \/ pc' = "guard" /\ UNCHANGED <<flash, history, trouble>>
       \/ pc' = "restarting" /\ Trouble /\ Erased
    /\ UNCHANGED <<s_safe_mode, boot_ok>>

\* The counter is stored, or the write fails, and has changed flash or has not.
GuardBoot ==
    /\ At("guard")
    /\ s_safe_mode' = ShouldEnterSafeMode(boot_count)
    /\ unstable' = Smaller(unstable + 1, MaxUnstable)
    /\ \/ boot_count' = NextCount(boot_count) /\ UNCHANGED unwritten
       \/ /\ unwritten < MaxUnwritten /\ unwritten' = unwritten + 1
          /\ boot_count' \in {boot_count, NextCount(boot_count)}
    /\ pc' = "start"
    /\ UNCHANGED <<provisioned, boot_ok, clear_failed, trouble>>

\* The queues, the channel task and the agent task; without credentials and in
\* safe mode app_main goes no further.
StartTasks ==
    /\ At("start")
    /\ \/ /\ pc' = IF s_safe_mode \/ ~provisioned THEN "halted" ELSE "connect"
          /\ UNCHANGED trouble
       \/ pc' = "restarting" /\ Trouble
    /\ UNCHANGED <<flash, s_safe_mode, boot_ok, history>>

\* local_admin_wifi_connect_from_store, up to the wait for the event bits.
Connect ==
    /\ pc = "connect"
    /\ \/ /\ pc' = "waiting"
          /\ link' = "connecting" /\ s_wifi_connect_in_progress' = TRUE
          /\ s_wifi_retry_num' = 0 /\ s_wifi_event_group' = {}
          /\ UNCHANGED trouble
       \/ pc' = "restarting" /\ Trouble /\ UNCHANGED wifi
    /\ UNCHANGED <<flash, s_safe_mode, boot_ok, ap, history, online>>

\* Mutant: any bit counts as connected.
AnyBitConnects ==
    /\ At("waiting") /\ s_wifi_event_group # {}
    /\ pc' = "services" /\ boot_ok' = "waiting"
    /\ UNCHANGED <<flash, s_safe_mode, history, trouble>>

\* The wait ends: a failure restarts the device; otherwise the boot_ok task is
\* started, or cannot be, which is only logged.
WifiWaitEnds ==
    /\ At("waiting") /\ s_wifi_event_group # {}
    /\ \/ /\ "CONNECTED" \in s_wifi_event_group
          /\ pc' = "services"
          /\ \/ boot_ok' = "waiting" /\ UNCHANGED trouble
             \/ boot_ok' = "none" /\ Trouble
       \/ /\ "CONNECTED" \notin s_wifi_event_group
          /\ pc' = "restarting" /\ UNCHANGED <<boot_ok, trouble>>
    /\ UNCHANGED <<flash, s_safe_mode, history>>

\* cron_init, telegram_start and cron_start; none of them fails for want of a link.
StartServices ==
    /\ At("services")
    /\ \/ pc' = "ready" /\ UNCHANGED trouble
       \/ pc' = "restarting" /\ Trouble
    /\ UNCHANGED <<flash, s_safe_mode, boot_ok, history>>

EspRestart == /\ pc = "restarting"
              /\ Reset
              /\ UNCHANGED <<flash, trouble, history>>

\* The device stayed up for 30 seconds: the counter is cleared, or that fails.
ClearBootCount ==
    /\ boot_ok = "waiting"
    /\ boot_ok' = "done"
    /\ unstable' = 0 /\ unwritten' = 0
    /\ \/ boot_count' = 0 /\ clear_failed' = FALSE
       \/ boot_count' \in {0, boot_count} /\ clear_failed' = TRUE
    /\ UNCHANGED <<provisioned, pc, s_safe_mode, wifi, ap, trouble, online>>

-----------------------------------------------------------------------------
(* The WiFi driver, and local_admin_wifi_event_handler *)

\* The access point comes into reach, or goes.
ApChanges == /\ ap' = ~ap
             /\ UNCHANGED <<flash, pc, s_safe_mode, boot_ok, wifi, trouble, history, online>>

GotIp == /\ link = "connecting" /\ ap
         /\ link' = "up" /\ online' = TRUE
         /\ s_wifi_connect_in_progress' = FALSE /\ s_wifi_retry_num' = 0
         /\ s_wifi_event_group' = s_wifi_event_group \cup {"CONNECTED"}
         /\ UNCHANGED <<flash, pc, s_safe_mode, boot_ok, ap, trouble, history>>

LinkLost == /\ link \in {"connecting", "up"} /\ ~ap
            /\ UNCHANGED <<flash, pc, s_safe_mode, boot_ok, s_wifi_connect_in_progress,
                           ap, trouble, history, online>>

\* Mutants: the retry is not counted; one retry too many.
RetryUncounted == /\ LinkLost /\ s_wifi_connect_in_progress
                  /\ s_wifi_retry_num < WifiMaxRetry
                  /\ link' = "connecting"
                  /\ UNCHANGED <<s_wifi_retry_num, s_wifi_event_group>>
RetryOnceMore == /\ LinkLost /\ s_wifi_connect_in_progress
                 /\ s_wifi_retry_num <= WifiMaxRetry
                 /\ link' = "connecting" /\ s_wifi_retry_num' = s_wifi_retry_num + 1
                 /\ UNCHANGED s_wifi_event_group

\* WIFI_EVENT_STA_DISCONNECTED while connecting: the next try, at once.
Retry == /\ LinkLost /\ s_wifi_connect_in_progress
         /\ s_wifi_retry_num < WifiMaxRetry
         /\ link' = "connecting" /\ s_wifi_retry_num' = s_wifi_retry_num + 1
         /\ UNCHANGED s_wifi_event_group

\* The last try failed; or the board was connected, and nobody connects it again.
GiveUp == /\ LinkLost
          /\ ~(s_wifi_connect_in_progress /\ s_wifi_retry_num < WifiMaxRetry)
          /\ link' = "idle"
          /\ s_wifi_event_group' = IF s_wifi_connect_in_progress
                                   THEN s_wifi_event_group \cup {"FAIL"}
                                   ELSE s_wifi_event_group
          /\ UNCHANGED s_wifi_retry_num

-----------------------------------------------------------------------------
(* Crashes, the serial console and the provisioning script *)

Crash == /\ pc # "off" /\ Trouble
         /\ Reset
         /\ UNCHANGED <<flash, history>>

\* The agent task takes commands from the time it is started.
Settled == pc \in {"halted", "ready"}
Commands == \/ Settled /\ UNCHANGED trouble
            \/ pc \in {"connect", "waiting", "services", "restarting"} /\ Trouble

Reboot == /\ Commands
          /\ Reset
          /\ UNCHANGED <<flash, history>>

\* /factory-reset confirm; when the erase fails, nothing happens.
FactoryReset == /\ Commands
                /\ Erased
                /\ Reset

\* provision.sh writes the whole partition; the tool resets the board.
Provision == /\ pc = "off"
             /\ (~provisioned /\ UNCHANGED trouble) \/ Trouble
             /\ provisioned' = TRUE /\ boot_count' = 0
             /\ unstable' = 0 /\ unwritten' = 0 /\ clear_failed' = FALSE
             /\ UNCHANGED <<pc, s_safe_mode, boot_ok, wifi, ap, online>>

-----------------------------------------------------------------------------
AppMain == \/ MemoryInit \/ FactoryResetButton \/ GuardBoot \/ StartTasks \/ Connect
           \/ WifiWaitEnds \/ StartServices \/ EspRestart
Events == GotIp \/ Retry \/ GiveUp
User == Reboot \/ FactoryReset \/ Provision

Next == AppMain \/ ClearBootCount \/ Events \/ ApChanges \/ Crash \/ User

Spec == Init /\ [][Next]_vars

\* app_main and the event task run; the driver answers every attempt to connect.
FairSpec == Spec /\ WF_vars(AppMain) /\ WF_vars(Events)

-----------------------------------------------------------------------------
(* Properties *)

\* Every variable stays in its range; no more than WIFI_MAX_RETRY retries.
TypeOK ==
    /\ boot_count \in 0..MaxBootFailures /\ provisioned \in BOOLEAN
    /\ pc \in {"off", "button", "guard", "start", "halted", "connect", "waiting",
               "services", "ready", "restarting"}
    /\ s_safe_mode \in BOOLEAN /\ boot_ok \in {"none", "waiting", "done"}
    /\ link \in {"idle", "connecting", "up"} /\ ap \in BOOLEAN
    /\ s_wifi_connect_in_progress \in BOOLEAN /\ s_wifi_retry_num \in 0..WifiMaxRetry
    /\ s_wifi_event_group \subseteq {"CONNECTED", "FAIL"}
    /\ trouble \in 0..MaxTrouble /\ unstable \in 0..MaxUnstable
    /\ unwritten \in 0..MaxUnwritten
    /\ clear_failed \in BOOLEAN /\ online \in BOOLEAN

\* Safe mode is entered only when MAX_BOOT_FAILURES boots in a row, this one
\* included, were not confirmed as stable, whatever restarted them; unless a
\* stable boot could not clear the counter.
SafeModeOnlyAfterUnstable ==
    s_safe_mode /\ ~clear_failed => unstable >= MaxBootFailures

\* A boot loop is stopped: outside safe mode there are never MAX_BOOT_FAILURES
\* boots in a row that were not stable and stored the counter.
LoopsAreStopped ==
    pc \notin {"off", "button", "guard"} /\ ~s_safe_mode
      => unstable - unwritten < MaxBootFailures

\* A boot is confirmed as stable only after the board was online in that very
\* boot, and never in safe mode.
StableOnlyOnline ==
    [][boot_ok = "waiting" /\ boot_ok' = "done" => online /\ ~s_safe_mode]_vars

\* Every start-up ends, at work or at a halt, with an access point or without:
\* WiFi failures restart the device only until safe mode stops them.
BootEnds == pc = "off" ~> Settled

=============================================================================
