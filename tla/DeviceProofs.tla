---------------------------- MODULE DeviceProofs ----------------------------
(***************************************************************************)
(* Proofs about the device itself: its start-up (Boot) and the tools that   *)
(* work its pins for longer than one register write (Board).                *)
(*                                                                          *)
(* Boot, for every limit and every bound: the type invariant, that safe     *)
(* mode is entered only when boots in a row were unstable, that it stops    *)
(* every boot loop, that a boot is confirmed only after the board was       *)
(* online in it, and that a start-up comes to its end unless it is kept     *)
(* from it. The counter in flash and the history of boots are tied together *)
(* by Counted; Phases says which tasks there are while app_main is where it *)
(* is; Nearer compares what a start-up has left before and after a step.    *)
(*                                                                          *)
(* Board, for every policy, interval and number of retries: the type        *)
(* invariant with the life of the I2C driver, the spacing of captures, and  *)
(* that a reading is what the sensor sent. TimeInv ties the clock to the    *)
(* times kept of captures; Follows says how far a capture is in the signal. *)
(***************************************************************************)
EXTENDS Boot, Board, SequenceTheorems, NaturalsInduction, WellFoundedInduction, TLAPS

-----------------------------------------------------------------------------
(* Boot: the inductive invariant *)

\* The counter is no more than the boots since it was cleared, and no less than
\* those of them that stored it, up to the limit.
Counted == /\ ~clear_failed => boot_count <= unstable
           /\ boot_count >= unstable - unwritten \/ boot_count = MaxBootFailures

\* The boot_ok task comes with the link and never in safe mode, and each boot
\* starts without either.
Phases == /\ pc \in {"off", "button", "guard"} => ~s_safe_mode
          /\ pc \in {"off", "button", "guard", "start", "connect", "waiting"}
               => boot_ok = "none"
          /\ pc \in {"connect", "waiting", "services"} => ~s_safe_mode
          /\ "CONNECTED" \in s_wifi_event_group => online
          /\ boot_ok = "waiting" => online /\ ~s_safe_mode
          /\ pc \in {"off", "button", "guard", "start", "halted", "connect"}
               => link = "idle" /\ s_wifi_event_group = {}

\* TypeOK in two parts, as the provers take numbers and Booleans apart.
Booleans == /\ provisioned \in BOOLEAN /\ s_safe_mode \in BOOLEAN /\ ap \in BOOLEAN
            /\ s_wifi_connect_in_progress \in BOOLEAN
            /\ clear_failed \in BOOLEAN /\ online \in BOOLEAN

Ranges ==
    /\ boot_count \in 0..MaxBootFailures
    /\ pc \in {"off", "button", "guard", "start", "halted", "connect", "waiting",
               "services", "ready", "restarting"}
    /\ boot_ok \in {"none", "waiting", "done"}
    /\ link \in {"idle", "connecting", "up"}
    /\ s_wifi_retry_num \in 0..WifiMaxRetry
    /\ s_wifi_event_group \subseteq {"CONNECTED", "FAIL"}
    /\ trouble \in 0..MaxTrouble /\ unstable \in 0..MaxUnstable
    /\ unwritten \in 0..MaxUnwritten

IInv == /\ TypeOK /\ Counted /\ Phases
        /\ SafeModeOnlyAfterUnstable /\ LoopsAreStopped

-----------------------------------------------------------------------------
\* TypeOK is the two parts together, before a step and after it.
LEMMA TypeParts == TypeOK <=> Ranges /\ Booleans
BY DEF TypeOK, Ranges, Booleans

\* The same after a step.
LEMMA TypePartsNext == TypeOK' <=> Ranges' /\ Booleans'
BY DEF TypeOK, Ranges, Booleans

\* The initial state satisfies the invariant.
LEMMA InitIInv == Init => IInv
<1> USE BootAssumption DEF Init, MaxUnstable
<1>1. Init => Ranges BY DEF Ranges
<1>0. Init => Booleans BY DEF Booleans
<1>2. Init => Counted BY DEF Counted
<1>3. Init => Phases BY DEF Phases
<1>4. Init => SafeModeOnlyAfterUnstable /\ LoopsAreStopped
  BY DEF SafeModeOnlyAfterUnstable, LoopsAreStopped
<1> QED BY <1>0, <1>1, <1>2, <1>3, <1>4, TypeParts DEF IInv

\* A reset keeps the invariant, whether flash is erased with it or not.
LEMMA ResetKeeps ==
    ASSUME IInv, Reset, trouble' \in 0..MaxTrouble,
           UNCHANGED <<flash, history>> \/ Erased
    PROVE  IInv'
<1> USE BootAssumption DEF IInv, flash, history, Reset, Erased, MaxUnstable
<1>0. Booleans' BY TypeParts DEF Booleans
<1>1. Ranges' BY TypeParts DEF Ranges
<1>2. Counted' BY DEF TypeOK, Counted
<1>3. Phases' BY DEF Phases
<1>4. SafeModeOnlyAfterUnstable' /\ LoopsAreStopped'
  BY DEF SafeModeOnlyAfterUnstable, LoopsAreStopped
<1> QED BY <1>0, <1>1, <1>2, <1>3, <1>4, TypePartsNext

\* One boot more changes the difference of the two histories by one at most.
LEMMA Within ==
    ASSUME NEW u \in Int, NEW u1 \in Int, NEW w \in Int, NEW w1 \in Int,
           NEW c \in Int, NEW m \in Int,
           c + 1 < m, u - w <= c, u1 <= u + 1, w <= w1
    PROVE  u1 - w1 < m
OBVIOUS

\* The counter after a boot that was counted, and after one that was not.
LEMMA GuardBootKeeps == ASSUME IInv, GuardBoot PROVE IInv'
<1> USE BootAssumption DEF IInv, GuardBoot, At, wifi, NextCount, Smaller, MaxUnstable,
        ShouldEnterSafeMode, TypeOK
<1>1. TypeOK' OBVIOUS
<1>2. Counted' BY DEF Counted
<1>3. Phases' BY DEF Phases
<1>4. SafeModeOnlyAfterUnstable' BY DEF SafeModeOnlyAfterUnstable, Counted
<1>5. LoopsAreStopped'
  <2> SUFFICES ASSUME ~s_safe_mode' PROVE unstable' - unwritten' < MaxBootFailures
    BY DEF LoopsAreStopped
  <2>1. ~ShouldEnterSafeMode(boot_count) BY Zenon
  <2>2. boot_count + 1 < MaxBootFailures BY <2>1
  <2>3. unstable - unwritten <= boot_count BY <2>2 DEF Counted
  <2>4. unstable' <= unstable + 1 /\ unwritten <= unwritten'
    OBVIOUS
  <2>5. /\ unstable \in Int /\ unstable' \in Int /\ unwritten \in Int /\ unwritten' \in Int
        /\ boot_count \in Int /\ MaxBootFailures \in Int
    BY <1>1
  <2> HIDE DEF IInv, GuardBoot
  <2> QED BY <2>2, <2>3, <2>4, <2>5, Within
<1> QED BY <1>1, <1>2, <1>3, <1>4, <1>5

\* The other steps of app_main, up to the restart.
LEMMA AppMainKeeps == ASSUME IInv, AppMain PROVE IInv'
<1> USE BootAssumption DEF IInv, flash, wifi, history, At, Trouble, Erased, MaxUnstable
<1>1. CASE MemoryInit
  <2> USE <1>1 DEF MemoryInit
  <2>0. Booleans' BY TypeParts DEF Booleans
  <2>1. Ranges' BY TypeParts DEF Ranges
  <2>2. Counted' BY DEF Counted, TypeOK
  <2>3. Phases' BY DEF Phases
  <2>4. SafeModeOnlyAfterUnstable' BY DEF SafeModeOnlyAfterUnstable, Phases
  <2>5. LoopsAreStopped' BY DEF LoopsAreStopped, TypeOK
  <2> QED BY <2>0, <2>1, <2>2, <2>3, <2>4, <2>5, TypePartsNext
<1>2. CASE FactoryResetButton
  <2> USE <1>2 DEF FactoryResetButton
  <2>0. Booleans' BY TypeParts DEF Booleans
  <2>1. Ranges' BY TypeParts DEF Ranges
  <2>2. Counted' BY DEF Counted, TypeOK
  <2>3. Phases' BY DEF Phases
  <2>4. SafeModeOnlyAfterUnstable' BY DEF SafeModeOnlyAfterUnstable, Phases
  <2>5. LoopsAreStopped' BY DEF LoopsAreStopped, TypeOK
  <2> QED BY <2>0, <2>1, <2>2, <2>3, <2>4, <2>5, TypePartsNext
<1>3. CASE GuardBoot BY <1>3, GuardBootKeeps
<1>4. CASE StartTasks
  BY <1>4 DEF StartTasks, TypeOK, Counted, Phases, SafeModeOnlyAfterUnstable, LoopsAreStopped
<1>5. CASE Connect
  <2> USE <1>5 DEF Connect
  <2>0. Booleans' BY TypeParts DEF Booleans
  <2>1. Ranges' BY TypeParts DEF Ranges
  <2>2. Counted' BY DEF Counted, TypeOK
  <2>3. Phases' BY DEF Phases
  <2>4. SafeModeOnlyAfterUnstable' BY DEF SafeModeOnlyAfterUnstable, Phases
  <2>5. LoopsAreStopped' BY DEF LoopsAreStopped, TypeOK
  <2> QED BY <2>0, <2>1, <2>2, <2>3, <2>4, <2>5, TypePartsNext
<1>6. CASE WifiWaitEnds
  BY <1>6 DEF WifiWaitEnds, TypeOK, Counted, Phases, SafeModeOnlyAfterUnstable,
              LoopsAreStopped
<1>7. CASE StartServices
  BY <1>7 DEF StartServices, TypeOK, Counted, Phases, SafeModeOnlyAfterUnstable,
              LoopsAreStopped
<1>8. CASE EspRestart BY <1>8, ResetKeeps DEF EspRestart, TypeOK
<1> QED BY <1>1, <1>2, <1>3, <1>4, <1>5, <1>6, <1>7, <1>8 DEF AppMain

\* The boot_ok task, the driver's events and the access point.
LEMMA TasksKeep == ASSUME IInv, ClearBootCount \/ Events \/ ApChanges PROVE IInv'
<1> USE BootAssumption DEF IInv, flash, wifi, history, MaxUnstable
<1>1. CASE ClearBootCount
  <2> USE <1>1 DEF ClearBootCount
  <2>0. Booleans' BY TypeParts DEF Booleans
  <2>1. Ranges' BY TypeParts DEF Ranges
  <2>2. Counted' BY DEF Counted, TypeOK
  <2>3. Phases' BY DEF Phases
  <2>4. SafeModeOnlyAfterUnstable' BY DEF SafeModeOnlyAfterUnstable, Phases
  <2>5. LoopsAreStopped' BY DEF LoopsAreStopped, TypeOK
  <2> QED BY <2>0, <2>1, <2>2, <2>3, <2>4, <2>5, TypePartsNext
<1>2. CASE GotIp
  <2> USE <1>2 DEF GotIp
  <2>0. Booleans' BY TypeParts DEF Booleans
  <2>1. Ranges' BY TypeParts DEF Ranges
  <2>2. Counted' BY DEF Counted, TypeOK
  <2>3. Phases' BY DEF Phases
  <2>4. SafeModeOnlyAfterUnstable' BY DEF SafeModeOnlyAfterUnstable, Phases
  <2>5. LoopsAreStopped' BY DEF LoopsAreStopped, TypeOK
  <2> QED BY <2>0, <2>1, <2>2, <2>3, <2>4, <2>5, TypePartsNext
<1>3. CASE Retry
  BY <1>3 DEF Retry, LinkLost, TypeOK, Counted, Phases, SafeModeOnlyAfterUnstable,
              LoopsAreStopped
<1>4. CASE GiveUp
  BY <1>4 DEF GiveUp, LinkLost, TypeOK, Counted, Phases, SafeModeOnlyAfterUnstable,
              LoopsAreStopped
<1>5. CASE ApChanges
  BY <1>5 DEF ApChanges, TypeOK, Counted, Phases, SafeModeOnlyAfterUnstable, LoopsAreStopped
<1> QED BY <1>1, <1>2, <1>3, <1>4, <1>5 DEF Events

\* Crashes, commands and provisioning.
LEMMA UserKeeps == ASSUME IInv, Crash \/ User PROVE IInv'
<1> USE BootAssumption DEF IInv, Trouble
<1>1. CASE Crash BY <1>1, ResetKeeps DEF Crash, TypeOK
<1>2. CASE Reboot BY <1>2, ResetKeeps DEF Reboot, Commands, TypeOK
<1>3. CASE FactoryReset BY <1>3, ResetKeeps DEF FactoryReset, Commands, TypeOK
<1>4. CASE Provision
  <2> USE <1>4 DEF Provision, wifi
  <2>0. Booleans' BY TypeParts DEF Booleans
  <2>1. Ranges' BY TypeParts DEF Ranges, MaxUnstable
  <2>2. Counted' BY DEF Counted, TypeOK
  <2>3. Phases' BY DEF Phases
  <2>4. SafeModeOnlyAfterUnstable' BY DEF SafeModeOnlyAfterUnstable, Phases
  <2>5. LoopsAreStopped' BY DEF LoopsAreStopped, TypeOK
  <2> QED BY <2>0, <2>1, <2>2, <2>3, <2>4, <2>5, TypePartsNext
<1> QED BY <1>1, <1>2, <1>3, <1>4 DEF User

\* Every step keeps the invariant.
LEMMA NextIInv == IInv /\ [Next]_vars => IInv'
<1> SUFFICES ASSUME IInv, [Next]_vars PROVE IInv'
  OBVIOUS
<1>1. CASE AppMain BY <1>1, AppMainKeeps
<1>2. CASE ClearBootCount \/ Events \/ ApChanges BY <1>2, TasksKeep
<1>3. CASE Crash \/ User BY <1>3, UserKeeps
<1>4. CASE UNCHANGED vars
  BY <1>4 DEF vars, flash, wifi, history, IInv, TypeOK, Counted, Phases,
              SafeModeOnlyAfterUnstable, LoopsAreStopped
<1> QED BY <1>1, <1>2, <1>3, <1>4 DEF Next

\* The invariant holds in every reachable state.
THEOREM Inductive == Spec => []IInv
BY InitIInv, NextIInv, PTL DEF Spec

-----------------------------------------------------------------------------
\* Every variable of start-up stays in its range (app_main and the event handler).
THEOREM TypeCorrect == Spec => []TypeOK
<1>1. IInv => TypeOK BY DEF IInv
<1> QED BY <1>1, Inductive, PTL

\* Safe mode is entered only when MAX_BOOT_FAILURES boots in a row were not
\* confirmed, whatever restarted them (boot_guard_should_enter_safe_mode).
THEOREM SafeModeJustified == Spec => []SafeModeOnlyAfterUnstable
<1>1. IInv => SafeModeOnlyAfterUnstable BY DEF IInv
<1> QED BY <1>1, Inductive, PTL

\* Outside safe mode there are never MAX_BOOT_FAILURES boots in a row that
\* were unstable and counted (app_main, step 4).
THEOREM LoopsStopped == Spec => []LoopsAreStopped
<1>1. IInv => LoopsAreStopped BY DEF IInv
<1> QED BY <1>1, Inductive, PTL

\* A boot is confirmed as stable only after it was online, and never in safe
\* mode (clear_boot_count).
THEOREM StableOnline == Spec => StableOnlyOnline
<1>1. ASSUME IInv, [Next]_vars
      PROVE  [boot_ok = "waiting" /\ boot_ok' = "done" => online /\ ~s_safe_mode]_vars
  BY <1>1 DEF IInv, Phases
<1> QED BY <1>1, Inductive, PTL DEF Spec, StableOnlyOnline

-----------------------------------------------------------------------------
(* Boot: a start-up that nothing disturbs comes to an end *)

\* The driver reports each attempt once: a link that is up is no longer being
\* connected, and app_main never waits with no attempt under way.
Attempts ==
    /\ link = "up" => ~s_wifi_connect_in_progress
    /\ link = "connecting" => s_wifi_connect_in_progress
    /\ pc = "waiting" /\ s_wifi_event_group = {} => link = "connecting"

\* The wait for the event bits has no timeout (local_admin.c), so an attempt to
\* connect must be under way for as long as no bit is set.
WaitIsAnswered ==
    pc = "waiting" /\ s_wifi_event_group = {} =>
        link = "connecting" /\ s_wifi_connect_in_progress

\* What a start-up has left, the heaviest first: troubles, the provisioning, the
\* stage it is in, boots until safe mode ends the loop, steps within the boot.
TroublesLeft == MaxTrouble - trouble

ProvisionsLeft == IF provisioned THEN 0 ELSE 1

\* Behind the wait for WiFi, and in safe mode, nothing but trouble restarts the
\* board, so boots count only before. A restart from there may find the counter
\* cleared, which starts the count of boots over.
Stage == CASE pc \in {"halted", "ready"}                     -> 0
           [] pc = "services" \/ (pc = "start" /\ s_safe_mode) -> 1
           [] pc = "restarting" /\ boot_ok = "waiting"       -> 3
           [] OTHER                                          -> 2

BootsLeft ==
    IF Stage # 2 THEN 0
    ELSE IF pc \in {"off", "button", "guard"} THEN MaxUnstable - unstable
    ELSE MaxUnstable - unstable + 1

LinkSteps == CASE link = "connecting" -> 2 + (WifiMaxRetry - s_wifi_retry_num)
               [] link = "up"         -> 1
               [] OTHER               -> 0

BootSteps == CASE pc = "off"     -> WifiMaxRetry + 10
               [] pc = "button"  -> WifiMaxRetry + 9
               [] pc = "guard"   -> WifiMaxRetry + 8
               [] pc = "start"   -> WifiMaxRetry + 7
               [] pc = "connect" -> WifiMaxRetry + 6
               [] pc = "waiting" -> LinkSteps + 2
               [] OTHER          -> LinkSteps + 1

\* Less is left after a step than before it; the same is left.
Nearer ==
    \/ TroublesLeft' < TroublesLeft
    \/ /\ TroublesLeft' = TroublesLeft
       /\ \/ ProvisionsLeft' < ProvisionsLeft
          \/ /\ ProvisionsLeft' = ProvisionsLeft
             /\ \/ Stage' < Stage
                \/ /\ Stage' = Stage
                   /\ \/ BootsLeft' < BootsLeft
                      \/ BootsLeft' = BootsLeft /\ BootSteps' < BootSteps

AsFar == UNCHANGED <<TroublesLeft, ProvisionsLeft, Stage, BootsLeft, BootSteps>>

\* Until the board works or halts, every step of app_main and of the WiFi driver
\* brings it nearer, and no other step takes it further away.
StartUpShrinks ==
    [][~Settled => /\ AppMain \/ Events => Nearer
                   /\ Nearer \/ AsFar]_vars

\* Each part of it is a number.
MeasureTyped == /\ TroublesLeft \in Nat /\ ProvisionsLeft \in Nat /\ Stage \in Nat
                /\ BootsLeft \in Nat /\ BootSteps \in Nat

\* The measure consists of numbers.
LEMMA Measured == ASSUME IInv PROVE MeasureTyped
<1> USE BootAssumption DEF IInv, TypeOK, MaxUnstable
<1>1. TroublesLeft \in Nat BY DEF TroublesLeft
<1>2. ProvisionsLeft \in Nat BY DEF ProvisionsLeft
<1>3. Stage \in Nat BY DEF Stage
<1>4. BootsLeft \in Nat BY DEF BootsLeft
<1>5. LinkSteps \in Nat BY DEF LinkSteps
<1>6. BootSteps \in Nat BY <1>5 DEF BootSteps
<1> QED BY <1>1, <1>2, <1>3, <1>4, <1>6 DEF MeasureTyped

\* One trouble more is nearer, whatever else it does.
LEMMA TroubleNearer == ASSUME IInv, Trouble PROVE Nearer
BY BootAssumption DEF IInv, TypeOK, Trouble, Nearer, TroublesLeft

\* Without trouble and provisioning, a lower stage is nearer; within stage 2, so
\* is a boot less, or the same boot with fewer steps.
LEMMA StageNearer ==
    ASSUME UNCHANGED <<trouble, provisioned>>, Stage' < Stage
    PROVE  Nearer
BY DEF Nearer, TroublesLeft, ProvisionsLeft

\* The same for boots and steps.
LEMMA StepNearer ==
    ASSUME UNCHANGED <<trouble, provisioned>>, Stage' = Stage,
           BootsLeft' < BootsLeft \/ (BootsLeft' = BootsLeft /\ BootSteps' < BootSteps)
    PROVE  Nearer
BY DEF Nearer, TroublesLeft, ProvisionsLeft

\* app_main up to the boot guard, which counts a boot but in safe mode.
LEMMA EarlyNearer ==
    ASSUME IInv, IInv', MemoryInit \/ FactoryResetButton \/ GuardBoot
    PROVE  Nearer
<1> USE BootAssumption DEF At, flash, history, wifi
<1>1. CASE Trouble BY <1>1, TroubleNearer
<1>2. CASE MemoryInit /\ ~Trouble
  <2>1. /\ pc = "off" /\ pc' = "button"
        /\ UNCHANGED <<trouble, provisioned, unstable>>
    BY <1>2 DEF MemoryInit
  <2>2. Stage = 2 /\ Stage' = 2 BY <2>1 DEF Stage
  <2>3. BootsLeft' = BootsLeft BY <2>1, <2>2 DEF BootsLeft, MaxUnstable
  <2>4. BootSteps' < BootSteps BY <2>1 DEF BootSteps
  <2> QED BY <2>1, <2>2, <2>3, <2>4, StepNearer
<1>3. CASE FactoryResetButton /\ ~Trouble
  <2>1. /\ pc = "button" /\ pc' = "guard"
        /\ UNCHANGED <<trouble, provisioned, unstable>>
    BY <1>3 DEF FactoryResetButton
  <2>2. Stage = 2 /\ Stage' = 2 BY <2>1 DEF Stage
  <2>3. BootsLeft' = BootsLeft BY <2>1, <2>2 DEF BootsLeft, MaxUnstable
  <2>4. BootSteps' < BootSteps BY <2>1 DEF BootSteps
  <2> QED BY <2>1, <2>2, <2>3, <2>4, StepNearer
<1>4. CASE GuardBoot
  <2>1. /\ pc = "guard" /\ pc' = "start"
        /\ UNCHANGED <<trouble, provisioned>>
        /\ unstable' = Smaller(unstable + 1, MaxUnstable)
    BY <1>4 DEF GuardBoot
  <2>2. Stage = 2 BY <2>1 DEF Stage
  <2>3. CASE s_safe_mode'
    <3>1. Stage' = 1 BY <2>1, <2>3 DEF Stage
    <3> QED BY <2>1, <2>2, <3>1, StageNearer
  <2>4. CASE ~s_safe_mode'
    <3>1. Stage' = 2 BY <2>1, <2>4, <1>4 DEF Stage, IInv, Phases
    <3>2. unstable' - unwritten' < MaxBootFailures
      BY <2>1, <2>4 DEF IInv, LoopsAreStopped
    <3>3. /\ unstable \in Nat /\ unwritten' \in 0..MaxUnwritten
          /\ MaxBootFailures \in Nat /\ MaxUnwritten \in Nat
      BY DEF IInv, TypeOK
    <3>4. unstable' = unstable + 1
      <4>1. unstable' # MaxUnstable
        BY <3>2, <3>3 DEF MaxUnstable
      <4> QED
        BY <2>1, <4>1 DEF Smaller
    <3>5. BootsLeft = MaxUnstable - unstable BY <2>1, <2>2 DEF BootsLeft
    <3>6. BootsLeft' = MaxUnstable - unstable' + 1
      BY <2>1, <3>1 DEF BootsLeft, MaxUnstable
    <3>7. BootsLeft' = BootsLeft
      BY <3>3, <3>4, <3>5, <3>6 DEF MaxUnstable
    <3>8. BootSteps' < BootSteps BY <2>1 DEF BootSteps
    <3> QED BY <2>1, <2>2, <3>1, <3>7, <3>8, StepNearer
  <2> QED BY <2>3, <2>4
<1> QED BY <1>1, <1>2, <1>3, <1>4

\* app_main behind the guard, up to the restart.
LEMMA LaterNearer ==
    ASSUME IInv, StartTasks \/ Connect \/ WifiWaitEnds \/ StartServices \/ EspRestart
    PROVE  Nearer
<1> USE BootAssumption DEF At, flash, history, wifi
<1>0. /\ unstable \in Nat /\ s_wifi_retry_num \in 0..WifiMaxRetry
      /\ link \in {"idle", "connecting", "up"}
  BY DEF IInv, TypeOK
<1>1. CASE Trouble BY <1>1, TroubleNearer
<1>2. CASE StartTasks /\ ~Trouble
  <2>1. /\ pc = "start" /\ pc' = IF s_safe_mode \/ ~provisioned THEN "halted" ELSE "connect"
        /\ UNCHANGED <<trouble, provisioned, unstable, s_safe_mode>>
    BY <1>2 DEF StartTasks
  <2>2. CASE pc' = "halted"
    <3>1. Stage' = 0 /\ Stage \in {1, 2} BY <2>1, <2>2 DEF Stage
    <3> QED BY <2>1, <3>1, StageNearer
  <2>3. CASE pc' = "connect"
    <3>1. ~s_safe_mode BY <2>1, <2>3
    <3>2. Stage' = 2 /\ Stage = 2 BY <2>1, <2>3, <3>1 DEF Stage
    <3>3. BootsLeft' = BootsLeft BY <2>1, <2>3, <3>2 DEF BootsLeft, MaxUnstable
    <3>4. BootSteps' < BootSteps BY <2>1, <2>3 DEF BootSteps
    <3> QED BY <2>1, <3>2, <3>3, <3>4, StepNearer
  <2> QED BY <2>1, <2>2, <2>3
<1>3. CASE Connect /\ ~Trouble
  <2>1. /\ pc = "connect" /\ pc' = "waiting" /\ link' = "connecting" /\ s_wifi_retry_num' = 0
        /\ UNCHANGED <<trouble, provisioned, unstable>>
    BY <1>3 DEF Connect
  <2>2. Stage' = 2 /\ Stage = 2 BY <2>1 DEF Stage
  <2>3. BootsLeft' = BootsLeft BY <2>1, <2>2 DEF BootsLeft, MaxUnstable
  <2>4. LinkSteps' = 2 + (WifiMaxRetry - 0) BY <2>1 DEF LinkSteps
  <2>5. BootSteps' < BootSteps BY <2>1, <2>4 DEF BootSteps
  <2> QED BY <2>1, <2>2, <2>3, <2>5, StepNearer
<1>4. CASE WifiWaitEnds /\ ~Trouble
  <2>1. /\ pc = "waiting"
        /\ UNCHANGED <<trouble, provisioned, unstable, link, s_wifi_retry_num>>
        /\ pc' = "services" \/ (pc' = "restarting" /\ boot_ok' = boot_ok)
    BY <1>4 DEF WifiWaitEnds
  <2>2. Stage = 2 /\ boot_ok = "none" BY <2>1 DEF Stage, IInv, Phases
  <2>3. CASE pc' = "services"
    <3>1. Stage' = 1 BY <2>3 DEF Stage
    <3> QED BY <2>1, <2>2, <3>1, StageNearer
  <2>4. CASE pc' = "restarting" /\ boot_ok' = boot_ok
    <3>1. Stage' = 2 BY <2>2, <2>4 DEF Stage
    <3>2. BootsLeft' = BootsLeft BY <2>1, <2>2, <2>4, <3>1 DEF BootsLeft, MaxUnstable
    <3>3. LinkSteps' = LinkSteps /\ LinkSteps \in Nat BY <1>0, <2>1 DEF LinkSteps
    <3>4. BootSteps' < BootSteps BY <2>1, <2>4, <3>3 DEF BootSteps
    <3> QED BY <2>1, <2>2, <3>1, <3>2, <3>4, StepNearer
  <2> QED BY <2>1, <2>3, <2>4
<1>5. CASE StartServices /\ ~Trouble
  <2>1. pc = "services" /\ pc' = "ready" /\ UNCHANGED <<trouble, provisioned>>
    BY <1>5 DEF StartServices
  <2>2. Stage' = 0 /\ Stage = 1 BY <2>1 DEF Stage
  <2> QED BY <2>1, <2>2, StageNearer
<1>6. CASE EspRestart
  <2>1. /\ pc = "restarting" /\ pc' = "off"
        /\ UNCHANGED <<trouble, provisioned, unstable>>
    BY <1>6 DEF EspRestart, Reset
  <2>2. Stage' = 2 /\ Stage \in {2, 3} BY <2>1 DEF Stage
  <2>3. CASE Stage = 3 BY <2>1, <2>2, <2>3, StageNearer
  <2>4. CASE Stage = 2
    <3>1. BootsLeft = MaxUnstable - unstable + 1 BY <2>1, <2>4 DEF BootsLeft
    <3>2. BootsLeft' = MaxUnstable - unstable BY <2>1, <2>2 DEF BootsLeft, MaxUnstable
    <3>3. BootsLeft' < BootsLeft BY <1>0, <3>1, <3>2 DEF MaxUnstable
    <3> QED BY <2>1, <2>2, <2>4, <3>3, StepNearer
  <2> QED BY <2>2, <2>3, <2>4
<1> QED BY <1>1, <1>2, <1>3, <1>4, <1>5, <1>6

\* The WiFi driver's events, which come only while there is a link or an attempt.
LEMMA EventsNearer == ASSUME IInv, Attempts, ~Settled, Events PROVE Nearer
<1> USE BootAssumption
<1>0. /\ s_wifi_retry_num \in 0..WifiMaxRetry
      /\ pc \in {"waiting", "services", "restarting"}
  BY DEF IInv, TypeOK, Phases, Settled, Events, GotIp, Retry, GiveUp, LinkLost
<1>1. UNCHANGED <<trouble, provisioned, unstable, pc, s_safe_mode, boot_ok>>
  BY DEF Events, GotIp, Retry, GiveUp, LinkLost, flash, history
<1>2. Stage' = Stage BY <1>1 DEF Stage
<1>3. BootsLeft' = BootsLeft BY <1>1, <1>2 DEF BootsLeft, MaxUnstable
<1>4. LinkSteps' < LinkSteps /\ LinkSteps \in Nat /\ LinkSteps' \in Nat
  <2>1. CASE GotIp BY <1>0, <2>1 DEF GotIp, LinkSteps
  <2>2. CASE Retry
    <3>1. link = "connecting" /\ link' = "connecting" /\ s_wifi_retry_num < WifiMaxRetry
          /\ s_wifi_retry_num' = s_wifi_retry_num + 1
      BY <2>2 DEF Retry, LinkLost, Attempts
    <3> QED BY <1>0, <3>1 DEF LinkSteps
  <2>3. CASE GiveUp BY <1>0, <2>3 DEF GiveUp, LinkLost, LinkSteps
  <2> QED BY <2>1, <2>2, <2>3 DEF Events
<1>5. BootSteps' < BootSteps BY <1>0, <1>1, <1>4 DEF BootSteps
<1> QED BY <1>1, <1>2, <1>3, <1>5, StepNearer

\* The steps of the others: trouble, a provisioning, a counter that is cleared
\* behind the wait, or nothing that counts.
LEMMA OthersNoFarther ==
    ASSUME IInv, ~Settled, ClearBootCount \/ ApChanges \/ Crash \/ User \/ UNCHANGED vars
    PROVE  Nearer \/ AsFar
<1> USE BootAssumption DEF flash, history, wifi
<1>1. CASE Trouble BY <1>1, TroubleNearer
<1>2. CASE ClearBootCount
  <2>1. /\ boot_ok = "waiting" /\ boot_ok' = "done"
        /\ UNCHANGED <<trouble, provisioned, pc, s_safe_mode, link, s_wifi_retry_num>>
    BY <1>2 DEF ClearBootCount
  <2>2. pc \in {"services", "restarting"}
    BY <2>1 DEF IInv, TypeOK, Phases, Settled
  <2>3. CASE pc = "restarting"
    <3>1. Stage = 3 /\ Stage' = 2 BY <2>1, <2>3 DEF Stage
    <3> QED BY <2>1, <3>1, StageNearer
  <2>4. CASE pc = "services"
    <3>1. Stage = 1 /\ Stage' = 1 BY <2>1, <2>4 DEF Stage
    <3>2. BootsLeft = 0 /\ BootsLeft' = 0 BY <3>1 DEF BootsLeft
    <3>3. LinkSteps' = LinkSteps BY <2>1 DEF LinkSteps
    <3>4. BootSteps' = BootSteps BY <2>1, <3>3 DEF BootSteps
    <3> QED BY <2>1, <3>1, <3>2, <3>4 DEF AsFar, TroublesLeft, ProvisionsLeft
  <2> QED BY <2>2, <2>3, <2>4
<1>3. CASE ApChanges \/ UNCHANGED vars
  <2>1. UNCHANGED <<trouble, provisioned, unstable, pc, s_safe_mode, boot_ok, link,
                    s_wifi_retry_num>>
    BY <1>3 DEF ApChanges, vars
  <2> QED BY <2>1 DEF AsFar, TroublesLeft, ProvisionsLeft, Stage, BootsLeft, BootSteps,
                      LinkSteps, MaxUnstable
<1>4. CASE (Crash \/ User) /\ ~Trouble
  <2>1. /\ provisioned = FALSE /\ provisioned' = TRUE /\ UNCHANGED trouble
    BY <1>4 DEF Crash, User, Reboot, FactoryReset, Provision, Commands, IInv, TypeOK
  <2>2. ProvisionsLeft = 1 /\ ProvisionsLeft' = 0 BY <2>1 DEF ProvisionsLeft
  <2> QED BY <2>1, <2>2 DEF Nearer, TroublesLeft
<1> QED BY <1>1, <1>2, <1>3, <1>4

\* Attempts holds at first and is kept.
LEMMA AttemptsKept == IInv /\ Attempts /\ [Next]_vars => Attempts'
<1> SUFFICES ASSUME IInv, Attempts, [Next]_vars PROVE Attempts'
  OBVIOUS
<1> USE DEF Attempts, flash, wifi, history, At
<1>1. CASE MemoryInit \/ FactoryResetButton \/ GuardBoot \/ StartTasks
  BY <1>1 DEF MemoryInit, FactoryResetButton, GuardBoot, StartTasks
<1>2. CASE Connect BY <1>2 DEF Connect
<1>3. CASE WifiWaitEnds \/ StartServices BY <1>3 DEF WifiWaitEnds, StartServices
<1>4. CASE EspRestart \/ Crash \/ Reboot \/ FactoryReset
  BY <1>4 DEF EspRestart, Crash, Reboot, FactoryReset, Reset
<1>5. CASE ClearBootCount \/ ApChanges \/ Provision \/ UNCHANGED vars
  BY <1>5 DEF ClearBootCount, ApChanges, Provision, vars
<1>6. CASE GotIp BY <1>6 DEF GotIp
<1>7. CASE Retry BY <1>7 DEF Retry, LinkLost
<1>8. CASE GiveUp BY <1>8 DEF GiveUp, LinkLost
<1> QED BY <1>1, <1>2, <1>3, <1>4, <1>5, <1>6, <1>7, <1>8 DEF Next, AppMain, Events, User

\* Both invariants hold in every reachable state.
LEMMA AttemptsInductive == Spec => []Attempts
<1>1. Init => Attempts BY DEF Init, Attempts
<1> QED BY <1>1, AttemptsKept, Inductive, PTL DEF Spec

\* app_main waits for the event bits only while an attempt to connect is under
\* way that will set one (local_admin_wifi_connect_from_store).
THEOREM WaitsAnswered == Spec => []WaitIsAnswered
<1>1. Attempts => WaitIsAnswered BY DEF Attempts, WaitIsAnswered
<1> QED BY <1>1, AttemptsInductive, PTL

\* Between two troubles a board boots only as often as the boot guard lets it and
\* ends at work or at a halt, for every limit. With the fairness of app_main and
\* of the driver that is why BootEnds holds.
THEOREM StartUpsAreBounded == Spec => StartUpShrinks
<1> DEFINE Act == ~Settled => /\ AppMain \/ Events => Nearer
                              /\ Nearer \/ AsFar
<1>1. ASSUME IInv, IInv', Attempts, [Next]_vars PROVE Act
  <2> SUFFICES ASSUME ~Settled PROVE (AppMain \/ Events => Nearer) /\ (Nearer \/ AsFar)
    OBVIOUS
  <2>1. AppMain => Nearer BY <1>1, EarlyNearer, LaterNearer DEF AppMain
  <2>2. Events => Nearer BY <1>1, EventsNearer
  <2>3. ClearBootCount \/ ApChanges \/ Crash \/ User \/ UNCHANGED vars => Nearer \/ AsFar
    BY <1>1, OthersNoFarther
  <2> QED BY <1>1, <2>1, <2>2, <2>3 DEF Next
<1>2. IInv /\ IInv' /\ Attempts /\ [Next]_vars => Act BY <1>1
<1> QED BY <1>2, Inductive, AttemptsInductive, PTL DEF Spec, StartUpShrinks

-----------------------------------------------------------------------------
(* Board: the signal of a sensor *)

\* A set of natural numbers has a smallest member.
LEMMA Smallest ==
    ASSUME NEW T, T \subseteq Nat, T # {} PROVE \E n \in T : \A m \in T : n <= m
<1>1. IsWellFoundedOn(OpToRel(<, Nat), Nat) BY NatLessThanWellFounded, Zenon
<1>2. PICK n \in T : \A m \in T : ~ (<<m, n>> \in OpToRel(<, Nat)) BY <1>1, WFMin, Zenon
<1>3. \A m \in T : ~(m < n) BY <1>2 DEF OpToRel
<1> QED BY <1>3

\* Min and Max choose the number that is one.
LEMMA MinIs == ASSUME NEW S, S \subseteq Int, NEW m \in S, \A n \in S : m <= n PROVE Min(S) = m
<1>1. \A n \in S : (\A y \in S : n <= y) => n = m OBVIOUS
<1> QED BY <1>1 DEF Min

\* A member that no other exceeds is what Max chooses.
LEMMA MaxIs == ASSUME NEW S, S \subseteq Int, NEW m \in S, \A n \in S : m >= n PROVE Max(S) = m
<1>1. \A n \in S : (\A y \in S : n >= y) => n = m OBVIOUS
<1> QED BY <1>1 DEF Max

\* Min chooses a member of a set of natural numbers.
LEMMA MinIn == ASSUME NEW S, S \subseteq Nat, S # {} PROVE Min(S) \in S
<1>1. PICK n \in S : \A m \in S : n <= m BY Smallest
<1>2. S \subseteq Int OBVIOUS
<1>3. Min(S) = n BY <1>1, <1>2, MinIs, Zenon
<1> QED BY <1>3

\* The times in Falls satisfy their recursion, as there is a function that does: a
\* sensor sends at most five bits.
LEMMA FallsAre ==
    ASSUME NEW a \in {2, 4}, NEW bits \in Seq({0, 1}), Len(bits) <= Bytes
    PROVE  LET F == Falls(a, bits)
           IN  /\ F \in [1..(Len(bits) + 1) -> Nat]
               /\ F[1] = a + 16
               /\ \A i \in 1..Len(bits) : F[i + 1] = F[i] + 5 + HighTime(bits[i])
<1>1. Len(bits) \in 0..5 /\ \A i \in 1..Len(bits) : bits[i] \in {0, 1}
  <2>1. Len(bits) \in Nat OBVIOUS
  <2>2. \A i \in 1..Len(bits) : bits[i] \in {0, 1} BY ElementOfSeq, Zenon
  <2>3. ASSUME NEW n \in Nat, n <= Bytes PROVE n \in 0..5 BY <2>3 DEF Bytes
  <2>4. Len(bits) \in 0..5 BY <2>1, <2>3, Zenon
  <2> QED BY <2>2, <2>4, Zenon
<1> DEFINE N == Len(bits)
<1>0. N \in 0..5 BY <1>1
<1> DEFINE H(i) == IF i <= N THEN 5 + HighTime(bits[i]) ELSE 0
<1>a. \A i \in 1..N : HighTime(bits[i]) \in Nat BY <1>1 DEF HighTime
<1>2. \A i \in 1..5 : H(i) \in Nat BY <1>a
<1>3. \A i \in 1..N : H(i) = 5 + HighTime(bits[i]) BY <1>1
<1> HIDE DEF N, H
<1>4. PICK w2 \in Nat : w2 = a + 16 + H(1) BY <1>2
<1>5. PICK w3 \in Nat : w3 = w2 + H(2) BY <1>2
<1>6. PICK w4 \in Nat : w4 = w3 + H(3) BY <1>2
<1>7. PICK w5 \in Nat : w5 = w4 + H(4) BY <1>2
<1>8. PICK w6 \in Nat : w6 = w5 + H(5) BY <1>2
<1> DEFINE w == <<a + 16, w2, w3, w4, w5, w6>>
           f == [i \in 1..(N + 1) |-> w[i]]
           Step(g) == [i \in 1..(N + 1) |->
                         IF i = 1 THEN a + 16 ELSE g[i - 1] + 5 + HighTime(bits[i - 1])]
<1>9. \A i \in 1..6 : w[i] \in Nat OBVIOUS
<1>10. w[1] = a + 16 /\ \A i \in 1..5 : w[i + 1] = w[i] + H(i)
  BY <1>4, <1>5, <1>6, <1>7, <1>8
<1> HIDE DEF w
<1>11. f \in [1..(N + 1) -> Nat] BY <1>0, <1>9
<1>12. ASSUME NEW i \in 1..(N + 1)
       PROVE  f[i] = IF i = 1 THEN a + 16 ELSE f[i - 1] + 5 + HighTime(bits[i - 1])
  <2>1. CASE i = 1 BY <1>10, <2>1
  <2>2. CASE i # 1
    <3>1. i - 1 \in 1..N /\ i - 1 \in 1..5 /\ i - 1 \in 1..(N + 1) BY <1>0, <2>2
    <3>2. w[(i - 1) + 1] = w[i - 1] + H(i - 1) BY <1>10, <3>1
    <3>3. (i - 1) + 1 = i BY <3>1
    <3>4. H(i - 1) = 5 + HighTime(bits[i - 1]) BY <1>3, <3>1
    <3>5. f[i] = w[i] /\ f[i - 1] = w[i - 1] BY <3>1
    <3> HIDE DEF f
    <3>6. i - 1 \in 1..6 BY <3>1
    <3>7. w[i - 1] \in Nat BY <1>9, <3>6
    <3>8. HighTime(bits[i - 1]) \in Nat BY <1>a, <3>1
    <3> QED BY <2>2, <3>2, <3>3, <3>4, <3>5, <3>7, <3>8
  <2> QED BY <2>1, <2>2
<1>13. f = Step(f) BY <1>12
<1> HIDE DEF f, Step
<1>14. LET g == CHOOSE g : g = Step(g) IN g = Step(g) BY <1>13
<1>15. Falls(a, bits) = Step(Falls(a, bits)) BY <1>14 DEF Falls, Step, N
<1> DEFINE F == Falls(a, bits)
<1>16. \A i \in 1..(N + 1) :
         F[i] = IF i = 1 THEN a + 16 ELSE F[i - 1] + 5 + HighTime(bits[i - 1])
  BY <1>15 DEF Step
<1>17. F = [i \in 1..(N + 1) |-> F[i]]
  <2>1. Step(F) = [i \in 1..(N + 1) |-> Step(F)[i]] BY DEF Step
  <2> QED BY <1>15, <2>1
<1> HIDE DEF F
<1>18. ASSUME NEW i \in 1..N PROVE F[i + 1] = F[i] + 5 + HighTime(bits[i])
  <2>1. i + 1 \in 1..(N + 1) /\ i + 1 # 1 /\ (i + 1) - 1 = i BY <1>0
  <2> QED BY <1>16, <2>1
<1>19. F[1] = a + 16
  <2>1. 1 \in 1..(N + 1) BY <1>0
  <2> QED BY <1>16, <2>1
<1>20. ASSUME NEW i \in 1..N, F[i] \in Nat PROVE F[i + 1] \in Nat
  <2>1. HighTime(bits[i]) \in Nat BY <1>a
  <2> QED BY <1>18, <1>20, <2>1
<1>21. \A i \in 1..(N + 1) : F[i] \in Nat
  <2>1. F[1] \in Nat BY <1>19
  <2>2. 1 <= N => F[2] \in Nat
    <3>1. 1 <= N => 1 \in 1..N BY <1>0
    <3>2. 1 + 1 = 2 OBVIOUS
    <3> QED BY <1>20, <2>1, <3>1, <3>2
  <2>3. 2 <= N => F[3] \in Nat
    <3>1. 2 <= N => 2 \in 1..N /\ 1 <= N BY <1>0
    <3>2. 2 + 1 = 3 OBVIOUS
    <3> QED BY <1>20, <2>2, <3>1, <3>2
  <2>4. 3 <= N => F[4] \in Nat
    <3>1. 3 <= N => 3 \in 1..N /\ 2 <= N BY <1>0
    <3>2. 3 + 1 = 4 OBVIOUS
    <3> QED BY <1>20, <2>3, <3>1, <3>2
  <2>5. 4 <= N => F[5] \in Nat
    <3>1. 4 <= N => 4 \in 1..N /\ 3 <= N BY <1>0
    <3>2. 4 + 1 = 5 OBVIOUS
    <3> QED BY <1>20, <2>4, <3>1, <3>2
  <2>6. 5 <= N => F[6] \in Nat
    <3>1. 5 <= N => 5 \in 1..N /\ 4 <= N BY <1>0
    <3>2. 5 + 1 = 6 OBVIOUS
    <3> QED BY <1>20, <2>5, <3>1, <3>2
  <2>7. ASSUME NEW i \in 1..(N + 1)
        PROVE  i = 1 \/ (i = 2 /\ 1 <= N) \/ (i = 3 /\ 2 <= N) \/ (i = 4 /\ 3 <= N)
               \/ (i = 5 /\ 4 <= N) \/ (i = 6 /\ 5 <= N)
    BY <1>0
  <2> QED BY <2>1, <2>2, <2>3, <2>4, <2>5, <2>6, <2>7
<1>22. F \in [1..(N + 1) -> Nat] BY <1>17, <1>21
<1> QED BY <1>18, <1>19, <1>22 DEF F, N

\* The falls follow one another, at least 80 us apart.
Follow(F, n) == /\ F \in [1..n -> Nat]
                /\ \A i \in 1..(n - 1) : F[i] + 8 <= F[i + 1] /\ F[i + 1] <= F[i] + 12

\* The recursive function Falls has its recursion equations.
LEMMA FallsFollow ==
    ASSUME NEW a \in {2, 4}, NEW bits \in Seq({0, 1}), Len(bits) <= Bytes
    PROVE  /\ Follow(Falls(a, bits), Len(bits) + 1)
           /\ Falls(a, bits)[1] = a + 16
<1> DEFINE F == Falls(a, bits)
<1>0. Len(bits) \in Nat OBVIOUS
<1>1. /\ F \in [1..(Len(bits) + 1) -> Nat] /\ F[1] = a + 16
      /\ \A i \in 1..Len(bits) : F[i + 1] = F[i] + 5 + HighTime(bits[i])
  BY FallsAre
<1> HIDE DEF F
<1>2. ASSUME NEW i \in 1..((Len(bits) + 1) - 1) PROVE F[i] + 8 <= F[i + 1] /\ F[i + 1] <= F[i] + 12
  <2>1. i \in 1..Len(bits) /\ i \in 1..(Len(bits) + 1) BY <1>0
  <2>2. F[i + 1] = F[i] + 5 + HighTime(bits[i]) /\ F[i] \in Nat BY <1>1, <2>1
  <2>3. bits[i] \in {0, 1} BY <2>1, ElementOfSeq, Zenon
  <2>4. HighTime(bits[i]) \in {3, 7} BY <2>3 DEF HighTime
  <2> HIDE <1>1
  <2> QED BY <2>2, <2>4
<1>3. F \in [1..(Len(bits) + 1) -> Nat] /\ F[1] = a + 16 BY <1>1
<1>4. Follow(F, Len(bits) + 1) BY <1>2, <1>3 DEF Follow
<1> QED BY <1>3, <1>4 DEF F

\* So each comes 80 us or more after any before it, and none later than this.
LEMMA FollowFar ==
    ASSUME NEW n \in 1..6, NEW F, Follow(F, n), F[1] \in 18..20
    PROVE  /\ \A i, j \in 1..n : i < j => F[i] + 8 <= F[j]
           /\ \A i \in 1..n : F[i] \in 18..80
<1>1. \A i \in 1..n : F[i] \in Nat BY DEF Follow
<1>2. \A i \in 1..5 : i < n => F[i] + 8 <= F[i + 1] /\ F[i + 1] <= F[i] + 12
  <2>1. \A i \in 1..5 : i < n => i \in 1..(n - 1) OBVIOUS
  <2> QED BY <2>1 DEF Follow
<1>3. n >= 2 => F[1] + 8 <= F[2] /\ F[2] <= F[1] + 12 BY <1>2
<1>4. n >= 3 => F[2] + 8 <= F[3] /\ F[3] <= F[2] + 12 BY <1>2
<1>5. n >= 4 => F[3] + 8 <= F[4] /\ F[4] <= F[3] + 12 BY <1>2
<1>6. n >= 5 => F[4] + 8 <= F[5] /\ F[5] <= F[4] + 12 BY <1>2
<1>7. n >= 6 => F[5] + 8 <= F[6] /\ F[6] <= F[5] + 12 BY <1>2
<1>8. \A i \in 1..n : i \in 1..6 OBVIOUS
<1>9. ASSUME NEW i \in 1..n PROVE F[i] \in 18..80
  BY <1>1, <1>3, <1>4, <1>5, <1>6, <1>7, <1>8
<1>10. ASSUME NEW i \in 1..n, NEW j \in 1..n, i < j PROVE F[i] + 8 <= F[j]
  <2>1. CASE i = 1 BY <1>1, <1>3, <1>4, <1>5, <1>6, <1>7, <1>8, <1>10, <2>1
  <2>2. CASE i = 2 BY <1>1, <1>3, <1>4, <1>5, <1>6, <1>7, <1>8, <1>10, <2>2
  <2>3. CASE i = 3 BY <1>1, <1>3, <1>4, <1>5, <1>6, <1>7, <1>8, <1>10, <2>3
  <2>4. CASE i = 4 BY <1>1, <1>3, <1>4, <1>5, <1>6, <1>7, <1>8, <1>10, <2>4
  <2>5. CASE i >= 5 BY <1>1, <1>3, <1>4, <1>5, <1>6, <1>7, <1>8, <1>10, <2>5
  <2> QED BY <1>8, <2>1, <2>2, <2>3, <2>4, <2>5
<1> QED BY <1>9, <1>10

\* A line that is low for 80 us from a on and for 50 us after each of n falls.
Signal(a, n, F, L) ==
    /\ n \in 1..6 /\ F[1] = a + 16 /\ \A i \in 1..n : F[i] \in 18..80 /\ F[i] <= F[n]
    /\ L \subseteq Nat
    /\ \A u \in a..(a + 7) : u \in L
    /\ \A u \in (a + 8)..(a + 15) : u \notin L
    /\ \A i \in 1..n : \A u \in F[i]..(F[i] + 4) : u \in L
    /\ \A i \in 1..(n - 1) : \A u \in (F[i] + 5)..(F[i + 1] - 1) : u \notin L
    /\ \A u \in Nat : u > F[n] + 4 => u \notin L

\* A line that falls at the times of F is a signal as the other lemmas know it.
LEMMA LowTimes ==
    ASSUME NEW a \in {2, 4}, NEW n \in 1..6, NEW F, Follow(F, n), F[1] = a + 16, NEW L,
           \A u : u \in L <=> u \in a..(a + 7) \/ \E i \in 1..n : u \in F[i]..(F[i] + 4)
    PROVE  Signal(a, n, F, L)
<1>1. F[1] \in 18..20 OBVIOUS
<1>5. /\ \A i, j \in 1..n : i < j => F[i] + 8 <= F[j]
      /\ \A i \in 1..n : F[i] \in 18..80
  BY <1>1, FollowFar
<1>6. \A i \in 1..n : F[i] >= a + 16
  <2>1. 1 \in 1..n OBVIOUS
  <2> QED BY <1>1, <1>5, <2>1
<1>7. L \subseteq Nat BY <1>5
<1>8. \A u \in a..(a + 7) : u \in L OBVIOUS
<1>9. \A u \in (a + 8)..(a + 15) : u \notin L BY <1>5, <1>6
<1>10. \A i \in 1..n : \A u \in F[i]..(F[i] + 4) : u \in L OBVIOUS
<1>11. ASSUME NEW i \in 1..(n - 1), NEW u \in (F[i] + 5)..(F[i + 1] - 1)
       PROVE  u \notin L
  <2>1. i \in 1..n /\ i + 1 \in 1..n OBVIOUS
  <2>2. F[i] \in Nat /\ F[i + 1] \in Nat /\ F[i] >= a + 16 BY <1>5, <1>6, <2>1
  <2>3. ASSUME NEW j \in 1..n, u \in F[j]..(F[j] + 4) PROVE FALSE
    <3>1. CASE j <= i
      <4>1. F[j] <= F[i]
        <5>1. F[j] \in Nat BY <1>5
        <5>2. j < i => F[j] + 8 <= F[i] BY <1>5, <2>1
        <5> QED BY <2>2, <3>1, <5>1, <5>2
      <4> QED BY <1>5, <2>2, <2>3, <4>1
    <3>2. CASE j > i
      <4>1. F[i + 1] <= F[j] BY <1>5, <2>1, <3>2
      <4> QED BY <1>5, <2>2, <2>3, <4>1
    <3> QED BY <3>1, <3>2
  <2>4. u \notin a..(a + 7) BY <2>2
  <2> QED BY <2>3, <2>4
<1>12. ASSUME NEW u \in Nat, u > F[n] + 4 PROVE u \notin L
  <2>1. n \in 1..n OBVIOUS
  <2>2. \A i \in 1..n : F[i] <= F[n] /\ F[i] \in Nat BY <1>5, <2>1
  <2>3. F[n] >= a + 16 BY <1>6, <2>1
  <2> QED BY <1>12, <2>2, <2>3
<1>13. \A i \in 1..n : F[i] <= F[n]
  <2>1. n \in 1..n /\ \A i \in 1..n : F[i] \in Nat BY <1>5
  <2> QED BY <1>5, <2>1
<1> QED BY <1>5, <1>7, <1>8, <1>9, <1>10, <1>11, <1>12, <1>13 DEF Signal

\* The line between the instants: low and high after the start signal, low for 50 us
\* at each fall and high until the next, or for good.
LEMMA Line ==
    ASSUME NEW a \in {2, 4}, NEW bits \in Seq({0, 1}), Len(bits) <= Bytes
    PROVE  /\ Signal(a, Len(bits) + 1, Falls(a, bits), Low(a, bits))
           /\ \A i \in 1..Len(bits) :
                 Falls(a, bits)[i + 1] = Falls(a, bits)[i] + 5 + HighTime(bits[i])
<1> DEFINE F == Falls(a, bits)
           n == Len(bits) + 1
<1>1. n \in 1..6
  <2>1. ASSUME NEW l \in Nat, l <= Bytes PROVE l + 1 \in 1..6 BY <2>1 DEF Bytes
  <2>2. Len(bits) \in Nat OBVIOUS
  <2> QED BY <2>1, <2>2, Zenon
<1>2. Follow(F, n) /\ F[1] = a + 16 BY FallsFollow
<1>3. \A i \in 1..Len(bits) : F[i + 1] = F[i] + 5 + HighTime(bits[i]) BY FallsAre
<1>4. \A u : u \in Low(a, bits) <=> u \in a..(a + 7) \/ \E i \in 1..n : u \in F[i]..(F[i] + 4)
  BY DEF Low
<1> HIDE DEF F, n
<1>5. Signal(a, n, F, Low(a, bits)) BY <1>1, <1>2, <1>4, LowTimes, Zenon
<1> QED BY <1>3, <1>5, Zenon DEF F, n

-----------------------------------------------------------------------------
(* Board: the inductive invariant *)

DhtSteps == {"interval", "answer", "answer_high", "fall", "rise", "sample", "check", "failed"}
I2cSteps == {"i2c_init", "i2c_transfer", "i2c_scan"}
DhtCalls == [tool : {"dht"}, pin : Pins, model : Models, retries : 1..MaxRetries]
I2cCalls == [tool : {"transfer", "scan"}, pins : Pins \X Pins]

\* BoardTypeOK in parts: the clock and the times it gave, the call, the capture and the
\* driver.
ClockOK == /\ now \in Nat /\ s_last_read \in [Pins -> 0..now]
           /\ ended \in [Pins -> {Never} \cup 0..now]
CallOK == /\ step \in {"idle"} \cup DhtSteps \cup I2cSteps
          /\ step = "idle" => call = NoCall /\ attempt = 0
          /\ step \in DhtSteps => call \in DhtCalls /\ attempt \in 0..(call.retries - 1)
          /\ step \in I2cSteps => call \in I2cCalls /\ attempt = 0
CaptureOK == /\ t \in Nat /\ data \in Seq({0, 1}) /\ Len(data) <= Bytes
             /\ step \in {"answer", "answer_high"} => data = <<>>
             /\ step \in {"fall", "rise", "sample"} => Len(data) < Bytes
             /\ step = "check" => Len(data) = Bytes
DriverOK == /\ address \in 0..Addresses
            /\ driver = IF step \in {"i2c_transfer", "i2c_scan"} THEN call.pins ELSE <<>>

\* A capture that ended is the last successful one of its pin, or an earlier attempt of
\* the call, after which the interval has passed but for half a tick.
Spaced ==
    /\ \A p \in Pins : ended[p] # Never =>
          \/ s_last_read[p] = ended[p] /\ ended[p] # 0
          \/ attempt > 0 /\ p = call.pin
    /\ step = "interval" /\ attempt > 0 =>
          now - ended[call.pin] >= 2 * MinInterval[call.model] - 1

TimeInv == ClockOK /\ CallOK /\ CaptureOK /\ DriverOK /\ Spaced

\* The sensor sends bits, whole or until it hangs, and may leave the line low then.
Sends(a, bits) ==
    /\ bits \in Seq({0, 1}) /\ Len(bits) <= Bytes
    /\ sensor.frame \in Frames
    /\ \/ bits = sensor.frame
       \/ ~sensor.good /\ bits \in Turned(sensor.frame)
       \/ ~sensor.good /\ \E n \in 0..(Bytes - 1) : bits = SubSeq(sensor.frame, 1, n)
    /\ \/ sensor.low = Low(a, bits)
       \/ Len(bits) < Bytes /\ sensor.low = HangsLow(Low(a, bits))

\* Where a capture is in the signal when each of its steps came within 10 us: the bits it has
\* are the first that the sensor sends, and a line that stays high is a 1.
Follows(a, bits) ==
    LET F == Falls(a, bits)
        n == Len(data)
    IN  /\ \A i \in 1..n : i <= Len(bits) => data[i] = bits[i]
        /\ n > Len(bits) => n = Len(bits) + 1 /\ data[n] = 1
        /\ n > Len(bits) \/ (step = "sample" /\ n = Len(bits)) => sensor.low = Low(a, bits)
        /\ step = "answer" => t \in 4..5
        /\ step = "answer_high" => t \in 4..6
        /\ step = "fall" /\ n = 0 => t \in (a + 8)..(a + 9)
        /\ step = "fall" /\ n > 0 => t \in (F[n] + 9)..(F[n] + 11)
        /\ step = "rise" => n <= Len(bits) /\ t \in F[n + 1]..(F[n + 1] + 4)
        /\ step = "sample" => n <= Len(bits) /\ t \in (F[n + 1] + 5)..(F[n + 1] + 6)

Tracked == \/ sensor \in Absent /\ step = "answer"
           \/ \E a \in {2, 4}, bits \in Seq({0, 1}) : Sends(a, bits) /\ Follows(a, bits)

SignalInv == /\ punctual /\ step \in DhtSteps \ {"interval", "failed"} => Tracked
             /\ ReadingIsTheSensors

-----------------------------------------------------------------------------
(* Board: types and times *)

\* The time invariant contains the type invariant of the tools.
LEMMA TimeParts == TimeInv => BoardTypeOK
<1> SUFFICES ASSUME TimeInv PROVE BoardTypeOK OBVIOUS
<1> USE DEF TimeInv
<1>1. now \in Nat /\ s_last_read \in [Pins -> 0..now] /\ ended \in [Pins -> {Never} \cup 0..now]
  BY DEF ClockOK
<1>2. attempt \in 0..(MaxRetries - 1)
  <2>1. step = "idle" \/ step \in DhtSteps \/ step \in I2cSteps BY DEF CallOK
  <2>2. CASE step \in DhtSteps
    <3>1. call \in DhtCalls /\ attempt \in 0..(call.retries - 1) BY <2>2 DEF CallOK
    <3> QED BY <3>1, BoardAssumption DEF DhtCalls
  <2>3. CASE step = "idle" \/ step \in I2cSteps
    <3>1. attempt = 0 BY <2>3 DEF CallOK
    <3> QED BY <3>1, BoardAssumption
  <2> QED BY <2>1, <2>2, <2>3
<1>3. /\ step \in {"idle", "interval", "answer", "answer_high", "fall", "rise", "sample", "check",
                   "failed", "i2c_init", "i2c_transfer", "i2c_scan"}
      /\ step = "idle" <=> call = NoCall
  BY DEF CallOK, DhtSteps, I2cSteps, DhtCalls, I2cCalls, NoCall
<1>4. t \in Nat /\ data \in Seq({0, 1}) /\ Len(data) <= Bytes BY DEF CaptureOK
<1> QED BY <1>1, <1>2, <1>3, <1>4, Zenon DEF BoardTypeOK, DriverOK

\* It holds when the tools start.
LEMMA InitTime == BoardInit => TimeInv
<1> SUFFICES ASSUME BoardInit PROVE TimeInv OBVIOUS
<1> USE BoardAssumption DEF BoardInit
<1>1. ClockOK BY DEF ClockOK, Never
<1>2. CallOK BY DEF CallOK, DhtSteps, I2cSteps
<1>3. CaptureOK BY EmptySeq DEF CaptureOK, Bytes
<1>4. DriverOK BY DEF DriverOK
<1>5. Spaced BY DEF Spaced
<1> QED BY <1>1, <1>2, <1>3, <1>4, <1>5 DEF TimeInv

\* The clock moves on and no capture ends.
LEMMA LaterClock ==
    ASSUME ClockOK, now' \in Nat, now' >= now, UNCHANGED <<s_last_read, ended>>
    PROVE  ClockOK'
<1>1. \A n \in 0..now : n \in 0..(now') BY DEF ClockOK
<1>2. s_last_read' \in [Pins -> 0..(now')] BY <1>1 DEF ClockOK
<1>3. ended' \in [Pins -> {Never} \cup 0..(now')] BY <1>1 DEF ClockOK
<1> QED BY <1>2, <1>3 DEF ClockOK

\* vTaskDelay takes more than a tick less than what it is given, and not more.
LEMMA WokenLater ==
    ASSUME now \in Nat, NEW n \in Nat
    PROVE  /\ Woken(n) \in Nat
           /\ Woken(n) >= now + 2 * n - 1 /\ Woken(n) <= now + 2 * n
<1>1. now \div 2 \in Nat /\ 2 * (now \div 2) <= now /\ now <= 2 * (now \div 2) + 1 OBVIOUS
<1>2. PICK h \in Nat : h = now \div 2 BY <1>1
<1>3. Woken(n) = (h + n) * 2 BY <1>2 DEF Woken
<1> QED BY <1>1, <1>2, <1>3

\* Intervals between captures are positive.
LEMMA MaxTimes == \A m \in Models : MinInterval[m] \in Nat \ {0}
BY BoardAssumption

\* The interval has passed at the end of the wait, but for half a tick.
LEMMA IntervalPasses ==
    ASSUME TimeInv, step = "interval"
    PROVE  /\ AfterInterval \in Nat /\ AfterInterval >= now
           /\ ended[call.pin] # Never =>
                 AfterInterval - ended[call.pin] > 2 * MinInterval[call.model] - 2
<1> DEFINE p == call.pin
           min == MinInterval[call.model]
           last == s_last_read[p]
           remaining == 2 * min - (now - last)
<1>1. p \in Pins /\ min \in Nat
  BY MaxTimes DEF TimeInv, CallOK, DhtSteps, DhtCalls
<1>2. now \in Nat /\ last \in 0..now /\ ended[p] \in {Never} \cup 0..now
  BY <1>1 DEF TimeInv, ClockOK
<1>3. AfterInterval = IF last = 0 \/ remaining <= 0 THEN now ELSE Woken((remaining + 1) \div 2)
  BY DEF AfterInterval
<1>4. ended[p] # Never => (last = ended[p] /\ ended[p] # 0) \/ now - ended[p] >= 2 * min - 1
  BY <1>1 DEF TimeInv, Spaced
<1> HIDE DEF p, min, last
<1>5. CASE last = 0 \/ remaining <= 0
  <2>1. AfterInterval = now BY <1>3, <1>5
  <2>2. ended[p] # Never => now - ended[p] > 2 * min - 2
    BY <1>1, <1>2, <1>4, <1>5 DEF Never
  <2> QED BY <1>2, <2>1, <2>2 DEF p, min
<1>6. CASE last # 0 /\ remaining > 0
  <2>1. PICK r \in Nat : r = remaining /\ r > 0 BY <1>1, <1>2, <1>6
  <2>2. PICK n \in Nat : n = (r + 1) \div 2 /\ 2 * n >= r
    BY <2>1
  <2>3. AfterInterval = Woken(n) BY <1>3, <1>6, <2>1, <2>2
  <2>4. AfterInterval \in Nat /\ AfterInterval >= now + 2 * n - 1 BY <1>2, <2>3, WokenLater
  <2>5. n >= 1 BY <2>1, <2>2
  <2>6. ended[p] # Never => AfterInterval - ended[p] > 2 * min - 2
    BY <1>1, <1>2, <1>4, <2>1, <2>2, <2>4, <2>5 DEF Never
  <2> QED BY <1>2, <2>2, <2>4, <2>5, <2>6 DEF p, min
<1> QED BY <1>2, <1>1, <1>5, <1>6

\* Nothing happens but that time passes, between calls.
LEMMA IdleTime == ASSUME TimeInv, Pass \/ \E ticks \in {1} : delay(ticks) PROVE TimeInv'
<1> USE DEF TimeInv
<1>1. now' \in Nat /\ now' >= now
  <2>1. now \in Nat BY DEF ClockOK
  <2>2. CASE Pass BY <2>1, <2>2 DEF Pass
  <2>3. CASE \E ticks \in {1} : delay(ticks)
    <3>1. now' = Woken(1) BY <2>3 DEF delay
    <3> QED BY <2>1, <3>1, WokenLater
  <2> QED BY <2>2, <2>3
<1>2. /\ UNCHANGED <<s_last_read, step, call, attempt, t, data, ended, driver, address>>
      /\ step = "idle"
  BY DEF Pass, delay, Idle, dht
<1>3. ClockOK' BY <1>1, <1>2, LaterClock
<1>4. CallOK' BY <1>2 DEF CallOK
<1>5. CaptureOK' BY <1>2 DEF CaptureOK
<1>6. DriverOK' BY <1>2 DEF DriverOK
<1>7. Spaced' BY <1>2 DEF Spaced
<1> QED BY <1>3, <1>4, <1>5, <1>6, <1>7

\* A call begins.
LEMMA CallDhtTime ==
    ASSUME TimeInv, NEW pin \in SensorPins, NEW model \in Models, NEW retries \in 1..MaxRetries,
           CallDht(pin, model, retries)
    PROVE  TimeInv'
<1> USE BoardAssumption DEF TimeInv, CallDht, dht
<1>0. pin \in Pins BY DEF Pins, Allowed
<1>1. ClockOK' BY DEF ClockOK
<1>2. CallOK'
  <2>1. call' \in DhtCalls BY <1>0 DEF DhtCalls
  <2>2. call'.retries = retries BY Zenon
  <2>3. attempt' \in 0..(call'.retries - 1) BY <2>2
  <2> QED BY <2>1, <2>3 DEF CallOK, DhtSteps, I2cSteps
<1>3. CaptureOK' BY DEF CaptureOK
<1>4. DriverOK' BY DEF DriverOK
<1>5. Spaced'
  <2>1. attempt = 0 BY DEF CallOK
  <2> QED BY <2>1 DEF Spaced
<1> QED BY <1>1, <1>2, <1>3, <1>4, <1>5

\* An I2C call leaves the times of captures alone.
LEMMA CallI2cTime ==
    ASSUME TimeInv, NEW tool \in {"transfer", "scan"}, NEW sda \in Pins, NEW scl \in Pins,
           CallI2c(tool, sda, scl)
    PROVE  TimeInv'
<1> USE DEF TimeInv, CallI2c, Idle, dht
<1>1. ClockOK' BY DEF ClockOK
<1>2. CallOK' BY DEF CallOK, DhtSteps, I2cSteps, I2cCalls
<1>3. CaptureOK' BY DEF CaptureOK
<1>4. DriverOK' BY DEF DriverOK
<1>5. Spaced' BY DEF Spaced, CallOK
<1> QED BY <1>1, <1>2, <1>3, <1>4, <1>5

\* A function on the first n numbers is a sequence.
LEMMA FunctionIsSeq ==
    ASSUME NEW S, NEW n \in Nat, NEW f \in [1..n -> S] PROVE f \in Seq(S) /\ Len(f) = n
<1>1. f = [i \in 1..n |-> f[i]] OBVIOUS
<1>2. [i \in 1..n |-> f[i]] \in Seq(S) OBVIOUS
<1>3. f \in Seq(S) BY <1>1, <1>2, Zenon
<1>4. DOMAIN f = 1..Len(f) /\ Len(f) \in Nat /\ DOMAIN f = 1..n BY <1>3, LenProperties
<1> QED BY <1>3, <1>4

\* The start signal marks the time of the capture, once the interval is over.
LEMMA BeginsTime ==
    ASSUME TimeInv, CaptureBegins, step' \in {"answer", "check", "failed"}, CaptureOK'
    PROVE  TimeInv'
<1> USE BoardAssumption DEF CaptureBegins
<1>0. now' \in Nat /\ now' >= now BY IntervalPasses
<1>1. ClockOK' BY <1>0, LaterClock DEF TimeInv
<1>2. CallOK' BY DEF TimeInv, CallOK, DhtSteps, I2cSteps
<1>4. DriverOK' BY DEF TimeInv, DriverOK
<1>5. Spaced' BY DEF TimeInv, Spaced
<1> QED BY <1>1, <1>2, <1>4, <1>5 DEF TimeInv

\* A capture begins without bits.
LEMMA StartTime == ASSUME TimeInv, Start PROVE TimeInv'
<1>1. CaptureBegins /\ t' \in 4..5 /\ data' = <<>> /\ step' = "answer" BY DEF Start
<1>2. CaptureOK' BY <1>1, EmptySeq DEF CaptureOK, Bytes
<1> QED BY <1>1, <1>2, BeginsTime

\* One that slips has five bits or fails.
LEMMA SlipTime == ASSUME TimeInv, Slip PROVE TimeInv'
<1>1. CaptureBegins /\ t' = 0 BY DEF Slip
<1>2. CASE step' = "check" /\ data' \in [1..Bytes -> {0, 1}]
  <2>1. Bytes \in Nat /\ Bytes <= Bytes BY DEF Bytes
  <2>2. data' \in Seq({0, 1}) /\ Len(data') = Bytes BY <1>2, <2>1, FunctionIsSeq, Zenon
  <2>3. CaptureOK' BY <1>1, <1>2, <2>1, <2>2 DEF CaptureOK
  <2> QED BY <1>1, <1>2, <2>3, BeginsTime
<1>3. CASE step' = "failed" /\ data' = <<>>
  <2>1. CaptureOK' BY <1>1, <1>3, EmptySeq DEF CaptureOK, Bytes
  <2> QED BY <1>1, <1>3, <2>1, BeginsTime
<1> QED BY <1>2, <1>3 DEF Slip

\* In a capture the scheduler's clock stands still.
LEMMA CaptureTime ==
    ASSUME TimeInv, NEW at \in DhtSteps, InCapture(at), step' \in DhtSteps \ {"interval"},
           CaptureOK'
    PROVE  TimeInv'
<1> USE DEF TimeInv, InCapture
<1>1. ClockOK' BY DEF ClockOK
<1>2. CallOK' BY DEF CallOK, DhtSteps, I2cSteps
<1>3. DriverOK' BY DEF DriverOK, DhtSteps
<1>4. Spaced' BY DEF Spaced
<1> QED BY <1>1, <1>2, <1>3, <1>4

\* A wait ends at a time, with the bits as they were.
LEMMA WaitTime ==
    ASSUME CaptureOK, NEW level \in {0, 1}, NEW next, WaitFor(level, next)
    PROVE  t' \in Nat /\ data' = data /\ step' \in {next, "failed"}
<1> USE BoardAssumption DEF WaitFor, Comes
<1>1. CASE Found(level) = {} BY <1>1 DEF CaptureOK
<1>2. CASE Found(level) # {}
  <2>1. Found(level) \subseteq Nat BY DEF CaptureOK, Found
  <2>2. Min(Found(level)) \in Nat BY <1>2, <2>1, MinIn
  <2> QED BY <1>2, <2>2
<1> QED BY <1>1, <1>2

\* The waits for a level move within one capture.
LEMMA WaitsTime == ASSUME TimeInv, AnswerLow \/ AnswerHigh \/ Fell \/ Rise PROVE TimeInv'
<1>0. CaptureOK BY DEF TimeInv
<1>1. CASE AnswerLow
  <2>1. InCapture("answer") /\ WaitFor(0, "answer_high") BY <1>1 DEF AnswerLow
  <2>2. t' \in Nat /\ data' = data /\ step' \in {"answer_high", "failed"}
    BY <1>0, <2>1, WaitTime
  <2>3. CaptureOK' BY <1>0, <2>1, <2>2 DEF CaptureOK, InCapture
  <2> QED BY <2>1, <2>2, <2>3, CaptureTime DEF DhtSteps
<1>2. CASE AnswerHigh
  <2>1. InCapture("answer_high") /\ WaitFor(1, "fall") BY <1>2 DEF AnswerHigh
  <2>2. t' \in Nat /\ data' = data /\ step' \in {"fall", "failed"} BY <1>0, <2>1, WaitTime
  <2>3. CaptureOK' BY <1>0, <2>1, <2>2, EmptySeq DEF CaptureOK, InCapture, Bytes
  <2> QED BY <2>1, <2>2, <2>3, CaptureTime DEF DhtSteps
<1>3. CASE Fell
  <2>1. InCapture("fall") /\ WaitFor(0, "rise") BY <1>3 DEF Fell
  <2>2. t' \in Nat /\ data' = data /\ step' \in {"rise", "failed"} BY <1>0, <2>1, WaitTime
  <2>3. CaptureOK' BY <1>0, <2>1, <2>2 DEF CaptureOK, InCapture
  <2> QED BY <2>1, <2>2, <2>3, CaptureTime DEF DhtSteps
<1>4. CASE Rise
  <2>1. InCapture("rise") /\ WaitFor(1, "sample") BY <1>4 DEF Rise
  <2>2. t' \in Nat /\ data' = data /\ step' \in {"sample", "failed"} BY <1>0, <2>1, WaitTime
  <2>3. CaptureOK' BY <1>0, <2>1, <2>2 DEF CaptureOK, InCapture
  <2> QED BY <2>1, <2>2, <2>3, CaptureTime DEF DhtSteps
<1> QED BY <1>1, <1>2, <1>3, <1>4

\* A sample adds a bit.
LEMMA SampleData ==
    ASSUME CaptureOK, Sample
    PROVE  /\ t' \in (t + 4)..(t + 5) /\ Len(data) \in 0..4 /\ Len(data') = Len(data) + 1
           /\ data'[Len(data) + 1] = Level(t')
           /\ \A i \in 1..Len(data) : data'[i] = data[i]
           /\ data' \in Seq({0, 1})
           /\ step' = IF Len(data') < Bytes THEN "fall" ELSE "check"
<1>1. data' = Append(data, Level(t')) /\ data \in Seq({0, 1}) BY DEF Sample, CaptureOK
<1>2. Level(t') \in {0, 1} BY DEF Level
<1>3. Len(data) \in 0..4
  <2>1. ASSUME NEW l \in Nat, l < Bytes PROVE l \in 0..4 BY <2>1 DEF Bytes
  <2>2. Len(data) \in Nat /\ Len(data) < Bytes BY <1>1 DEF Sample, InCapture, CaptureOK
  <2> QED BY <2>1, <2>2, Zenon
<1>4. /\ Len(data') = Len(data) + 1 /\ data'[Len(data) + 1] = Level(t')
      /\ \A i \in 1..Len(data) : data'[i] = data[i]
      /\ data' \in Seq({0, 1})
  BY <1>1, <1>2, AppendProperties
<1>5. /\ t' \in (t + 4)..(t + 5)
      /\ step' = IF Len(data') < Bytes THEN "fall" ELSE "check"
  BY DEF Sample, Comes, CaptureOK
<1> QED BY <1>3, <1>4, <1>5

\* A sampled bit adds to the frame, and keeps it within its length.
LEMMA SampleTime == ASSUME TimeInv, Sample PROVE TimeInv'
<1>0. CaptureOK BY DEF TimeInv
<1>1. InCapture("sample") BY DEF Sample
<1>2. PICK l \in 0..4 : l = Len(data) BY <1>0, SampleData
<1>3. Len(data') = l + 1 /\ step' = IF l + 1 < 5 THEN "fall" ELSE "check"
  BY <1>0, <1>2, SampleData DEF Bytes
<1>4. t' \in Nat
  BY <1>0, SampleData, BoardAssumption DEF CaptureOK
<1>5. data' \in Seq({0, 1}) BY <1>0, SampleData
<1>6. CaptureOK' BY <1>3, <1>4, <1>5 DEF CaptureOK, Bytes
<1>7. step' \in {"fall", "check"} BY <1>3
<1> QED BY <1>1, <1>6, <1>7, CaptureTime DEF DhtSteps

\* When the capture ends is later.
LEMMA EndsLater ==
    ASSUME now \in Nat PROVE \A end \in CaptureEnds : end \in Nat /\ end > now
<1>1. StartLow \in Nat /\ StartLow >= 1 BY BoardAssumption
<1>2. Woken(StartLow) \in Nat /\ Woken(StartLow) >= now + 2 * StartLow - 1
  BY <1>1, WokenLater
<1>3. ASSUME NEW end \in CaptureEnds PROVE end \in Nat /\ end > now
  <2>1. end = Woken(StartLow) \/ end = Woken(StartLow) + 1 BY DEF CaptureEnds
  <2> QED BY <1>1, <1>2, <2>1
<1> QED BY <1>3

\* The call ends, for its pin at a time or never, and the times of other pins stay.
LEMMA ReturnsTime ==
    ASSUME TimeInv, step \in DhtSteps, NEW end \in Nat, end > now, now' = end, Returns,
           UNCHANGED <<driver, address>>,
           NEW e \in {Never, end}, ended' = [ended EXCEPT ![call.pin] = e],
           \/ s_last_read' = s_last_read /\ e = Never
           \/ s_last_read' = [s_last_read EXCEPT ![call.pin] = end]
    PROVE  TimeInv'
<1> USE DEF TimeInv
<1>0. call.pin \in Pins BY DEF CallOK, DhtCalls
<1>1. \A n \in 0..now : n \in 0..end BY DEF ClockOK
<1>2. s_last_read' \in [Pins -> 0..end]
  <2>1. s_last_read \in [Pins -> 0..end] BY <1>1 DEF ClockOK
  <2>2. end \in 0..end OBVIOUS
  <2> QED BY <2>1, <2>2
<1>3. ended' \in [Pins -> {Never} \cup 0..end]
  <2>1. ended \in [Pins -> {Never} \cup 0..end] BY <1>1 DEF ClockOK
  <2>2. e \in {Never} \cup 0..end OBVIOUS
  <2> QED BY <2>1, <2>2
<1>4. ClockOK' BY <1>2, <1>3 DEF ClockOK
<1>5. CallOK' BY DEF Returns, CallOK, DhtSteps, I2cSteps
<1>6. CaptureOK' BY EmptySeq DEF Returns, CaptureOK, Bytes
<1>7. DriverOK' BY DEF Returns, DriverOK, DhtSteps
<1>8. Spaced'
  <2>1. step' = "idle" BY DEF Returns
  <2>2. ASSUME NEW p \in Pins, ended'[p] # Never
        PROVE  s_last_read'[p] = ended'[p] /\ ended'[p] # 0
    <3>1. CASE p = call.pin
      <4>1. ended'[p] = e /\ end # 0 BY <1>0, <3>1 DEF ClockOK
      <4>2. e = end BY <2>2, <4>1
      <4>3. s_last_read'[p] = end BY <1>0, <2>2, <3>1, <4>1 DEF ClockOK
      <4> QED BY <4>1, <4>2, <4>3
    <3>2. CASE p # call.pin
      <4>1. ended'[p] = ended[p] /\ s_last_read'[p] = s_last_read[p] BY <3>2 DEF ClockOK
      <4> QED BY <2>2, <3>2, <4>1 DEF Spaced
    <3> QED BY <3>1, <3>2
  <2> QED BY <2>1, <2>2 DEF Spaced
<1> QED BY <1>4, <1>5, <1>6, <1>7, <1>8

\* A reading ends the call and stores the time of its capture.
LEMMA SucceedTime == ASSUME TimeInv, Succeed PROVE TimeInv'
<1>1. now' \in Nat /\ now' > now BY EndsLater DEF Succeed, TimeInv, ClockOK
<1>2. PICK end \in Nat : end = now' BY <1>1
<1>3. /\ step = "check" /\ Returns /\ UNCHANGED <<driver, address>>
      /\ ended' = [ended EXCEPT ![call.pin] = end]
      /\ s_last_read' = [s_last_read EXCEPT ![call.pin] = end]
  BY <1>2 DEF Succeed
<1> QED BY <1>1, <1>2, <1>3, ReturnsTime DEF DhtSteps

\* A wrong checksum is an attempt that failed.
LEMMA MismatchTime == ASSUME TimeInv, Mismatch PROVE TimeInv'
<1>1. InCapture("check") /\ step' = "failed" /\ t' = t /\ data' = data BY DEF Mismatch
<1>2. CaptureOK' BY <1>1 DEF TimeInv, CaptureOK
<1> QED BY <1>1, <1>2, CaptureTime DEF DhtSteps

\* Another attempt: the interval has been waited for, from the end of this one.
LEMMA RetryTime ==
    ASSUME TimeInv, step = "failed", NEW end \in Nat, end > now, attempt + 1 < call.retries,
           ended' = [ended EXCEPT ![call.pin] = end],
           now' = ((end \div 2) + MinInterval[call.model]) * 2,
           attempt' = attempt + 1, step' = "interval",
           UNCHANGED <<s_last_read, call, t, data, driver, address>>
    PROVE  TimeInv'
<1> USE DEF TimeInv
<1>0. call \in DhtCalls /\ attempt \in 0..(call.retries - 1) BY DEF CallOK, DhtSteps
<1>1. call.pin \in Pins /\ MinInterval[call.model] \in Nat \ {0} /\ call.retries \in Nat
  BY <1>0, MaxTimes DEF DhtCalls
<1>2. PICK min \in Nat \ {0} : min = MinInterval[call.model] BY <1>1
<1>3. PICK h \in Nat : h = end \div 2 /\ 2 * h <= end /\ end <= 2 * h + 1 OBVIOUS
<1>4. now' = (h + min) * 2 BY <1>2, <1>3
<1>5. now' \in Nat /\ end <= now' /\ now' - end >= 2 * min - 1 BY <1>3, <1>4
<1>6. now \in Nat BY DEF ClockOK
<1>7. \A n \in 0..now : n \in 0..(now') BY <1>5, <1>6
<1>8. end \in 0..(now') BY <1>5
<1>9. s_last_read' \in [Pins -> 0..(now')] BY <1>7 DEF ClockOK
<1>10. ended' \in [Pins -> {Never} \cup 0..(now')]
  <2>1. ended \in [Pins -> {Never} \cup 0..(now')] BY <1>7 DEF ClockOK
  <2> QED BY <1>8, <2>1
<1>11. ClockOK' BY <1>5, <1>9, <1>10 DEF ClockOK
<1>12. CallOK'
  <2>1. attempt' \in 0..(call.retries - 1) BY <1>0, <1>1
  <2> QED BY <1>0, <2>1 DEF CallOK, DhtSteps, I2cSteps
<1>13. CaptureOK' BY DEF CaptureOK
<1>14. DriverOK' BY DEF DriverOK
<1>15. Spaced'
  <2>1. ended'[call.pin] = end BY <1>1 DEF ClockOK
  <2>2. now' - ended'[call'.pin] >= 2 * MinInterval[call'.model] - 1 BY <1>2, <1>5, <2>1
  <2>3. attempt' > 0 BY <1>0, <1>1
  <2>4. ASSUME NEW p \in Pins, ended'[p] # Never, p # call'.pin
        PROVE  s_last_read'[p] = ended'[p] /\ ended'[p] # 0
    <3>1. ended'[p] = ended[p] BY <2>4 DEF ClockOK
    <3> QED BY <2>4, <3>1 DEF Spaced
  <2> QED BY <2>2, <2>3, <2>4 DEF Spaced
<1> QED BY <1>11, <1>12, <1>13, <1>14, <1>15

\* A failed attempt waits for its retry or ends the call.
LEMMA FailTime == ASSUME TimeInv, Fail PROVE TimeInv'
<1>1. PICK end \in CaptureEnds :
         IF attempt + 1 < call.retries
         THEN /\ ended' = [ended EXCEPT ![call.pin] = end]
              /\ now' = ((end \div 2) + MinInterval[call.model]) * 2
              /\ attempt' = attempt + 1 /\ step' = "interval"
              /\ UNCHANGED <<call, dht>>
         ELSE /\ ended' = [ended EXCEPT ![call.pin] = Never]
              /\ now' = end
              /\ Returns
  BY DEF Fail
<1>2. end \in Nat /\ end > now BY EndsLater DEF TimeInv, ClockOK
<1>3. step = "failed" /\ UNCHANGED <<s_last_read, driver, address>> BY DEF Fail
<1>4. CASE attempt + 1 < call.retries
  <2>1. /\ ended' = [ended EXCEPT ![call.pin] = end]
        /\ now' = ((end \div 2) + MinInterval[call.model]) * 2
        /\ attempt' = attempt + 1 /\ step' = "interval"
        /\ UNCHANGED <<call, t, data>>
    BY <1>1, <1>4 DEF dht
  <2> QED BY <1>2, <1>3, <1>4, <2>1, RetryTime
<1>5. CASE ~(attempt + 1 < call.retries)
  <2>1. ended' = [ended EXCEPT ![call.pin] = Never] /\ now' = end /\ Returns BY <1>1, <1>5
  <2>2. Never \in {Never, end} /\ step \in DhtSteps BY <1>3 DEF DhtSteps
  <2> QED BY <1>2, <1>3, <2>1, <2>2, ReturnsTime
<1> QED BY <1>4, <1>5

\* The I2C tools: the driver is there from its installation to the end of the call.
LEMMA I2cTime ==
    ASSUME TimeInv,
           InstallDriver \/ InstallFails \/ Transfer \/ ScanNext \/ ScanFails \/ ScanEnds
    PROVE  TimeInv'
<1> USE DEF TimeInv
<1>0. step \in I2cSteps /\ UNCHANGED <<now, s_last_read, attempt, t, data, ended>>
  BY DEF InstallDriver, InstallFails, Transfer, ScanNext, ScanFails, ScanEnds, InI2c, dht, I2cSteps
<1>1. ClockOK' BY <1>0 DEF ClockOK
<1>2. step' \in {"idle", "i2c_transfer", "i2c_scan"}
  BY DEF InstallDriver, InstallFails, Transfer, ScanNext, ScanFails, ScanEnds, I2cReturns, InI2c
<1>3. CaptureOK' BY <1>0, <1>2 DEF CaptureOK
<1>4. Spaced'
  <2>1. attempt = 0 BY <1>0 DEF CallOK
  <2> QED BY <1>0, <1>2, <2>1 DEF Spaced
<1>5. CallOK'
  <2>1. call \in I2cCalls /\ attempt' = 0 BY <1>0 DEF CallOK
  <2>2. (step' = "idle" /\ call' = NoCall) \/ (step' # "idle" /\ call' = call)
    BY <1>2 DEF InstallDriver, InstallFails, Transfer, ScanNext, ScanFails, ScanEnds, I2cReturns, InI2c
  <2> QED BY <1>2, <2>1, <2>2 DEF CallOK, DhtSteps, I2cSteps
<1>6. address' \in 0..Addresses
  BY BoardAssumption DEF DriverOK, InstallDriver, InstallFails, Transfer, ScanNext, ScanFails,
        ScanEnds, I2cReturns
<1>7. driver' = IF step' \in {"i2c_transfer", "i2c_scan"} THEN call'.pins ELSE <<>>
  BY DEF DriverOK, InstallDriver, InstallFails, Transfer, ScanNext, ScanFails, ScanEnds,
         I2cReturns, InI2c
<1>8. DriverOK' BY <1>6, <1>7 DEF DriverOK
<1> QED BY <1>1, <1>3, <1>4, <1>5, <1>8

\* Every step keeps the time invariant.
LEMMA NextTime == TimeInv /\ [BoardNext]_boardVars => TimeInv'
<1> SUFFICES ASSUME TimeInv, [BoardNext]_boardVars PROVE TimeInv' OBVIOUS
<1>1. CASE Pass \/ \E ticks \in {1} : delay(ticks) BY <1>1, IdleTime
<1>2. CASE Dht
  BY <1>2, CallDhtTime, StartTime, SlipTime, WaitsTime, SampleTime, SucceedTime, MismatchTime, FailTime
  DEF Dht
<1>3. CASE I2c BY <1>3, CallI2cTime, I2cTime DEF I2c
<1>4. CASE UNCHANGED boardVars
  BY <1>4 DEF boardVars, dht, TimeInv, ClockOK, CallOK, CaptureOK, DriverOK, Spaced
<1> QED BY <1>1, <1>2, <1>3, <1>4 DEF BoardNext

-----------------------------------------------------------------------------
(* Board: what a capture reads *)

\* A line that a sensor leaves low after its last fall, and what it was before.
LEMMA LowForGood ==
    ASSUME NEW a \in {2, 4}, NEW n, NEW F, NEW L, Signal(a, n, F, L)
    PROVE  /\ HangsLow(L) = L \cup (F[n] + 4)..100
           /\ \A u \in F[n]..100 : u \in HangsLow(L)
           /\ \A u \in Nat : u < F[n] /\ u \notin L => u \notin HangsLow(L)
           /\ \A i \in 1..(n - 1) : F[i] \in Nat /\ F[i + 1] \in Nat /\ F[i + 1] <= F[n]
           /\ F[n] \in Nat /\ a + 15 < F[n]
<1> USE DEF Signal
<1>1. n \in 1..6 /\ n \in 1..n /\ 1 \in 1..n OBVIOUS
<1>2. F[n] \in 18..80 /\ F[n] >= a + 16 BY <1>1
<1>3. Max(L) = F[n] + 4
  <2>1. L \subseteq Int OBVIOUS
  <2>2. F[n] + 4 \in L BY <1>2
  <2>3. \A u \in L : F[n] + 4 >= u BY <1>2
  <2> QED BY <2>1, <2>2, <2>3, MaxIs
<1>4. HangsLow(L) = L \cup (F[n] + 4)..100 BY <1>3 DEF HangsLow
<1>5. ASSUME NEW u \in F[n]..100 PROVE u \in HangsLow(L)
  <2>1. u \in F[n]..(F[n] + 4) \/ u \in (F[n] + 4)..100 BY <1>2
  <2> QED BY <1>4, <2>1
<1>6. \A u \in Nat : u < F[n] /\ u \notin L => u \notin HangsLow(L) BY <1>2, <1>4
<1>7. ASSUME NEW i \in 1..(n - 1) PROVE F[i] \in Nat /\ F[i + 1] \in Nat /\ F[i + 1] <= F[n]
  <2>1. i \in 1..n /\ i + 1 \in 1..n BY <1>1
  <2>2. \A j \in 1..n : F[j] \in Nat /\ F[j] <= F[n] OBVIOUS
  <2> QED BY <2>1, <2>2, Zenon
<1> QED BY <1>2, <1>4, <1>5, <1>6, <1>7

\* The level of the line, for a sensor that answers at a and sends bits.
LEMMA Levels ==
    ASSUME NEW a \in {2, 4}, NEW bits \in Seq({0, 1}), Sends(a, bits)
    PROVE  LET F == Falls(a, bits)
               n == Len(bits) + 1
           IN  /\ Signal(a, n, F, Low(a, bits))
               /\ \A i \in 1..Len(bits) : F[i + 1] = F[i] + 5 + HighTime(bits[i])
               /\ \A u \in a..(a + 7) : Level(u) = 0
               /\ \A u \in (a + 8)..(a + 15) : Level(u) = 1
               /\ \A i \in 1..n : \A u \in F[i]..(F[i] + 4) : Level(u) = 0
               /\ \A i \in 1..(n - 1) : \A u \in (F[i] + 5)..(F[i + 1] - 1) : Level(u) = 1
               /\ sensor.low = Low(a, bits) => \A u \in Nat : u > F[n] + 4 => Level(u) = 1
               /\ sensor.low # Low(a, bits) =>
                     Len(bits) < Bytes /\ \A u \in F[n]..100 : Level(u) = 0
<1> DEFINE F == Falls(a, bits)
           n == Len(bits) + 1
           L == Low(a, bits)
<1>1. bits \in Seq({0, 1}) /\ Len(bits) <= Bytes BY DEF Sends
<1>2. /\ Signal(a, n, F, L)
      /\ \A i \in 1..Len(bits) : F[i + 1] = F[i] + 5 + HighTime(bits[i])
  BY <1>1, Line, Zenon
<1>3. sensor.low = L \/ (Len(bits) < Bytes /\ sensor.low = HangsLow(L)) BY DEF Sends
<1>4. \A u : Level(u) = IF u \in sensor.low THEN 0 ELSE 1 BY DEF Level
<1> HIDE DEF F, n, L
<1>7. CASE sensor.low = L
  <2>1. /\ \A u \in a..(a + 7) : Level(u) = 0
        /\ \A u \in (a + 8)..(a + 15) : Level(u) = 1
        /\ \A i \in 1..n : \A u \in F[i]..(F[i] + 4) : Level(u) = 0
        /\ \A i \in 1..(n - 1) : \A u \in (F[i] + 5)..(F[i + 1] - 1) : Level(u) = 1
        /\ \A u \in Nat : u > F[n] + 4 => Level(u) = 1
    BY <1>2, <1>4, <1>7 DEF Signal
  <2> QED BY <1>2, <1>7, <2>1, Zenon DEF F, n, L
<1>8. CASE sensor.low # L
  <2>1. /\ \A u \in F[n]..100 : u \in HangsLow(L)
        /\ \A u \in Nat : u < F[n] /\ u \notin L => u \notin HangsLow(L)
        /\ \A i \in 1..(n - 1) : F[i] \in Nat /\ F[i + 1] \in Nat /\ F[i + 1] <= F[n]
        /\ F[n] \in Nat /\ a + 15 < F[n] /\ L \subseteq HangsLow(L)
    <3>1. L \subseteq HangsLow(L) BY DEF HangsLow
    <3>2. Signal(a, n, F, L) BY <1>2
    <3> HIDE DEF HangsLow
    <3> QED BY <3>1, <3>2, LowForGood
  <2>2. sensor.low = HangsLow(L) /\ Len(bits) < Bytes BY <1>3, <1>8
  <2> HIDE DEF HangsLow
  <2>3. \A u \in a..(a + 7) : Level(u) = 0 BY <1>2, <1>4, <2>1, <2>2 DEF Signal
  <2>4. \A u \in (a + 8)..(a + 15) : Level(u) = 1
    <3>1. ASSUME NEW u \in (a + 8)..(a + 15) PROVE u \notin HangsLow(L)
      <4>1. u \in Nat /\ u < F[n] /\ u \notin L BY <1>2, <2>1 DEF Signal
      <4> QED BY <2>1, <4>1
    <3> QED BY <1>4, <2>2, <3>1
  <2>5. \A i \in 1..n : \A u \in F[i]..(F[i] + 4) : Level(u) = 0 BY <1>2, <1>4, <2>1, <2>2 DEF Signal
  <2>6. ASSUME NEW i \in 1..(n - 1), NEW u \in (F[i] + 5)..(F[i + 1] - 1) PROVE Level(u) = 1
    <3>1. u \notin L BY <1>2 DEF Signal
    <3>2. F[i] \in Nat /\ F[i + 1] \in Nat /\ F[i + 1] <= F[n] /\ F[n] \in Nat BY <2>1
    <3>3. u \in Nat /\ u < F[n] BY <3>2
    <3> QED BY <1>4, <2>1, <2>2, <3>1, <3>3
  <2>7. \A u \in F[n]..100 : Level(u) = 0 BY <1>4, <2>1, <2>2
  <2> QED BY <1>2, <1>8, <2>2, <2>3, <2>4, <2>5, <2>6, <2>7, Zenon DEF F, n, L
<1> QED BY <1>7, <1>8

\* A wait for a level that comes in time ends there, or 10 us later; one for a level
\* that does not come fails.
LEMMA WaitFinds ==
    ASSUME t \in Nat, NEW level, NEW next, WaitFor(level, next),
           NEW m \in t..(t + 11), Level(m) = level, \A u \in t..(m - 1) : Level(u) # level
    PROVE  step' = next /\ t' \in m..(m + 1)
<1>1. m \in Found(level) BY DEF Found
<1>2. Found(level) \subseteq Int BY DEF Found
<1>3. \A u \in Found(level) : m <= u BY DEF Found
<1>4. Min(Found(level)) = m BY <1>1, <1>2, <1>3, MinIs
<1>5. step' = next /\ t' \in m..(m + 1) BY <1>1, <1>4 DEF WaitFor, Comes
<1> QED BY <1>5

\* A wait fails when its level does not come in the time it is given.
LEMMA WaitFails ==
    ASSUME NEW level, NEW next, WaitFor(level, next), \A u \in t..(t + 11) : Level(u) # level
    PROVE  step' = "failed"
BY DEF WaitFor, Found

\* A sensor that is not there fails at once.
LEMMA AbsentFails ==
    ASSUME sensor \in Absent
    PROVE  ~sensor.good /\ \A u : Level(u) = 1
BY DEF Absent, Level

\* A frame is five bits, the last of which is the parity of the others.
LEMMA FrameBits ==
    ASSUME NEW f \in Frames
    PROVE  /\ f \in Seq({0, 1}) /\ Len(f) = 5 /\ \A i \in 1..5 : f[i] \in {0, 1}
           /\ f[5] = (f[1] + f[2] + f[3] + f[4]) % 2
<1>1. f \in [1..5 -> {0, 1}] /\ f[5] = (f[1] + f[2] + f[3] + f[4]) % 2 BY DEF Frames, Bytes
<1>2. f \in Seq({0, 1}) /\ Len(f) = 5
  <2>1. 5 \in Nat OBVIOUS
  <2> QED BY <1>1, <2>1, FunctionIsSeq, Zenon
<1> QED BY <1>1, <1>2

\* A sensor that is there sends bits.
LEMMA SensorSends ==
    ASSUME sensor' \in Sensors, sensor' \notin Absent
    PROVE  \E a \in {2, 4}, bits \in Seq({0, 1}) : Sends(a, bits)'
<1>1. CASE sensor' \in Good
  <2>1. PICK f \in Frames, a \in {2, 4} : sensor' = [frame |-> f, good |-> TRUE, low |-> Low(a, f)]
    BY <1>1 DEF Good
  <2>2. f \in Seq({0, 1}) /\ Len(f) <= Bytes
    <3>1. f \in Seq({0, 1}) /\ Len(f) = 5 BY FrameBits
    <3>2. 5 <= Bytes BY DEF Bytes
    <3> QED BY <3>1, <3>2, Zenon
  <2>3. sensor'.frame = f /\ sensor'.low = Low(a, f) BY <2>1
  <2>4. Sends(a, f)' BY <2>2, <2>3, Zenon DEF Sends
  <2> QED BY <2>2, <2>4
<1>2. CASE sensor' \in Noisy
  <2>0. PICK f \in Frames : \E bits \in Turned(f) :
           sensor' = [frame |-> f, good |-> FALSE, low |-> Low(2, bits)]
    BY <1>2 DEF Noisy
  <2>1. PICK bits \in Turned(f) : sensor' = [frame |-> f, good |-> FALSE, low |-> Low(2, bits)]
    BY <2>0
  <2>2. PICK i \in 1..5 : bits = [f EXCEPT ![i] = 1 - @] BY DEF Turned, Bytes
  <2>3. f \in [1..5 -> {0, 1}] BY DEF Frames, Bytes
  <2>4. bits \in [1..5 -> {0, 1}] BY <2>2, <2>3
  <2>5. bits \in Seq({0, 1}) /\ Len(bits) <= Bytes
    <3>1. 5 \in Nat /\ 5 <= Bytes BY DEF Bytes
    <3>2. bits \in Seq({0, 1}) /\ Len(bits) = 5 BY <2>4, <3>1, FunctionIsSeq, Zenon
    <3> QED BY <3>1, <3>2, Zenon
  <2>6. sensor'.frame = f /\ ~sensor'.good /\ sensor'.low = Low(2, bits) BY <2>1
  <2>7. Sends(2, bits)' BY <2>1, <2>5, <2>6, Zenon DEF Sends
  <2> QED BY <2>5, <2>7
<1>3. CASE sensor' \in Hung
  <2>0. PICK f \in Frames : \E low \in {Low(2, SubSeq(f, 1, n)) : n \in 0..(Bytes - 1)} :
           \/ sensor' = [frame |-> f, good |-> FALSE, low |-> low]
           \/ sensor' = [frame |-> f, good |-> FALSE, low |-> HangsLow(low)]
    BY <1>3 DEF Hung
  <2>1. PICK low \in {Low(2, SubSeq(f, 1, n)) : n \in 0..(Bytes - 1)} :
           \/ sensor' = [frame |-> f, good |-> FALSE, low |-> low]
           \/ sensor' = [frame |-> f, good |-> FALSE, low |-> HangsLow(low)]
    BY <2>0
  <2>2. PICK n \in 0..(Bytes - 1) : low = Low(2, SubSeq(f, 1, n)) BY <2>1
  <2> DEFINE bits == SubSeq(f, 1, n)
  <2>3. n \in 0..4 BY DEF Bytes
  <2>4. f \in Seq({0, 1}) /\ Len(f) = 5 BY FrameBits
  <2>5. bits \in Seq({0, 1}) /\ Len(bits) = n
    <3>1. \A i \in 1..n : f[i] \in {0, 1}
      <4>1. \A i \in 1..n : i \in 1..Len(f) BY <2>3, <2>4
      <4> QED BY <2>4, <4>1, ElementOfSeq, Zenon
    <3>2. bits \in Seq({0, 1}) BY <2>3, <3>1, SubSeqProperties
    <3>3. Len(bits) = n BY <2>3, <3>1, SubSeqProperties
    <3> QED BY <3>2, <3>3
  <2>6. bits \in Seq({0, 1}) /\ Len(bits) < Bytes /\ Len(bits) <= Bytes
    <3>1. n < Bytes /\ n <= Bytes BY <2>3 DEF Bytes
    <3> QED BY <2>5, <3>1, Zenon
  <2>7. /\ sensor'.frame = f /\ ~sensor'.good
        /\ sensor'.low = Low(2, bits) \/ sensor'.low = HangsLow(Low(2, bits))
    BY <2>1, <2>2
  <2>8. Sends(2, bits)' BY <2>6, <2>7, Zenon DEF Sends
  <2> QED BY <2>6, <2>8
<1> QED BY <1>1, <1>2, <1>3 DEF Sensors

\* The sensor that sends its frame sends five bits.
LEMMA GoodSends ==
    ASSUME NEW a, NEW bits, Sends(a, bits), bits = sensor.frame \/ sensor.good
    PROVE  bits = sensor.frame /\ bits \in Frames /\ Len(bits) = 5
<1>1. bits = sensor.frame /\ sensor.frame \in Frames BY Zenon DEF Sends
<1> QED BY <1>1, FrameBits

\* What is left to show of a step within a capture, that goes on or fails.
LEMMA GoesOn ==
    ASSUME SignalInv, UNCHANGED <<sensor, reading>>, step' # "failed",
           NEW a \in {2, 4}, NEW bits \in Seq({0, 1}), Sends(a, bits), Follows(a, bits)'
    PROVE  SignalInv'
<1>1. Sends(a, bits)' BY Zenon DEF Sends
<1>2. Tracked' BY <1>1, Zenon DEF Tracked
<1> QED BY <1>2, Zenon DEF SignalInv, ReadingIsTheSensors

\* Only an attempt against a sensor that is not right may fail half-way.
LEMMA Fails ==
    ASSUME SignalInv, UNCHANGED <<sensor, reading>>, step' = "failed", ~sensor.good
    PROVE  SignalInv'
BY Zenon DEF SignalInv, ReadingIsTheSensors, DhtSteps

\* The sensor's answer is seen while the line is low for it.
LEMMA AnswerLowSignal ==
    ASSUME punctual, TimeInv, SignalInv, AnswerLow PROVE SignalInv'
<1>1. /\ step = "answer" /\ UNCHANGED <<sensor, reading, data>>
      /\ WaitFor(0, "answer_high")
  BY DEF AnswerLow, InCapture, WaitFor
<1>2. data = <<>> /\ Len(data) = 0 /\ t \in Nat BY <1>1, EmptySeq DEF TimeInv, CaptureOK
<1>3. Tracked BY <1>1 DEF SignalInv, DhtSteps
<1>4. CASE sensor \in Absent
  <2>1. ~sensor.good /\ \A u : Level(u) = 1 BY <1>4, AbsentFails
  <2>2. step' = "failed" BY <1>1, <2>1, WaitFails
  <2> QED BY <1>1, <2>1, <2>2, Fails
<1>5. ASSUME NEW a \in {2, 4}, NEW bits \in Seq({0, 1}), Sends(a, bits), Follows(a, bits)
      PROVE  SignalInv'
  <2>1. t \in 4..5 BY <1>1, <1>5 DEF Follows
  <2>2. \A u \in a..(a + 7) : Level(u) = 0 BY <1>5, Levels
  <2>3. Level(t) = 0 BY <2>1, <2>2
  <2>4. t \in t..(t + 11) /\ \A u \in t..(t - 1) : Level(u) # 0 BY <1>2
  <2>5. step' = "answer_high" /\ t' \in t..(t + 1) BY <1>1, <1>2, <2>3, <2>4, WaitFinds
  <2>6. t' \in 4..6 BY <2>1, <2>5
  <2>7. \A i \in 1..Len(data') : i <= Len(bits) => data'[i] = bits[i] BY <1>1, <1>2
  <2>8. Follows(a, bits)'
    <3>1. Len(bits) \in Nat BY <1>5
    <3> QED BY <1>1, <1>2, <2>5, <2>6, <2>7, <3>1 DEF Follows
  <2> QED BY <1>1, <1>5, <2>5, <2>8, GoesOn
<1> QED BY <1>3, <1>4, <1>5 DEF Tracked

\* The end of the answer's low half is seen before the first bit.
LEMMA AnswerHighSignal ==
    ASSUME punctual, TimeInv, SignalInv, AnswerHigh PROVE SignalInv'
<1>1. /\ step = "answer_high" /\ UNCHANGED <<sensor, reading, data>>
      /\ WaitFor(1, "fall")
  BY DEF AnswerHigh, InCapture, WaitFor
<1>2. data = <<>> /\ Len(data) = 0 /\ t \in Nat BY <1>1, EmptySeq DEF TimeInv, CaptureOK
<1>3. PICK a \in {2, 4}, bits \in Seq({0, 1}) : Sends(a, bits) /\ Follows(a, bits)
  BY <1>1 DEF SignalInv, DhtSteps, Tracked
<1>4. t \in 4..6 BY <1>1, <1>3 DEF Follows
<1>5. /\ \A u \in a..(a + 7) : Level(u) = 0
      /\ \A u \in (a + 8)..(a + 15) : Level(u) = 1
  BY <1>3, Levels
<1>6. PICK m \in Nat : m = a + 8 OBVIOUS
<1>7. m \in t..(t + 11) /\ Level(m) = 1 /\ \A u \in t..(m - 1) : Level(u) # 1
  BY <1>4, <1>5, <1>6
<1>8. step' = "fall" /\ t' \in m..(m + 1) BY <1>1, <1>2, <1>7, WaitFinds
<1>9. t' \in (a + 8)..(a + 9) BY <1>6, <1>8
<1>10. Follows(a, bits)'
  <2>1. Len(bits) \in Nat OBVIOUS
  <2> QED BY <1>1, <1>2, <1>8, <1>9, <2>1 DEF Follows
<1> QED BY <1>1, <1>3, <1>8, <1>10, GoesOn

\* What Levels says of the n-th bit: low for 50 us from its fall, then high for 30 us or
\* 70 us, and low again; after the last bit the line stays high, or hangs low.
BitAt(bits, n, f) ==
    /\ f \in 18..80
    /\ \A u \in f..(f + 4) : Level(u) = 0
    /\ n <= Len(bits) =>
          /\ \A u \in (f + 5)..(f + 4 + HighTime(bits[n])) : Level(u) = 1
          /\ \A u \in (f + 5 + HighTime(bits[n]))..(f + 9 + HighTime(bits[n])) : Level(u) = 0

\* From one fall to the next the line is low, then high as long as the bit says.
LEMMA BitLevels ==
    ASSUME NEW a \in {2, 4}, NEW bits \in Seq({0, 1}), Sends(a, bits),
           NEW n \in 1..(Len(bits) + 1)
    PROVE  /\ BitAt(bits, n, Falls(a, bits)[n])
           /\ n <= Len(bits) =>
                 /\ Falls(a, bits)[n + 1] = Falls(a, bits)[n] + 5 + HighTime(bits[n])
                 /\ HighTime(bits[n]) = IF bits[n] = 1 THEN 7 ELSE 3
                 /\ bits[n] \in {0, 1}
<1> DEFINE F == Falls(a, bits)
           N == Len(bits) + 1
<1>1. /\ Signal(a, N, F, Low(a, bits))
      /\ \A i \in 1..Len(bits) : F[i + 1] = F[i] + 5 + HighTime(bits[i])
      /\ \A i \in 1..N : \A u \in F[i]..(F[i] + 4) : Level(u) = 0
      /\ \A i \in 1..(N - 1) : \A u \in (F[i] + 5)..(F[i + 1] - 1) : Level(u) = 1
  BY Levels
<1>2. Len(bits) \in Nat OBVIOUS
<1>3. N \in 1..6 /\ \A i \in 1..N : F[i] \in 18..80 BY <1>1 DEF Signal
<1>4. \A i \in 1..Len(bits) : bits[i] \in {0, 1} BY ElementOfSeq, Zenon
<1> HIDE DEF F
<1>5. F[n] \in 18..80 /\ \A u \in F[n]..(F[n] + 4) : Level(u) = 0 BY <1>1, <1>3
<1>6. ASSUME n <= Len(bits)
      PROVE  /\ F[n + 1] = F[n] + 5 + HighTime(bits[n])
             /\ HighTime(bits[n]) = IF bits[n] = 1 THEN 7 ELSE 3
             /\ bits[n] \in {0, 1}
             /\ \A u \in (F[n] + 5)..(F[n] + 4 + HighTime(bits[n])) : Level(u) = 1
             /\ \A u \in (F[n] + 5 + HighTime(bits[n]))..(F[n] + 9 + HighTime(bits[n])) :
                   Level(u) = 0
  <2>1. n \in 1..Len(bits) /\ n \in 1..(N - 1) /\ n + 1 \in 1..N BY <1>2, <1>6
  <2>2. bits[n] \in {0, 1} BY <1>4, <2>1
  <2>3. PICK h \in {3, 7} : h = HighTime(bits[n]) BY DEF HighTime
  <2>4. PICK f \in 18..80 : f = F[n] BY <1>5
  <2>5. F[n + 1] = f + 5 + h BY <1>1, <2>1, <2>3, <2>4
  <2>6. \A u \in f + 5..(f + 4 + h) : Level(u) = 1
    <3>1. \A u \in (f + 5)..(f + 5 + h - 1) : Level(u) = 1 BY <1>1, <2>1, <2>4, <2>5
    <3> QED BY <3>1
  <2>7. \A u \in (f + 5 + h)..(f + 9 + h) : Level(u) = 0
    <3>1. \A u \in (f + 5 + h)..((f + 5 + h) + 4) : Level(u) = 0 BY <1>1, <2>1, <2>5
    <3> QED BY <3>1
  <2> QED BY <2>2, <2>3, <2>4, <2>5, <2>6, <2>7 DEF HighTime
<1> QED BY <1>5, <1>6 DEF BitAt, F

\* The first fall: the line is high from 80 us after the answer began, for 80 us.
LEMMA FirstFell ==
    ASSUME t \in Nat, NEW a \in {2, 4}, NEW bits \in Seq({0, 1}),
           Sends(a, bits), t \in (a + 8)..(a + 9), NEW next, WaitFor(0, next)
    PROVE  step' = next /\ t' \in Falls(a, bits)[1]..(Falls(a, bits)[1] + 4)
<1>1. Len(bits) \in Nat OBVIOUS
<1>2. PICK f \in Nat : f = a + 16 OBVIOUS
<1>3. Falls(a, bits)[1] = f /\ \A u \in (a + 8)..(a + 15) : Level(u) = 1
  BY <1>2, Levels DEF Signal
<1>4. Level(f) = 0
  <2>1. BitAt(bits, 1, f) BY <1>1, <1>3, BitLevels
  <2> QED BY <2>1 DEF BitAt
<1>5. f \in t..(t + 11) /\ \A u \in t..(f - 1) : Level(u) # 0 BY <1>2, <1>3
<1>6. step' = next /\ t' \in f..(f + 1) BY <1>4, <1>5, WaitFinds
<1> QED BY <1>2, <1>3, <1>6

\* The next fall, after a sample: the line may have fallen already.
LEMMA NextFell ==
    ASSUME t \in Nat, NEW a \in {2, 4}, NEW bits \in Seq({0, 1}),
           Sends(a, bits), NEW n \in 1..Len(bits),
           t \in (Falls(a, bits)[n] + 9)..(Falls(a, bits)[n] + 11), NEW next, WaitFor(0, next)
    PROVE  step' = next /\ t' \in Falls(a, bits)[n + 1]..(Falls(a, bits)[n + 1] + 4)
<1>0. Len(bits) \in Nat OBVIOUS
<1>1. PICK f : f = Falls(a, bits)[n] OBVIOUS
<1>2. n \in 1..(Len(bits) + 1) /\ n <= Len(bits) BY <1>0
<1>3. PICK h \in {3, 7} : h = HighTime(bits[n]) BY DEF HighTime
<1>4. BitAt(bits, n, f) /\ Falls(a, bits)[n + 1] = f + 5 + h
  BY <1>1, <1>2, <1>3, BitLevels
<1>5. /\ f \in 18..80 /\ \A u \in (f + 5)..(f + 4 + h) : Level(u) = 1
      /\ \A u \in (f + 5 + h)..(f + 9 + h) : Level(u) = 0
  BY <1>2, <1>3, <1>4 DEF BitAt
<1>6. t \in (f + 9)..(f + 11) BY <1>1
<1>7. CASE h = 3
  <2>1. Level(t) = 0 BY <1>5, <1>6, <1>7
  <2>2. t \in t..(t + 11) /\ \A u \in t..(t - 1) : Level(u) # 0 OBVIOUS
  <2>3. step' = next /\ t' \in t..(t + 1) BY <2>1, <2>2, WaitFinds
  <2>4. t' \in (f + 8)..((f + 8) + 4) BY <1>5, <1>6, <2>3
  <2> QED BY <1>4, <1>5, <1>7, <2>3, <2>4
<1>8. CASE h = 7
  <2>1. PICK m \in Nat : m = f + 12 BY <1>5
  <2>2. Level(m) = 0 BY <1>5, <1>8, <2>1
  <2>3. m \in t..(t + 11) /\ \A u \in t..(m - 1) : Level(u) # 0
    BY <1>5, <1>6, <1>8, <2>1
  <2>4. step' = next /\ t' \in m..(m + 1) BY <2>2, <2>3, WaitFinds
  <2>5. t' \in m..(m + 4) /\ Falls(a, bits)[n + 1] = m BY <1>4, <1>5, <1>8, <2>1, <2>4
  <2> QED BY <2>4, <2>5
<1> QED BY <1>3, <1>7, <1>8

\* The bits that a capture has.
LEMMA DataLen ==
    ASSUME CaptureOK, step \in {"fall", "rise", "sample"} PROVE Len(data) \in 0..4
<1>1. Len(data) \in Nat /\ Len(data) < Bytes BY DEF CaptureOK
<1>2. \A n \in Nat : n < Bytes => n \in 0..4 BY DEF Bytes
<1> QED BY <1>1, <1>2, Zenon

\* The fall before a bit is seen while the line is low.
LEMMA FellSignal ==
    ASSUME punctual, TimeInv, SignalInv, Fell PROVE SignalInv'
<1>1. step = "fall" /\ UNCHANGED <<sensor, reading, data>> /\ WaitFor(0, "rise")
  BY DEF Fell, InCapture, WaitFor
<1>2. PICK n \in 0..4 : n = Len(data) BY <1>1, DataLen DEF TimeInv
<1>3. t \in Nat BY DEF TimeInv, CaptureOK
<1>4. PICK a \in {2, 4}, bits \in Seq({0, 1}) : Sends(a, bits) /\ Follows(a, bits)
  BY <1>1 DEF SignalInv, DhtSteps, Tracked
<1>5. PICK N \in Nat : N = Len(bits) BY <1>4
<1>6. /\ \A i \in 1..n : i <= N => data[i] = bits[i]
      /\ n > N => n = N + 1 /\ data[n] = 1 /\ sensor.low = Low(a, bits)
      /\ n = 0 => t \in (a + 8)..(a + 9)
      /\ n > 0 => t \in (Falls(a, bits)[n] + 9)..(Falls(a, bits)[n] + 11)
  BY <1>1, <1>2, <1>4, <1>5 DEF Follows
<1>7. CASE n <= N
  <2>1. step' = "rise" /\ t' \in Falls(a, bits)[n + 1]..(Falls(a, bits)[n + 1] + 4)
    <3>1. CASE n = 0 BY <1>1, <1>3, <1>4, <1>6, <3>1, FirstFell
    <3>2. CASE n > 0
      <4>1. n \in 1..Len(bits) BY <1>5, <1>7, <3>2
      <4> QED BY <1>1, <1>3, <1>4, <1>6, <3>2, <4>1, NextFell
    <3> QED BY <3>1, <3>2
  <2>2. Follows(a, bits)' BY <1>1, <1>2, <1>5, <1>6, <1>7, <2>1 DEF Follows
  <2> QED BY <1>1, <1>4, <2>1, <2>2, GoesOn
<1>8. CASE n > N
  <2>1. PICK f \in 18..80 : f = Falls(a, bits)[n]
    <3>1. n \in 1..(Len(bits) + 1) BY <1>5, <1>6, <1>8
    <3> QED BY <1>4, <3>1, BitLevels DEF BitAt
  <2>2. \A u \in Nat : u > f + 4 => Level(u) = 1
    <3>1. n = Len(bits) + 1 BY <1>5, <1>6, <1>8
    <3> QED BY <1>4, <1>6, <1>8, <2>1, <3>1, Levels
  <2>3. \A u \in t..(t + 11) : Level(u) # 0
    <3>1. n > 0 BY <1>8
    <3>2. t \in (f + 9)..(f + 11) BY <1>6, <2>1, <3>1
    <3> QED BY <2>2, <3>2
  <2>4. step' = "failed" BY <1>1, <2>3, WaitFails
  <2>5. ~sensor.good
    <3>1. N # 5 BY <1>6, <1>8
    <3> QED BY <1>4, <1>5, <3>1, GoodSends
  <2> QED BY <1>1, <2>4, <2>5, Fails
<1> QED BY <1>7, <1>8

\* The rise of a bit is seen at its time, or one step late.
LEMMA RiseSignal ==
    ASSUME punctual, TimeInv, SignalInv, Rise PROVE SignalInv'
<1>1. step = "rise" /\ UNCHANGED <<sensor, reading, data>> /\ WaitFor(1, "sample")
  BY DEF Rise, InCapture, WaitFor
<1>2. PICK n \in 0..4 : n = Len(data) BY <1>1, DataLen DEF TimeInv
<1>3. t \in Nat BY DEF TimeInv, CaptureOK
<1>4. PICK a \in {2, 4}, bits \in Seq({0, 1}) : Sends(a, bits) /\ Follows(a, bits)
  BY <1>1 DEF SignalInv, DhtSteps, Tracked
<1>5. PICK N \in Nat : N = Len(bits) BY <1>4
<1>6. PICK f : f = Falls(a, bits)[n + 1] OBVIOUS
<1>7. n <= N /\ (\A i \in 1..n : data[i] = bits[i]) /\ t \in f..(f + 4)
  BY <1>1, <1>2, <1>4, <1>5, <1>6 DEF Follows
<1>8. BitAt(bits, n + 1, f)
  <2>1. n + 1 \in 1..(Len(bits) + 1) BY <1>5, <1>7
  <2> QED BY <1>4, <1>6, <2>1, BitLevels
<1>9. f \in 18..80 /\ \A u \in f..(f + 4) : Level(u) = 0 BY <1>8 DEF BitAt
<1>10. CASE n = N /\ sensor.low # Low(a, bits)
  <2>1. n + 1 = Len(bits) + 1 BY <1>5, <1>10
  <2>2. \A u \in f..100 : Level(u) = 0
    <3>1. f = Falls(a, bits)[Len(bits) + 1] BY <1>6, <2>1
    <3>2. \A u \in Falls(a, bits)[Len(bits) + 1]..100 : Level(u) = 0
      BY <1>4, <1>10, Levels, Zenon
    <3> QED BY <3>1, <3>2, Zenon
  <2>3. \A u \in t..(t + 11) : Level(u) # 1 BY <1>7, <1>9, <2>2
  <2>4. step' = "failed" BY <1>1, <2>3, WaitFails
  <2>5. ~sensor.good
    <3>1. N # 5 BY <1>10
    <3> QED BY <1>4, <1>5, <3>1, GoodSends
  <2> QED BY <1>1, <2>4, <2>5, Fails
<1>11. CASE n < N \/ sensor.low = Low(a, bits)
  <2>1. PICK m \in Nat : m = f + 5 BY <1>9
  <2>2. Level(m) = 1
    <3>1. CASE n < N
      <4>1. n + 1 <= Len(bits) BY <1>5, <3>1
      <4>2. HighTime(bits[n + 1]) \in {3, 7} BY DEF HighTime
      <4>3. \A u \in (f + 5)..(f + 4 + HighTime(bits[n + 1])) : Level(u) = 1
        BY <1>8, <4>1 DEF BitAt
      <4> QED BY <1>9, <2>1, <4>2, <4>3
    <3>2. CASE n = N /\ sensor.low = Low(a, bits)
      <4>1. n + 1 = Len(bits) + 1 BY <1>5, <3>2
      <4>2. \A u \in Nat : u > f + 4 => Level(u) = 1 BY <1>4, <1>6, <3>2, <4>1, Levels
      <4> QED BY <1>9, <2>1, <4>2
    <3> QED BY <1>7, <1>11, <3>1, <3>2
  <2>3. m \in t..(t + 11) /\ \A u \in t..(m - 1) : Level(u) # 1 BY <1>7, <1>9, <2>1
  <2>4. step' = "sample" /\ t' \in m..(m + 1) BY <1>1, <1>3, <2>2, <2>3, WaitFinds
  <2>5. t' \in (f + 5)..(f + 6) BY <1>9, <2>1, <2>4
  <2>6. Follows(a, bits)'
    <3>1. n = N => sensor.low = Low(a, bits) BY <1>11
    <3> QED BY <1>1, <1>2, <1>5, <1>6, <1>7, <2>4, <2>5, <3>1 DEF Follows
  <2> QED BY <1>1, <1>4, <2>4, <2>6, GoesOn
<1> QED BY <1>7, <1>10, <1>11

\* A bit that is sampled no more than 10 us late is the bit sent.
LEMMA SampleSignal ==
    ASSUME punctual, TimeInv, SignalInv, Sample PROVE SignalInv'
<1>1. step = "sample" /\ UNCHANGED <<sensor, reading>> BY DEF Sample, InCapture
<1>2. PICK n \in 0..4 : n = Len(data) BY <1>1, DataLen DEF TimeInv
<1>3. /\ t \in Nat /\ t' \in (t + 4)..(t + 5) /\ Len(data') = n + 1
      /\ data'[n + 1] = Level(t') /\ \A i \in 1..n : data'[i] = data[i]
      /\ step' \in {"fall", "check"}
  <2>1. CaptureOK BY DEF TimeInv
  <2>2. t' \in (t + 4)..(t + 5) /\ t \in Nat BY <2>1, SampleData DEF CaptureOK
  <2>4. step' = IF Len(data') < Bytes THEN "fall" ELSE "check" BY <2>1, SampleData
  <2> QED BY <1>2, <2>1, <2>2, <2>4, SampleData
<1>4. PICK a \in {2, 4}, bits \in Seq({0, 1}) : Sends(a, bits) /\ Follows(a, bits)
  BY <1>1 DEF SignalInv, DhtSteps, Tracked
<1>5. PICK N \in Nat : N = Len(bits) BY <1>4
<1>6. PICK f : f = Falls(a, bits)[n + 1] OBVIOUS
<1>7. /\ n <= N /\ (\A i \in 1..n : data[i] = bits[i]) /\ t \in (f + 5)..(f + 6)
      /\ n = N => sensor.low = Low(a, bits)
  BY <1>1, <1>2, <1>4, <1>5, <1>6 DEF Follows
<1>8. BitAt(bits, n + 1, f)
  <2>1. n + 1 \in 1..(Len(bits) + 1) BY <1>5, <1>7
  <2> QED BY <1>4, <1>6, <2>1, BitLevels
<1>9. f \in 18..80 BY <1>8 DEF BitAt
<1>10. t' \in (f + 9)..(f + 11) BY <1>3, <1>7, <1>9
<1>11. n < N => Level(t') = bits[n + 1]
  <2> SUFFICES ASSUME n < N PROVE Level(t') = bits[n + 1] OBVIOUS
  <2>1. n + 1 <= Len(bits) /\ n + 1 \in 1..(Len(bits) + 1) BY <1>5
  <2>2. bits[n + 1] \in {0, 1} /\ HighTime(bits[n + 1]) = IF bits[n + 1] = 1 THEN 7 ELSE 3
    BY <1>4, <2>1, BitLevels
  <2>3. PICK h : h = HighTime(bits[n + 1]) OBVIOUS
  <2>4. /\ \A u \in (f + 5)..(f + 4 + h) : Level(u) = 1
        /\ \A u \in (f + 5 + h)..(f + 9 + h) : Level(u) = 0
    BY <1>8, <2>1, <2>3 DEF BitAt
  <2>5. CASE bits[n + 1] = 1
    <3>1. h = 7 BY <2>2, <2>3, <2>5
    <3> QED BY <1>9, <1>10, <2>4, <2>5, <3>1
  <2>6. CASE bits[n + 1] = 0
    <3>1. h = 3 BY <2>2, <2>3, <2>6
    <3> QED BY <1>9, <1>10, <2>4, <2>6, <3>1
  <2> QED BY <2>2, <2>5, <2>6
<1>12. n = N => Level(t') = 1
  <2> SUFFICES ASSUME n = N PROVE Level(t') = 1 OBVIOUS
  <2>1. n + 1 = Len(bits) + 1 BY <1>5
  <2>2. \A u \in Nat : u > f + 4 => Level(u) = 1 BY <1>4, <1>6, <1>7, <2>1, Levels
  <2> QED BY <1>9, <1>10, <2>2
<1>13. \A i \in 1..(n + 1) : i <= N => data'[i] = bits[i]
  <2>1. ASSUME NEW i \in 1..(n + 1), i <= N PROVE data'[i] = bits[i]
    <3>1. CASE i = n + 1 BY <1>3, <1>11, <2>1, <3>1
    <3>2. CASE i # n + 1
      <4>1. i \in 1..n BY <3>2
      <4> QED BY <1>3, <1>7, <4>1
    <3> QED BY <3>1, <3>2
  <2> QED BY <2>1
<1>14. n + 1 > N => n + 1 = N + 1 /\ data'[n + 1] = 1 /\ sensor.low = Low(a, bits)
  BY <1>3, <1>7, <1>12
<1>15. Follows(a, bits)'
  BY <1>1, <1>3, <1>5, <1>6, <1>10, <1>13, <1>14 DEF Follows
<1> QED BY <1>1, <1>3, <1>4, <1>15, GoesOn

\* A turned bit turns the parity.
LEMMA TurnedFails ==
    ASSUME NEW f \in Frames, NEW bits \in Turned(f)
    PROVE  (bits[1] + bits[2] + bits[3] + bits[4]) % 2 # bits[5]
<1>1. PICK i \in 1..5 : bits = [f EXCEPT ![i] = 1 - @] BY DEF Turned, Bytes
<1>2. /\ f \in [1..5 -> {0, 1}] /\ \A j \in 1..5 : f[j] \in {0, 1}
      /\ f[5] = (f[1] + f[2] + f[3] + f[4]) % 2
  BY FrameBits DEF Frames, Bytes
<1>3. bits[i] = 1 - f[i] /\ \A j \in 1..5 : j # i => bits[j] = f[j] BY <1>1, <1>2
<1>4. PICK b1, b2, b3, b4, b5 \in {0, 1} :
         b1 = f[1] /\ b2 = f[2] /\ b3 = f[3] /\ b4 = f[4] /\ b5 = f[5]
  BY <1>2
<1>5. b5 = (b1 + b2 + b3 + b4) % 2 BY <1>2, <1>4
<1>6. CASE i = 1
  <2>1. bits[1] = 1 - b1 /\ bits[2] = b2 /\ bits[3] = b3 /\ bits[4] = b4 /\ bits[5] = b5
    BY <1>3, <1>4, <1>6
  <2> QED BY <1>5, <2>1
<1>7. CASE i = 2
  <2>1. bits[1] = b1 /\ bits[2] = 1 - b2 /\ bits[3] = b3 /\ bits[4] = b4 /\ bits[5] = b5
    BY <1>3, <1>4, <1>7
  <2> QED BY <1>5, <2>1
<1>8. CASE i = 3
  <2>1. bits[1] = b1 /\ bits[2] = b2 /\ bits[3] = 1 - b3 /\ bits[4] = b4 /\ bits[5] = b5
    BY <1>3, <1>4, <1>8
  <2> QED BY <1>5, <2>1
<1>9. CASE i = 4
  <2>1. bits[1] = b1 /\ bits[2] = b2 /\ bits[3] = b3 /\ bits[4] = 1 - b4 /\ bits[5] = b5
    BY <1>3, <1>4, <1>9
  <2> QED BY <1>5, <2>1
<1>10. CASE i = 5
  <2>1. bits[1] = b1 /\ bits[2] = b2 /\ bits[3] = b3 /\ bits[4] = b4 /\ bits[5] = 1 - b5
    BY <1>3, <1>4, <1>10
  <2> QED BY <1>5, <2>1
<1> QED BY <1>6, <1>7, <1>8, <1>9, <1>10

\* The checksum holds for the frame that was sent whole, and for nothing else that a
\* sensor may have sent.
LEMMA ChecksumTells ==
    ASSUME punctual, TimeInv, SignalInv, step = "check"
    PROVE  /\ ChecksumHolds => data = sensor.frame
           /\ sensor.good => ChecksumHolds
<1>1. PICK a \in {2, 4}, bits \in Seq({0, 1}) : Sends(a, bits) /\ Follows(a, bits)
  BY DEF SignalInv, DhtSteps, Tracked
<1>2. data \in Seq({0, 1}) /\ Len(data) = 5 BY DEF TimeInv, CaptureOK, Bytes
<1>3. PICK N \in Nat : N = Len(bits) BY <1>1
<1>4. /\ \A i \in 1..5 : i <= N => data[i] = bits[i]
      /\ 5 > N => N = 4 /\ data[5] = 1
  BY <1>1, <1>2, <1>3 DEF Follows
<1>5. PICK f \in Frames : f = sensor.frame BY <1>1 DEF Sends
<1>6. /\ f \in Seq({0, 1}) /\ Len(f) = 5 /\ \A i \in 1..5 : f[i] \in {0, 1}
      /\ f[5] = (f[1] + f[2] + f[3] + f[4]) % 2
  BY FrameBits
<1>7. (\A i \in 1..5 : data[i] = f[i]) => data = f
  <2> SUFFICES ASSUME \A i \in 1..5 : data[i] = f[i] PROVE data = f OBVIOUS
  <2>1. Len(data) = Len(f) /\ \A i \in 1..Len(data) : data[i] = f[i] BY <1>2, <1>6
  <2> QED BY <1>2, <1>6, <2>1, SeqEqual
<1>8. CASE bits = f
  <2>0. N = 5 BY <1>3, <1>6, <1>8
  <2>1. \A i \in 1..5 : data[i] = f[i] BY <1>4, <1>8, <2>0
  <2>2. ChecksumHolds BY <1>6, <2>1 DEF ChecksumHolds
  <2> QED BY <1>5, <1>7, <2>1, <2>2
<1>9. CASE ~sensor.good /\ bits \in Turned(f)
  <2>1. N = 5
    <3>1. bits \in [1..5 -> {0, 1}]
      <4>1. f \in [1..5 -> {0, 1}] BY DEF Frames, Bytes
      <4>2. PICK i \in 1..5 : bits = [f EXCEPT ![i] = 1 - @] BY <1>9 DEF Turned, Bytes
      <4> QED BY <4>1, <4>2
    <3>2. 5 \in Nat OBVIOUS
    <3> QED BY <1>3, <3>1, <3>2, FunctionIsSeq, Zenon
  <2>2. \A i \in 1..5 : data[i] = bits[i] BY <1>4, <2>1
  <2>3. ~ChecksumHolds BY <1>9, <2>2, TurnedFails DEF ChecksumHolds
  <2> QED BY <1>9, <2>3
<1>10. CASE ~sensor.good /\ \E n \in 0..(Bytes - 1) : bits = SubSeq(f, 1, n)
  <2>1. PICK n \in 0..4 : bits = SubSeq(f, 1, n) BY <1>10 DEF Bytes
  <2>2. Len(bits) = n /\ \A i \in 1..n : bits[i] = f[i]
    <3>1. \A i \in 1..n : f[i] \in {0, 1} BY <1>6
    <3>2. Len(bits) = n BY <2>1, <3>1, SubSeqProperties
    <3>3. \A i \in 1..((n - 1) + 1) : SubSeq(f, 1, n)[i] = f[(1 + i) - 1]
      BY <3>1, SubSeqProperties
    <3> QED BY <2>1, <3>2, <3>3
  <2>3. n = 4 /\ data[5] = 1 BY <1>3, <1>4, <2>2
  <2>4. \A i \in 1..4 : data[i] = f[i] BY <1>3, <1>4, <2>2, <2>3
  <2>5. ChecksumHolds => f[5] = 1 BY <1>6, <2>3, <2>4 DEF ChecksumHolds
  <2>6. ChecksumHolds => \A i \in 1..5 : data[i] = f[i]
    <3> SUFFICES ASSUME ChecksumHolds, NEW i \in 1..5 PROVE data[i] = f[i] OBVIOUS
    <3>1. CASE i = 5 BY <2>3, <2>5, <3>1
    <3>2. CASE i # 5 BY <2>4, <3>2
    <3> QED BY <3>1, <3>2
  <2> QED BY <1>5, <1>7, <1>10, <2>6
<1>11. \/ bits = f
       \/ ~sensor.good /\ bits \in Turned(f)
       \/ ~sensor.good /\ \E n \in 0..(Bytes - 1) : bits = SubSeq(f, 1, n)
  BY <1>1, <1>5, Zenon DEF Sends
<1> QED BY <1>8, <1>9, <1>10, <1>11

\* A capture starts before the sensor answers.
LEMMA StartSignal ==
    ASSUME SignalInv, Start PROVE SignalInv'
<1>1. /\ sensor' \in Sensors /\ t' \in 4..5 /\ data' = <<>> /\ step' = "answer"
      /\ UNCHANGED reading
  BY DEF Start, CaptureBegins
<1>2. ReadingIsTheSensors' BY <1>1 DEF SignalInv, ReadingIsTheSensors
<1>3. CASE sensor' \in Absent BY <1>1, <1>2, <1>3 DEF SignalInv, Tracked
<1>4. CASE sensor' \notin Absent
  <2>1. PICK a \in {2, 4}, bits \in Seq({0, 1}) : Sends(a, bits)' BY <1>1, <1>4, SensorSends
  <2>2. Len(data') = 0 /\ Len(bits) \in Nat BY <1>1, EmptySeq
  <2>3. Follows(a, bits)' BY <1>1, <2>2 DEF Follows
  <2>4. Tracked' BY <2>1, <2>3, Zenon DEF Tracked
  <2> QED BY <1>2, <2>4 DEF SignalInv
<1> QED BY <1>3, <1>4

\* Outside of a capture, the reading stays or goes.
LEMMA NotReading ==
    ASSUME SignalInv, step' \in {"idle", "interval"} \cup I2cSteps, reading' \in {reading, <<>>}
    PROVE  SignalInv'
BY DEF SignalInv, ReadingIsTheSensors, I2cSteps, DhtSteps

\* Nothing is said of a capture that slipped, from there to its end.
LEMMA SlippedSignal ==
    ASSUME SignalInv, ~punctual', UNCHANGED reading PROVE SignalInv'
BY Zenon DEF SignalInv, ReadingIsTheSensors

\* Within a capture it stays so.
LEMMA CaptureSignal ==
    ASSUME TimeInv, SignalInv, AnswerLow \/ AnswerHigh \/ Fell \/ Rise \/ Sample \/ Mismatch
    PROVE  SignalInv'
<1>1. UNCHANGED reading BY DEF AnswerLow, AnswerHigh, Fell, Rise, Sample, Mismatch, InCapture
<1>2. punctual' = punctual
  BY DEF AnswerLow, AnswerHigh, Fell, Rise, Sample, Mismatch, WaitFor, Comes
<1>3. CASE ~punctual BY <1>1, <1>2, <1>3, SlippedSignal
<1>4. CASE punctual
  <2>1. CASE Mismatch
    <3>1. step = "check" /\ ~ChecksumHolds /\ step' = "failed" /\ UNCHANGED sensor
      BY <2>1 DEF Mismatch, InCapture
    <3>2. ~sensor.good BY <1>4, <3>1, ChecksumTells
    <3> QED BY <1>1, <3>1, <3>2, Fails
  <2> QED BY <1>4, <2>1, AnswerLowSignal, AnswerHighSignal, FellSignal, RiseSignal, SampleSignal
<1> QED BY <1>3, <1>4

\* Every step keeps the signal invariant.
LEMMA NextSignal ==
    ASSUME TimeInv, SignalInv, [BoardNext]_boardVars PROVE SignalInv'
<1>1. CASE Pass \/ \E ticks \in {1} : delay(ticks)
  BY <1>1, NotReading DEF Pass, delay, Idle
<1>2. CASE Dht
  <2>1. ASSUME NEW pin \in SensorPins, NEW model \in Models, NEW retries \in 1..MaxRetries,
               CallDht(pin, model, retries)
        PROVE  SignalInv'
    BY <2>1, NotReading DEF CallDht
  <2>2. CASE Start BY <2>2, StartSignal
  <2>3. CASE Slip
    <3>1. ~punctual' /\ UNCHANGED reading BY <2>3 DEF Slip, CaptureBegins
    <3> QED BY <3>1, SlippedSignal
  <2>4. CASE AnswerLow \/ AnswerHigh \/ Fell \/ Rise \/ Sample \/ Mismatch BY <2>4, CaptureSignal
  <2>5. CASE Succeed
    <3>1. step = "check" /\ ChecksumHolds BY <2>5 DEF Succeed
    <3>2. punctual => data = sensor.frame BY <3>1, ChecksumTells
    <3>3. reading' = [got |-> data, sent |-> sensor.frame, punctual |-> punctual] /\ step' = "idle"
      BY <2>5 DEF Succeed, Returns
    <3>4. reading'.punctual => reading'.got = reading'.sent BY <3>2, <3>3
    <3> QED BY <3>3, <3>4 DEF SignalInv, ReadingIsTheSensors, DhtSteps
  <2>6. CASE Fail
    <3>1. step' \in {"idle", "interval"} /\ reading' = reading BY <2>6 DEF Fail, Returns
    <3> QED BY <3>1, NotReading
  <2> QED BY <1>2, <2>1, <2>2, <2>3, <2>4, <2>5, <2>6 DEF Dht
<1>3. CASE I2c
  <2>1. ASSUME NEW tool \in {"transfer", "scan"}, NEW sda \in Pins, NEW scl \in Pins,
               CallI2c(tool, sda, scl)
        PROVE  SignalInv'
    BY <2>1, NotReading DEF CallI2c, Idle, I2cSteps
  <2>2. CASE InstallDriver \/ InstallFails \/ Transfer \/ ScanNext \/ ScanFails \/ ScanEnds
    <3>1. step' \in {"idle", "i2c_scan", "i2c_transfer"} /\ reading' = reading
      BY <2>2 DEF InstallDriver, InstallFails, Transfer, ScanNext, ScanFails, ScanEnds,
                  I2cReturns, InI2c
    <3> QED BY <3>1, NotReading DEF I2cSteps
  <2> QED BY <1>3, <2>1, <2>2 DEF I2c
<1>4. CASE UNCHANGED boardVars
  BY <1>4 DEF boardVars, dht, SignalInv, Tracked, Sends, Follows, Level, ReadingIsTheSensors
<1> QED BY <1>1, <1>2, <1>3, <1>4 DEF BoardNext

-----------------------------------------------------------------------------
(* Board: the theorems *)

\* The invariant about calls, the clock and the driver holds in every reachable state.
THEOREM TimeInductive == BoardSpec => []TimeInv
BY InitTime, NextTime, PTL DEF BoardSpec

\* Every variable stays in its range, and the I2C driver is installed only within a call
\* and for its pins: every path out of a tool of tools_i2c.c deletes it.
THEOREM BoardTypeCorrect == BoardSpec => []BoardTypeOK
BY TimeInductive, TimeParts, PTL

\* Between two captures of a sensor there is its minimum interval, but for less than a
\* tick (dht_enforce_min_interval, and the delay between attempts).
THEOREM DhtReadsSpaced == BoardSpec => ReadsSpaced
<1>1. ASSUME TimeInv, [BoardNext]_boardVars
      PROVE  [step = "interval" /\ step' # "interval" /\ ended[call.pin] # Never =>
                 now' - ended[call.pin] > 2 * MinInterval[call.model] - 2]_boardVars
  <2> SUFFICES ASSUME step = "interval", step' # "interval", ended[call.pin] # Never,
                      BoardNext
               PROVE  now' - ended[call.pin] > 2 * MinInterval[call.model] - 2
    BY <1>1 DEF boardVars
  <2>1. CaptureBegins
    BY DEF Start, Slip, BoardNext, Pass, delay, Idle, Dht, CallDht, AnswerLow, AnswerHigh, Fell, Rise, Sample,
           InCapture, Succeed, Mismatch, Fail, Returns, I2c, CallI2c, InstallDriver,
           InstallFails, Transfer, ScanNext, ScanFails, ScanEnds, InI2c
  <2>2. now' = AfterInterval BY <2>1 DEF CaptureBegins
  <2> QED BY <1>1, <2>2, IntervalPasses
<1> QED BY <1>1, TimeInductive, PTL DEF BoardSpec, ReadsSpaced

\* What dht_read returns is what the sensor sent, and a sensor that sends its frame right is
\* read, if no step of the capture came more than 10 us late: 35 us after an edge is within
\* the bit, and the checksum refuses a bit that noise turned and a frame cut short.
THEOREM ReadingCorrect == BoardSpec => []ReadingIsTheSensors
<1>1. BoardInit => SignalInv
  BY DEF BoardInit, SignalInv, ReadingIsTheSensors, DhtSteps
<1>2. TimeInv /\ SignalInv /\ [BoardNext]_boardVars => SignalInv' BY NextSignal
<1>3. SignalInv => ReadingIsTheSensors BY DEF SignalInv
<1> QED BY <1>1, <1>2, <1>3, TimeInductive, PTL DEF BoardSpec
=============================================================================
