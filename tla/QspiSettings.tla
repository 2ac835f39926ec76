---------------------------- MODULE QspiSettings ----------------------------
(***************************************************************************)
(* The settings of the channels in flash: the WRITE_QSPI and READ_QSPI     *)
(* messages of chan_settings (control.c) and the flash routines of         *)
(* qspi_flash.c.  Every client connection has a thread that runs           *)
(* chan_settings, and so has the console, at a lower priority; nothing     *)
(* excludes two of them from the flash.  Boot adds the restore at boot,    *)
(* and resets.                                                             *)
(*                                                                         *)
(* The settings of a channel are a set of one bits.  The flash is modelled *)
(* as NOR flash behaves: erasing sets every bit, programming only clears   *)
(* bits, both need a write enable and take a while, and a busy flash       *)
(* answers status reads only.  Its driver is shared as well: while one     *)
(* thread is preempted inside a transfer it refuses the transfers of the   *)
(* others, which qspi_flash.c does not notice.                             *)
(***************************************************************************)
EXTENDS Integers, FiniteSets

CONSTANTS
    Chans,      \* the channels, each with its sector
    Asked,      \* bound on the channels that messages name
    Clients,    \* threads that run chan_settings
    Console,    \* the thread of the console, which has the lower priority
    Bits,       \* bit positions of a channel's settings
    Contents,   \* bound on what a sector holds at first
    MaxBegun    \* bound on the saves and loads that are begun

ASSUME QspiAssumption ==
    IsFiniteSet(Bits) /\ Contents \subseteq SUBSET Bits /\ MaxBegun \in Nat

NoChan == 0
ASSUME ChanAssumption == NoChan \notin Chans /\ Asked \subseteq Chans

VARIABLES
    regs,       \* regs[c]: registers and scale factors of channel c
    flash,      \* flash[c]: the sector of channel c
    wel, wip,   \* write enable latch; operation in progress
    driver,     \* the thread that is inside a transfer, if any
    pc, chan, qspibuf,   \* per client: where it is, its channel, its buffer
    begun,      \* saves and loads begun so far
    saved,      \* history: what the last finished save of a channel stored
    cut,        \* history: channels whose save did not see its end
    alone,      \* history: the client that alone uses the flash to save
    dropped     \* history: clients whose command lost a transfer it needed

device == <<flash, wel, wip>>
threads == <<pc, chan, qspibuf>>
history == <<saved, cut, alone, dropped>>
vars == <<regs, device, driver, threads, begun, history>>

Ready == [op |-> "none", sector |-> NoChan, data |-> {}]

\* flash and threads before the first command
Quiet ==
    /\ flash \in [Chans -> Contents]
    /\ wel = FALSE /\ wip = Ready
    /\ pc = [t \in Clients |-> "idle"] /\ chan = [t \in Clients |-> NoChan]
    /\ qspibuf = [t \in Clients |-> {}]
    /\ driver = {} /\ begun = 0
    /\ saved = flash /\ cut = {} /\ alone = {} /\ dropped = {}

Init == Quiet /\ regs = flash

-----------------------------------------------------------------------------
(* The flash.                                                              *)
Busy == wip.op # "none"

\* write enable; ignored while busy
WriteEnable == wel' = (wel \/ ~Busy)

\* an erase or a page program; ignored while busy or not enabled
Start(op, sector, data) ==
    wip' = IF wel /\ ~Busy THEN [op |-> op, sector |-> sector, data |-> data]
           ELSE wip

Result(old) == IF wip.op = "erase" THEN Bits ELSE old \cap wip.data

Complete ==
    /\ Busy
    /\ flash' = [flash EXCEPT ![wip.sector] = Result(@)]
    /\ wip' = Ready /\ wel' = FALSE
    /\ UNCHANGED <<regs, driver, threads, begun, history>>

\* what a read returns; nothing is driven while the flash is busy
ReadOf(sector) == IF Busy THEN SUBSET Bits ELSE {flash[sector]}

-----------------------------------------------------------------------------
(* The driver.  A thread may be preempted inside a transfer; until it has  *)
(* returned every other transfer returns XST_DEVICE_BUSY at once.  What    *)
(* the flash does with a command is decided when the transfer begins: no   *)
(* other thread reaches the flash before it is over.                       *)
Refused == driver # {}

Transfer(t) == driver' \in {{}, {t}} /\ UNCHANGED dropped

Refuse(t) == dropped' = dropped \cup {t} /\ UNCHANGED driver

\* fixed priorities: the console runs while the clients wait for messages
Runs(t) == t = Console => \A u \in Clients \ {t} : pc[u] = "idle"

\* t runs, outside the driver, at one of labels
Calls(t, labels) == pc[t] \in labels /\ Runs(t) /\ t \notin driver

Return(t) ==
    /\ t \in driver /\ Runs(t)
    /\ driver' = {}
    /\ UNCHANGED <<regs, device, threads, begun, history>>

-----------------------------------------------------------------------------
(* chan_settings.  Each flash command is one XQspiPs_PolledTransfer.       *)
Goto(t, label) == pc' = [pc EXCEPT ![t] = label]

Erasing == {"erase_wait", "erase_poll"}   \* FlashStatus not yet set; busy
Writing == {"write_wait", "write_poll"}

SetRegister(t, c, v) ==
    /\ Calls(t, {"idle"})
    /\ regs' = [regs EXCEPT ![c] = v]
    /\ UNCHANGED <<device, driver, threads, begun, history>>

Saving(t) == pc[t] \notin {"idle", "load", "read", "disperse"}

Begin(t, c, label) ==
    /\ Calls(t, {"idle"}) /\ begun < MaxBegun
    /\ Goto(t, label) /\ chan' = [chan EXCEPT ![t] = c]
    /\ begun' = begun + 1
    /\ UNCHANGED <<regs, device, driver, saved, cut, dropped>>

WriteQspi(t, c) ==
    /\ Begin(t, c, "erase_enable")
    /\ alone' = IF Busy \/ \E u \in Clients : Saving(u) THEN {} ELSE {t}
    /\ UNCHANGED qspibuf

ReadQspi(t, c) == Begin(t, c, "load") /\ UNCHANGED <<qspibuf, alone>>

\* Mutant: no write enable before the page program.
EnableEraseOnly(t) ==
    /\ Calls(t, {"erase_enable", "write_enable"})
    /\ IF Refused \/ pc[t] = "write_enable"
       THEN UNCHANGED <<wel, driver, dropped>> ELSE Transfer(t) /\ WriteEnable
    /\ Goto(t, IF pc[t] = "erase_enable" THEN "erase" ELSE "write")
    /\ UNCHANGED <<regs, flash, wip, chan, qspibuf, begun, saved, cut, alone>>

Enable(t) ==
    /\ Calls(t, {"erase_enable", "write_enable"})
    /\ IF Refused THEN Refuse(t) /\ UNCHANGED wel ELSE Transfer(t) /\ WriteEnable
    /\ Goto(t, IF pc[t] = "erase_enable" THEN "erase" ELSE "write")
    /\ UNCHANGED <<regs, flash, wip, chan, qspibuf, begun, saved, cut, alone>>

Erase(t) ==
    /\ Calls(t, {"erase"})
    /\ IF Refused THEN Refuse(t) /\ UNCHANGED wip
       ELSE Transfer(t) /\ Start("erase", chan[t], {})
    /\ Goto(t, "erase_wait")
    /\ UNCHANGED <<regs, flash, wel, chan, qspibuf, begun, saved, cut, alone>>

\* the two ends of a turn of the loop that waits
Again(t) == Goto(t, IF pc[t] \in Erasing THEN "erase_poll" ELSE "write_poll")
GoOn(t) == Goto(t, IF pc[t] \in Erasing THEN "gather" ELSE "read")

\* Mutant: the erase is begun again when it is done.
PollErasesAgain(t) ==
    /\ Calls(t, Erasing \cup Writing) /\ ~Refused /\ Transfer(t)
    /\ IF Busy THEN Again(t)
       ELSE Goto(t, IF pc[t] \in Erasing THEN "erase_enable" ELSE "read")
    /\ UNCHANGED <<regs, device, chan, qspibuf, begun, saved, cut, alone>>

\* the status register is read until the flash is not busy
Poll(t) ==
    /\ Calls(t, Erasing \cup Writing) /\ ~Refused /\ Transfer(t)
    /\ IF Busy THEN Again(t) ELSE GoOn(t)
    /\ IF ~Busy /\ pc[t] \in Writing
       THEN /\ saved' = [saved EXCEPT ![chan[t]] = flash[chan[t]]]
            /\ cut' = cut \ {chan[t]}
       ELSE UNCHANGED <<saved, cut>>
    /\ UNCHANGED <<regs, device, chan, qspibuf, begun, alone>>

(* A refused status read leaves FlashStatus as it is: busy once it has     *)
(* been read so, and the loop goes on; what the stack held before, and the *)
(* loop goes on or is left with the flash in whatever state.               *)
PollBlind(t) ==
    /\ Calls(t, Erasing \cup Writing) /\ Refused
    /\ \/ Again(t) /\ UNCHANGED <<cut, dropped>>
       \/ /\ pc[t] \in {"erase_wait", "write_wait"} /\ GoOn(t)
          /\ dropped' = dropped \cup {t}
          /\ cut' = IF pc[t] = "write_wait" THEN cut \cup {chan[t]} ELSE cut
    /\ UNCHANGED <<regs, device, driver, chan, qspibuf, begun, saved, alone>>

QspiGatherData(t) ==
    /\ Calls(t, {"gather"})
    /\ qspibuf' = [qspibuf EXCEPT ![t] = regs[chan[t]]]
    /\ Goto(t, "write_enable")
    /\ UNCHANGED <<regs, device, driver, chan, begun, history>>

QspiFlashWrite(t) ==
    /\ Calls(t, {"write"})
    /\ IF Refused THEN Refuse(t) /\ UNCHANGED wip
       ELSE Transfer(t) /\ Start("program", chan[t], qspibuf[t])
    /\ Goto(t, "write_wait")
    /\ UNCHANGED <<regs, flash, wel, chan, qspibuf, begun, saved, cut, alone>>

\* what the buffer holds after a refused read: for a load it was never set
Unread(t) == IF pc[t] = "load" THEN SUBSET Bits ELSE {qspibuf[t]}

QspiFlashRead(t) ==
    /\ Calls(t, {"load", "read"})
    /\ IF Refused THEN Refuse(t) ELSE Transfer(t)
    /\ \E v \in IF Refused THEN Unread(t) ELSE ReadOf(chan[t]) :
            qspibuf' = [qspibuf EXCEPT ![t] = v]
    /\ Goto(t, "disperse")
    /\ UNCHANGED <<regs, device, chan, begun, saved, cut, alone>>

QspiDisperseData(t) ==
    /\ Calls(t, {"disperse"})
    /\ regs' = [regs EXCEPT ![chan[t]] = qspibuf[t]]
    /\ Goto(t, "idle") /\ chan' = [chan EXCEPT ![t] = NoChan]
    /\ qspibuf' = [qspibuf EXCEPT ![t] = {}] /\ dropped' = dropped \ {t}
    /\ alone' = alone \ {t}
    /\ UNCHANGED <<device, driver, begun, saved, cut>>

-----------------------------------------------------------------------------
Step(t) == \/ Enable(t) \/ Erase(t) \/ Poll(t) \/ PollBlind(t)
           \/ QspiGatherData(t) \/ QspiFlashWrite(t) \/ QspiFlashRead(t)
           \/ QspiDisperseData(t) \/ Return(t)

\* a message of chan_settings
Command(t) == \E c \in Asked : \/ WriteQspi(t, c) \/ ReadQspi(t, c)
                               \/ \E v \in {Bits, {}} : SetRegister(t, c, v)

Next == Complete \/ \E t \in Clients : Step(t) \/ Command(t)

(* The flash finishes what it started.  Clients have one priority and are  *)
(* time-sliced: a thread that can run again and again takes its turn.  The *)
(* console can run only while no client is in a command (Runs).            *)
Fairness == WF_vars(Complete) /\ \A t \in Clients : SF_vars(Step(t))

Spec == Init /\ [][Next]_vars /\ Fairness

-----------------------------------------------------------------------------
TypeOK ==
    /\ regs \in [Chans -> SUBSET Bits] /\ flash \in [Chans -> SUBSET Bits]
    /\ wel \in BOOLEAN
    /\ wip \in [op : {"none", "erase", "program"}, sector : Chans \cup {NoChan},
                data : SUBSET Bits]
    /\ driver \subseteq Clients
    /\ pc \in [Clients -> {"idle", "erase_enable", "erase", "erase_wait",
                  "erase_poll", "gather", "write_enable", "write", "write_wait",
                  "write_poll", "load", "read", "disperse"}]
    /\ chan \in [Clients -> Chans \cup {NoChan}]
    /\ qspibuf \in [Clients -> SUBSET Bits]
    /\ begun \in 0..MaxBegun /\ saved \in [Chans -> SUBSET Bits]
    /\ cut \subseteq Chans /\ alone \subseteq Clients /\ dropped \subseteq Clients

\* the step with which t leaves the last wait of its save
SaveDone(t) == pc[t] \in Writing /\ pc'[t] = "read"

(* When a save that found the flash ready, that no other save overlaps and *)
(* that lost no transfer to a busy driver has been polled to its end, the  *)
(* sector holds exactly what it gathered, whatever the sector held before  *)
(* and whatever is loaded meanwhile: both enables, both waits and the      *)
(* erase are needed for that.                                              *)
SaveIsExact ==
    [][\A t \in alone : SaveDone(t) /\ t \notin dropped' =>
            flash[chan[t]] = qspibuf[t]]_vars

\* a client that waits for a status the console's transfer keeps from it,
\* and thereby keeps the console from ending the transfer
Stranded(t) == pc[t] \in {"erase_poll", "write_poll"} /\ Console \in driver \ {t}

(* A save or a load that has begun is finished, even when another client   *)
(* uses the flash at the same time, unless a client that preempted the     *)
(* console inside a transfer waits for the flash: that one waits forever.  *)
CommandEnds ==
    \A t \in Clients :
        pc[t] # "idle" ~> pc[t] = "idle" \/ \E u \in Clients : Stranded(u)

(* "Writing current values for CH%d to QSPI FLASH": what a save has put    *)
(* into the sector, reads back and disperses to the live registers is what *)
(* it gathered from them.  Stated for saves all of whose transfers the     *)
(* driver has carried out.                                                 *)
SaveStoresGathered ==
    [][\A t \in Clients : SaveDone(t) /\ t \notin dropped' =>
            flash[chan[t]] = qspibuf[t]]_vars
=============================================================================
