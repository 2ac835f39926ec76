-------------------------------- MODULE Boot --------------------------------
(***************************************************************************)
(* From reset to the running server: main and realmain (main.c), the       *)
(* configuration file of the SD card (sdcard.c), the restore of the        *)
(* settings from flash, the network (net_setup.c) and the console's reboot *)
(* (console.c), around the commands of QspiSettings.                       *)
(*                                                                         *)
(* A reset may come at any moment.  Loss of power leaves a sector that was *)
(* being erased or programmed torn; the console's reboot leaves the flash  *)
(* going on with it while the software starts anew.                        *)
(***************************************************************************)
EXTENDS QspiSettings

CONSTANTS
    MaskBits,   \* the bits of the settings that are the fault mask register
    FaultMask,  \* those of them that main sets by default
    MaxLines,   \* bound on the lines of NET.CNF that matter here
    MaxResets   \* bound on resets

ASSUME BootAssumption ==
    /\ Console \in Clients /\ MaskBits \subseteq Bits /\ FaultMask \subseteq MaskBits
    /\ MaxLines \in Nat /\ MaxResets \in Nat
    /\ IsFiniteSet(Chans) /\ Chans # {} /\ Chans = 1..Cardinality(Chans)

VARIABLES
    boot,       \* the main thread: where it is and its local variables
    net,        \* the interface: "down", waiting for "dhcp", or "up"
    resets

bvars == <<boot, net, resets>>
allvars == <<vars, bvars>>

Cold == [pc |-> "init", card |-> 0, lines |-> 0, use_static |-> FALSE,
         chan |-> 1, readbuf |-> {}, garbled |-> {}]

BootInit ==
    /\ Quiet
    /\ regs = [c \in Chans |-> {}]
    /\ boot = Cold /\ net = "down"
    /\ resets = 0

Running == boot.pc = "run"
At(label) == boot.pc = label
Enter(label) == boot' = [boot EXCEPT !.pc = label]
NotTheFlash == UNCHANGED <<device, driver, threads, begun, history>>

-----------------------------------------------------------------------------
(* main: clocks, the I2C devices, the default fault mask.                  *)
HardwareInit ==
    /\ At("init") /\ Enter("card")
    /\ regs' = [c \in Chans |-> (regs[c] \ MaskBits) \cup FaultMask]
    /\ NotTheFlash /\ UNCHANGED <<net, resets>>

\* Mutant: it goes on trying until a card is found.
TryPartForever ==
    /\ At("card")
    /\ \/ \E n \in 0..MaxLines :
            boot' = [boot EXCEPT !.pc = "netconf", !.lines = n]
       \/ boot' = [boot EXCEPT !.card = 1 - @]
    /\ UNCHANGED <<vars, net, resets>>

(* sdcard_handle: mount 0:/, else 1:/; a card without NET.CNF is a card    *)
(* with no lines; without any card the configuration stays as it is.       *)
TryPart ==
    /\ At("card")
    /\ \/ \E n \in 0..MaxLines :
            boot' = [boot EXCEPT !.pc = "netconf", !.lines = n]
       \/ IF boot.card = 0 THEN boot' = [boot EXCEPT !.card = 1]
                           ELSE Enter("restore")
    /\ UNCHANGED <<vars, net, resets>>

(* A line of NET.CNF: dhcp and addr decide between DHCP and a fixed        *)
(* address, the last one counts; other lines set registers of their own.   *)
NetconfLine ==
    /\ At("netconf") /\ boot.lines > 0
    /\ \E s \in BOOLEAN : boot' = [boot EXCEPT !.lines = @ - 1, !.use_static = s]
    /\ UNCHANGED <<vars, net, resets>>

\* end of NET.CNF; the EEPROM files touch nothing that is modelled here
NetconfEnd ==
    /\ At("netconf") /\ boot.lines = 0 /\ Enter("restore")
    /\ UNCHANGED <<vars, net, resets>>

-----------------------------------------------------------------------------
(* InitSettingsfromQspi: for each channel, read the sector and disperse.   *)
RestoreRead ==
    /\ At("restore")
    /\ \E v \in ReadOf(boot.chan) :
          boot' = [boot EXCEPT !.pc = "disperse", !.readbuf = v,
                      !.garbled = IF Busy THEN @ \cup {boot.chan} ELSE @]
    /\ UNCHANGED <<vars, net, resets>>

\* Mutant: the loop ends before the last channel.
RestoreMost ==
    /\ At("disperse")
    /\ regs' = [regs EXCEPT ![boot.chan] = boot.readbuf]
    /\ boot' = IF boot.chan + 1 < Cardinality(Chans)
               THEN [boot EXCEPT !.pc = "restore", !.chan = @ + 1]
               ELSE [boot EXCEPT !.pc = "net"]
    /\ NotTheFlash /\ UNCHANGED <<net, resets>>

RestoreDisperse ==
    /\ At("disperse")
    /\ regs' = [regs EXCEPT ![boot.chan] = boot.readbuf]
    /\ boot' = IF boot.chan < Cardinality(Chans)
               THEN [boot EXCEPT !.pc = "restore", !.chan = @ + 1]
               ELSE [boot EXCEPT !.pc = "net"]
    /\ NotTheFlash /\ UNCHANGED <<net, resets>>

-----------------------------------------------------------------------------
\* net_setup: adding the interface, or starting DHCP, may fail
NetSetup ==
    /\ At("net") /\ Enter("listen")
    /\ net' \in {"down", IF boot.use_static THEN "up" ELSE "dhcp"}
    /\ UNCHANGED <<vars, resets>>

\* dhcp_client: an address is assigned
DhcpBound ==
    /\ net = "dhcp" /\ net' = "up"
    /\ UNCHANGED <<vars, boot, resets>>

(* psc_run: with its lock and its listening socket on_startup creates the  *)
(* threads; without one of them it returns.  realmain's conf is gone.      *)
Listen ==
    /\ At("listen")
    /\ \E label \in {"run", "failed"} : boot' = [Cold EXCEPT !.pc = label]
    /\ UNCHANGED <<vars, net, resets>>

\* psc_run has returned: realmain reports it, sleeps and reports it again
ServerGone == At("failed") /\ UNCHANGED allvars

BootStep == \/ HardwareInit \/ TryPart \/ NetconfLine \/ NetconfEnd
            \/ RestoreRead \/ RestoreDisperse \/ NetSetup \/ Listen

-----------------------------------------------------------------------------
(* Resets.                                                                 *)
\* a save from its erase command to the end of its program
InSave(t) == pc[t] \in Erasing \cup Writing
                      \cup {"erase", "gather", "write_enable", "write"}

\* no thread survives
Restart ==
    /\ resets < MaxResets /\ resets' = resets + 1
    /\ pc' = [t \in Clients |-> "idle"] /\ chan' = [t \in Clients |-> NoChan]
    /\ qspibuf' = [t \in Clients |-> {}]
    /\ driver' = {} /\ alone' = {} /\ dropped' = {}
    /\ boot' = Cold /\ net' = "down"
    /\ cut' = cut \cup {chan[t] : t \in {u \in Clients : InSave(u)}}
    /\ UNCHANGED <<begun, saved>>

\* what an interrupted operation may leave of a sector
Torn(old) == IF wip.op = "erase" THEN {v \in SUBSET Bits : old \subseteq v}
             ELSE {v \in SUBSET old : old \cap wip.data \subseteq v}

PowerLoss ==
    /\ Restart
    /\ IF Busy THEN \E v \in Torn(flash[wip.sector]) :
                        flash' = [flash EXCEPT ![wip.sector] = v]
               ELSE UNCHANGED flash
    /\ wel' = FALSE /\ wip' = Ready
    /\ regs' = [c \in Chans |-> {}]

(* The console's reboot: the flash is not reset, and the gateware either   *)
(* keeps its registers or is loaded again.                                 *)
Reboot ==
    /\ Running /\ Calls(Console, {"idle"})
    /\ Restart
    /\ UNCHANGED device
    /\ regs' \in {regs, [c \in Chans |-> {}]}

-----------------------------------------------------------------------------
\* a client needs the network, the console does not
Served(t) == Running /\ (t = Console \/ net = "up") /\ Command(t)

Software == \E t \in Clients : Step(t) \/ Served(t)

BootNext ==
    \/ (Complete \/ Software) /\ UNCHANGED bvars
    \/ BootStep \/ ServerGone \/ DhcpBound \/ PowerLoss \/ Reboot

(* The main thread is scheduled, a flash operation that was started ends   *)
(* and, as in QspiSettings, every client's thread gets its turn.           *)
BootSpec ==
    /\ BootInit /\ [][BootNext]_allvars
    /\ WF_allvars(BootStep) /\ WF_allvars(Complete /\ UNCHANGED bvars)
    /\ \A t \in Clients : SF_allvars(Step(t) /\ UNCHANGED bvars)

-----------------------------------------------------------------------------
BootTypeOK ==
    /\ TypeOK
    /\ boot \in [pc : {"init", "card", "netconf", "restore", "disperse",
                       "net", "listen", "run", "failed"},
                 card : {0, 1}, lines : 0..MaxLines, use_static : BOOLEAN,
                 chan : Chans, readbuf : SUBSET Bits, garbled : SUBSET Chans]
    /\ net \in {"down", "dhcp", "up"}
    /\ resets \in 0..MaxResets

(* When the server starts, every channel has the settings that its last    *)
(* finished save stored, whatever resets came in between and whatever      *)
(* defaults were written before the restore.  Excepted are a channel whose *)
(* save a reset has cut off or a refused status read let go on too early,  *)
(* and one that was read while the flash was still busy with what it began *)
(* before a reboot.                                                        *)
BootRestoresSaved ==
    [][~Running /\ Running' =>
         \A c \in Chans \ (cut \cup boot.garbled) : regs'[c] = saved[c]]_allvars

(* After every reset the server starts or, when it gets no lock or no      *)
(* socket, says so: neither a missing card nor an interface that cannot be *)
(* added nor a busy flash stops the main thread on its way there.          *)
BootEnds == ~Running ~> Running \/ At("failed")
=============================================================================
