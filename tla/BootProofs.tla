----------------------------- MODULE BootProofs -----------------------------
(***************************************************************************)
(* Proofs about the settings in flash, through saves, loads, loss of power *)
(* and reboots, for every number of channels, clients and bits.            *)
(***************************************************************************)
EXTENDS Boot, FiniteSetTheorems, TLAPS

-----------------------------------------------------------------------------
(* The inductive invariant.                                                *)

\* a client in a command has a channel, and so has a busy flash
HasChannel ==
    /\ \A t \in Clients : pc[t] # "idle" => chan[t] \in Chans
    /\ Busy => wip.sector \in Chans

\* what a client that alone uses the flash has reached in its save
Erased(t) == flash[chan[t]] = Bits
EraseWait(t) == Busy => wip.op = "erase" /\ wip.sector = chan[t]
WriteWait(t) ==
    IF Busy THEN /\ wip.op = "program" /\ wip.sector = chan[t]
                 /\ wip.data = qspibuf[t] /\ Erased(t)
    ELSE flash[chan[t]] = qspibuf[t]
Stage(t) ==
    /\ pc[t] \notin Erasing \cup Writing => ~Busy
    /\ pc[t] \in {"erase", "write"} => wel
    /\ pc[t] \in {"gather", "write_enable", "write"} => Erased(t)
    /\ pc[t] \in Erasing => EraseWait(t) /\ (~Busy => Erased(t))
    /\ pc[t] \in Writing => WriteWait(t)
AloneInv ==
    \A t \in alone : /\ t \in dropped \/ Stage(t)
                     /\ \A u \in Clients : u # t => ~Saving(u)

\* a channel whose sector a save or its remains may change
Touched(c) == c \in cut \/ \E t \in Clients : InSave(t) /\ chan[t] = c
BusyInv ==
    Busy => \/ wip.sector \in cut
            \/ \E t \in Clients : InSave(t) /\ chan[t] = wip.sector
StoredInv == \A c \in Chans : flash[c] = saved[c] \/ Touched(c)

\* before the server runs no command does, and what has been restored stays
Excused(c) == c \in cut \/ c \in boot.garbled
IdleInv == ~Running => \A t \in Clients : pc[t] = "idle"
RestoreInv ==
    /\ At("disperse") => \/ Excused(boot.chan) \/ boot.readbuf = saved[boot.chan]
    /\ \A c \in Chans : /\ (At("restore") \/ At("disperse")) /\ c < boot.chan =>
                             Excused(c) \/ regs[c] = saved[c]
                        /\ At("net") \/ At("listen") => Excused(c) \/ regs[c] = saved[c]
    /\ At("init") \/ At("card") \/ At("netconf") => boot.chan = 1

BootInv == /\ BootTypeOK /\ HasChannel /\ AloneInv /\ BusyInv /\ StoredInv
           /\ IdleInv /\ RestoreInv

-----------------------------------------------------------------------------
\* The channels are numbered from 1.
LEMMA ChanNumbers ==
    /\ Cardinality(Chans) \in Nat /\ 1 \in Chans
    /\ \A c : c \in Chans <=> c \in Nat /\ 1 <= c /\ c <= Cardinality(Chans)
<1>1. Cardinality(Chans) \in Nat
  BY BootAssumption, FS_CardinalityType DEF BootAssumption
<1>2. \A c : c \in Chans <=> c \in Nat /\ 1 <= c /\ c <= Cardinality(Chans)
  BY <1>1, BootAssumption DEF BootAssumption
<1>3. 1 \in Chans
  <2>1. PICK c : c \in Chans
    BY BootAssumption DEF BootAssumption
  <2>2. 1 <= Cardinality(Chans)
    BY <1>1, <1>2, <2>1
  <2>3. QED
    BY <1>2, <2>2
<1>4. QED
  BY <1>1, <1>2, <1>3

\* Before the first command.
LEMMA InitBootInv == BootInit => BootInv
<1> SUFFICES ASSUME BootInit PROVE BootInv
  OBVIOUS
<1>1. /\ flash \in [Chans -> Contents] /\ wel = FALSE /\ wip = Ready /\ driver = {}
      /\ pc = [t \in Clients |-> "idle"] /\ chan = [t \in Clients |-> NoChan]
      /\ qspibuf = [t \in Clients |-> {}] /\ begun = 0 /\ saved = flash /\ cut = {}
      /\ alone = {} /\ dropped = {} /\ regs = [c \in Chans |-> {}] /\ boot = Cold /\ net = "down"
      /\ resets = 0
  BY DEF BootInit, Quiet
<1>2. boot.pc = "init" /\ boot.chan = 1 /\ ~Busy
  BY <1>1 DEF Cold, Busy, Ready
<1>3. TypeOK
  <2>1. regs \in [Chans -> SUBSET Bits]
    BY <1>1
  <2>2. flash \in [Chans -> SUBSET Bits]
    BY <1>1, QspiAssumption DEF QspiAssumption
  <2>3. wip \in [op : {"none", "erase", "program"}, sector : Chans \cup {NoChan},
                 data : SUBSET Bits]
    BY <1>1 DEF Ready
  <2>4. /\ pc \in [Clients -> {"idle", "erase_enable", "erase", "erase_wait",
                     "erase_poll", "gather", "write_enable", "write", "write_wait",
                     "write_poll", "load", "read", "disperse"}]
        /\ chan \in [Clients -> Chans \cup {NoChan}]
        /\ qspibuf \in [Clients -> SUBSET Bits]
    BY <1>1
  <2>5. begun \in 0..MaxBegun
    BY <1>1, QspiAssumption DEF QspiAssumption
  <2>6. /\ wel \in BOOLEAN /\ driver \subseteq Clients /\ cut \subseteq Chans
        /\ alone \subseteq Clients /\ dropped \subseteq Clients
    BY <1>1
  <2>7. saved \in [Chans -> SUBSET Bits]
    BY <1>1, <2>2
  <2>8. QED
    BY <2>1, <2>2, <2>3, <2>4, <2>5, <2>6, <2>7 DEF TypeOK
<1>4. BootTypeOK
  <2>1. 0 \in 0..MaxLines /\ 0 \in 0..MaxResets
    BY BootAssumption DEF BootAssumption
  <2>2. QED
    BY <1>1, <1>3, <2>1, ChanNumbers DEF BootTypeOK, Cold
<1>5. HasChannel /\ AloneInv /\ BusyInv /\ StoredInv
  BY <1>1, <1>2 DEF HasChannel, AloneInv, BusyInv, StoredInv
<1>6. IdleInv /\ RestoreInv
  BY <1>1, <1>2 DEF IdleInv, RestoreInv, At
<1>7. QED
  BY <1>4, <1>5, <1>6 DEF BootInv

-----------------------------------------------------------------------------
(* Types and channels.                                                     *)

\* A flash command leaves the flash's registers typed, and names a channel.
LEMMA StartTypes ==
    ASSUME TypeOK, HasChannel, NEW op \in {"erase", "program"}, NEW c \in Chans,
           NEW data \in SUBSET Bits, Start(op, c, data)
    PROVE  /\ wip' \in [op : {"none", "erase", "program"},
                        sector : Chans \cup {NoChan}, data : SUBSET Bits]
           /\ Busy' => wip'.sector \in Chans
BY DEF TypeOK, HasChannel, Start, Busy

\* Only the stepping thread enters or leaves the driver or loses a transfer.
LEMMA DriverTypes ==
    ASSUME TypeOK, NEW t \in Clients, Step(t) \/ Command(t)
    PROVE  /\ driver' \subseteq Clients /\ dropped' \subseteq Clients
           /\ \A u \in Clients : u # t => (u \in dropped' <=> u \in dropped)
<1>1. /\ driver' \in {driver, {}, {t}}
      /\ dropped' \in {dropped, dropped \cup {t}, dropped \ {t}}
  <2>1. CASE Enable(t) \/ Erase(t)
    BY <2>1 DEF Enable, Erase, Transfer, Refuse
  <2>2. CASE Poll(t)
    BY <2>2 DEF Poll, Transfer
  <2>3. CASE PollBlind(t)
    BY <2>3 DEF PollBlind
  <2>4. CASE QspiGatherData(t) \/ Return(t)
    BY <2>4 DEF QspiGatherData, Return, history
  <2>5. CASE QspiFlashWrite(t) \/ QspiFlashRead(t)
    BY <2>5 DEF QspiFlashWrite, QspiFlashRead, Transfer, Refuse
  <2>6. CASE QspiDisperseData(t)
    BY <2>6 DEF QspiDisperseData
  <2>7. CASE Command(t)
    BY <2>7 DEF Command, WriteQspi, ReadQspi, SetRegister, Begin, history
  <2>8. QED
    BY <2>1, <2>2, <2>3, <2>4, <2>5, <2>6, <2>7 DEF Step
<1>2. driver \subseteq Clients /\ dropped \subseteq Clients
  BY DEF TypeOK
<1>3. QED
  BY <1>1, <1>2

\* A step of a command keeps types and channels.
LEMMA StepTypes ==
    ASSUME TypeOK, HasChannel, NEW t \in Clients, Step(t)
    PROVE  TypeOK' /\ HasChannel'
<1>0. driver' \subseteq Clients /\ dropped' \subseteq Clients
  BY DriverTypes
<1>1. CASE Enable(t)
  <2>1. /\ pc' = [pc EXCEPT ![t] = IF pc[t] = "erase_enable" THEN "erase" ELSE "write"]
        /\ pc[t] # "idle" /\ (wel' = wel \/ wel' = (wel \/ ~Busy))
        /\ UNCHANGED <<regs, flash, wip, chan, qspibuf, begun, saved, cut, alone>>
    BY <1>1 DEF Enable, Goto, WriteEnable, Calls
  <2>2. wel' \in BOOLEAN
    BY <2>1, Zenon DEF TypeOK, Busy
  <2>3. TypeOK'
    BY <1>0, <2>1, <2>2 DEF TypeOK
  <2>4. HasChannel'
    BY <2>1 DEF HasChannel, TypeOK, Busy
  <2>5. QED
    BY <2>3, <2>4
<1>2. CASE Erase(t) \/ QspiFlashWrite(t)
  <2> DEFINE op == IF Erase(t) THEN "erase" ELSE "program"
             data == IF Erase(t) THEN {} ELSE qspibuf[t]
  <2>1. /\ \/ pc' = [pc EXCEPT ![t] = "erase_wait"]
           \/ pc' = [pc EXCEPT ![t] = "write_wait"]
        /\ pc[t] # "idle" /\ (wip' = wip \/ Start(op, chan[t], data))
        /\ UNCHANGED <<regs, flash, wel, chan, qspibuf, begun, saved, cut, alone>>
    BY <1>2 DEF Erase, QspiFlashWrite, Goto, Calls
  <2>2. /\ chan[t] \in Chans /\ op \in {"erase", "program"} /\ data \in SUBSET Bits
    BY <2>1 DEF HasChannel, TypeOK
  <2>3. /\ wip' \in [op : {"none", "erase", "program"},
                     sector : Chans \cup {NoChan}, data : SUBSET Bits]
        /\ Busy' => wip'.sector \in Chans
    <3> HIDE DEF op, data
    <3>1. CASE wip' = wip
      BY <3>1 DEF TypeOK, HasChannel, Busy
    <3>2. CASE Start(op, chan[t], data)
      BY <2>2, <3>2, StartTypes
    <3>3. QED
      BY <2>1, <3>1, <3>2
  <2>4. TypeOK'
    BY <1>0, <2>1, <2>3 DEF TypeOK
  <2>5. HasChannel'
    BY <2>1, <2>3 DEF HasChannel, TypeOK
  <2>6. QED
    BY <2>4, <2>5
<1>3. CASE Poll(t) \/ PollBlind(t)
  <2>1. /\ \E l \in {"erase_poll", "write_poll", "gather", "read"} :
              pc' = [pc EXCEPT ![t] = l]
        /\ pc[t] # "idle"
        /\ UNCHANGED <<regs, flash, wel, wip, chan, qspibuf, begun, alone>>
    BY <1>3 DEF Poll, PollBlind, Goto, Again, GoOn, Calls, Erasing, Writing, device
  <2>2. chan[t] \in Chans
    BY <2>1 DEF HasChannel
  <2>3. /\ saved' = saved \/ saved' = [saved EXCEPT ![chan[t]] = flash[chan[t]]]
        /\ cut' \in {cut, cut \ {chan[t]}, cut \cup {chan[t]}}
    BY <1>3 DEF Poll, PollBlind
  <2>4. saved' \in [Chans -> SUBSET Bits] /\ cut' \subseteq Chans
    BY <2>2, <2>3 DEF TypeOK
  <2>5. TypeOK'
    BY <1>0, <2>1, <2>4 DEF TypeOK
  <2>6. HasChannel'
    BY <2>1 DEF HasChannel, TypeOK, Busy
  <2>7. QED
    BY <2>5, <2>6
<1>4. CASE QspiGatherData(t)
  <2>1. /\ pc' = [pc EXCEPT ![t] = "write_enable"] /\ pc[t] # "idle"
        /\ qspibuf' = [qspibuf EXCEPT ![t] = regs[chan[t]]]
        /\ UNCHANGED <<regs, flash, wel, wip, chan, begun, saved, cut, alone>>
    BY <1>4 DEF QspiGatherData, Goto, Calls, device, history
  <2>2. chan[t] \in Chans
    BY <2>1 DEF HasChannel
  <2>3. TypeOK'
    BY <1>0, <2>1, <2>2 DEF TypeOK
  <2>4. HasChannel'
    BY <2>1 DEF HasChannel, TypeOK, Busy
  <2>5. QED
    BY <2>3, <2>4
<1>5. CASE QspiFlashRead(t)
  <2>1. PICK v \in IF Refused THEN Unread(t) ELSE ReadOf(chan[t]) :
            qspibuf' = [qspibuf EXCEPT ![t] = v]
    BY <1>5 DEF QspiFlashRead
  <2>2. /\ pc' = [pc EXCEPT ![t] = "disperse"] /\ pc[t] # "idle"
        /\ UNCHANGED <<regs, flash, wel, wip, chan, begun, saved, cut, alone>>
    BY <1>5 DEF QspiFlashRead, Goto, Calls, device
  <2>3. chan[t] \in Chans
    BY <2>2 DEF HasChannel
  <2>4. v \in SUBSET Bits
    BY <2>1, <2>3 DEF ReadOf, Unread, TypeOK
  <2>5. TypeOK'
    BY <1>0, <2>1, <2>2, <2>4 DEF TypeOK
  <2>6. HasChannel'
    BY <2>2 DEF HasChannel, TypeOK, Busy
  <2>7. QED
    BY <2>5, <2>6
<1>6. CASE QspiDisperseData(t)
  <2>1. /\ pc[t] # "idle"
        /\ regs' = [regs EXCEPT ![chan[t]] = qspibuf[t]]
        /\ pc' = [pc EXCEPT ![t] = "idle"] /\ chan' = [chan EXCEPT ![t] = NoChan]
        /\ qspibuf' = [qspibuf EXCEPT ![t] = {}] /\ alone' = alone \ {t}
        /\ UNCHANGED <<flash, wel, wip, begun, saved, cut>>
    BY <1>6 DEF QspiDisperseData, Goto, Calls, device
  <2>2. chan[t] \in Chans
    BY <2>1 DEF HasChannel
  <2>3. TypeOK'
    BY <1>0, <2>1, <2>2 DEF TypeOK
  <2>4. HasChannel'
    BY <2>1 DEF HasChannel, TypeOK, Busy
  <2>5. QED
    BY <2>3, <2>4
<1>7. CASE Return(t)
  <2>1. UNCHANGED <<regs, flash, wel, wip, pc, chan, qspibuf, begun, saved, cut, alone>>
    BY <1>7 DEF Return, device, threads, history
  <2>2. QED
    BY <1>0, <2>1 DEF TypeOK, HasChannel, Busy
<1>8. QED
  BY <1>1, <1>2, <1>3, <1>4, <1>5, <1>6, <1>7 DEF Step

\* A command keeps types and channels.
LEMMA CommandTypes ==
    ASSUME TypeOK, HasChannel, NEW t \in Clients, Command(t)
    PROVE  TypeOK' /\ HasChannel'
<1>0. driver' \subseteq Clients /\ dropped' \subseteq Clients
  BY DriverTypes
<1>1. ASSUME NEW c \in Chans, WriteQspi(t, c) \/ ReadQspi(t, c)
      PROVE  TypeOK' /\ HasChannel'
  <2>1. /\ \E l \in {"erase_enable", "load"} : pc' = [pc EXCEPT ![t] = l]
        /\ chan' = [chan EXCEPT ![t] = c]
        /\ begun < MaxBegun /\ begun' = begun + 1
        /\ alone' \in {alone, {}, {t}}
        /\ UNCHANGED <<regs, flash, wel, wip, qspibuf, saved, cut>>
    BY <1>1 DEF WriteQspi, ReadQspi, Begin, Goto, device
  <2>2. begun' \in 0..MaxBegun
    BY <2>1, QspiAssumption DEF TypeOK, QspiAssumption
  <2>3. TypeOK'
    BY <1>0, <2>1, <2>2 DEF TypeOK
  <2>4. HasChannel'
    BY <2>1 DEF HasChannel, TypeOK, Busy
  <2>5. QED
    BY <2>3, <2>4
<1>2. ASSUME NEW c \in Chans, NEW v \in {Bits, {}}, SetRegister(t, c, v)
      PROVE  TypeOK' /\ HasChannel'
  <2>1. /\ regs' = [regs EXCEPT ![c] = v]
        /\ UNCHANGED <<flash, wel, wip, pc, chan, qspibuf, begun, saved, cut, alone>>
    BY <1>2 DEF SetRegister, device, threads, history
  <2>2. TypeOK'
    BY <1>0, <2>1 DEF TypeOK
  <2>3. HasChannel'
    BY <2>1 DEF HasChannel, Busy
  <2>4. QED
    BY <2>2, <2>3
<1>3. QED
  BY <1>1, <1>2, ChanAssumption DEF Command, ChanAssumption

\* The flash finishes what it was told to do.
LEMMA CompleteTypes ==
    ASSUME TypeOK, HasChannel, Complete
    PROVE  TypeOK' /\ HasChannel'
<1>1. /\ Busy /\ flash' = [flash EXCEPT ![wip.sector] = Result(flash[wip.sector])]
      /\ wip' = Ready /\ wel' = FALSE
      /\ UNCHANGED <<regs, driver, pc, chan, qspibuf, begun, saved, cut, alone, dropped>>
  BY DEF Complete, threads, history
<1>2. wip.sector \in Chans
  BY <1>1 DEF HasChannel
<1>3. Result(flash[wip.sector]) \in SUBSET Bits
  BY <1>2 DEF TypeOK, Result
<1>4. TypeOK'
  BY <1>1, <1>2, <1>3 DEF TypeOK, Ready
<1>5. HasChannel'
  BY <1>1 DEF HasChannel, Busy, Ready
<1>6. QED
  BY <1>4, <1>5

\* The main thread and DHCP leave flash and threads alone; only HardwareInit
\* and RestoreDisperse write registers.
LEMMA BootTypes ==
    ASSUME BootTypeOK, HasChannel, BootStep \/ DhcpBound
    PROVE  /\ BootTypeOK' /\ HasChannel'
           /\ UNCHANGED <<flash, wel, wip, driver, pc, chan, qspibuf, begun, saved, cut, alone,
                       dropped>>
<1> DEFINE BootType ==
      [pc : {"init", "card", "netconf", "restore", "disperse", "net", "listen", "run",
             "failed"},
       card : {0, 1}, lines : 0..MaxLines, use_static : BOOLEAN,
       chan : Chans, readbuf : SUBSET Bits, garbled : SUBSET Chans]
<1>1. TypeOK /\ boot \in BootType /\ net \in {"down", "dhcp", "up"} /\ resets \in 0..MaxResets
  BY DEF BootTypeOK
<1>2. MaxLines \in Nat
  BY BootAssumption DEF BootAssumption
<1> SUFFICES /\ boot' \in BootType /\ net' \in {"down", "dhcp", "up"}
             /\ regs' \in [Chans -> SUBSET Bits] /\ resets' = resets
             /\ UNCHANGED <<flash, wel, wip, driver, pc, chan, qspibuf, begun, saved, cut, alone,
                       dropped>>
  BY <1>1 DEF BootTypeOK, TypeOK, HasChannel, Busy
<1>3. regs \in [Chans -> SUBSET Bits] /\ flash \in [Chans -> SUBSET Bits]
  BY <1>1 DEF TypeOK
<1>4. CASE HardwareInit
  <2>1. /\ boot' = [boot EXCEPT !.pc = "card"]
        /\ regs' = [c \in Chans |-> (regs[c] \ MaskBits) \cup FaultMask]
        /\ UNCHANGED <<flash, wel, wip, driver, pc, chan, qspibuf, begun, saved, cut, alone,
                       dropped, net, resets>>
    BY <1>4 DEF HardwareInit, Enter, NotTheFlash, device, threads, history
  <2>2. regs' \in [Chans -> SUBSET Bits]
    BY <1>3, <2>1, BootAssumption DEF BootAssumption
  <2>3. QED
    BY <1>1, <2>1, <2>2
<1>5. CASE TryPart
  <2>1. /\ \/ \E n \in 0..MaxLines : boot' = [boot EXCEPT !.pc = "netconf", !.lines = n]
           \/ boot' = [boot EXCEPT !.card = 1]
           \/ boot' = [boot EXCEPT !.pc = "restore"]
        /\ UNCHANGED <<vars, net, resets>>
    BY <1>5 DEF TryPart, Enter
  <2>2. boot' \in BootType
    BY <1>1, <2>1
  <2>3. QED
    BY <1>1, <1>3, <2>1, <2>2 DEF vars, device, threads, history
<1>6. CASE NetconfLine
  <2>1. PICK s \in BOOLEAN : boot' = [boot EXCEPT !.lines = boot.lines - 1, !.use_static = s]
    BY <1>6 DEF NetconfLine
  <2>2. boot.lines > 0 /\ UNCHANGED <<vars, net, resets>>
    BY <1>6 DEF NetconfLine
  <2>3. boot.lines - 1 \in 0..MaxLines
    BY <1>1, <1>2, <2>2
  <2>4. boot' \in BootType
    BY <1>1, <2>1, <2>3
  <2>5. QED
    BY <1>1, <1>3, <2>2, <2>4 DEF vars, device, threads, history
<1>7. CASE NetconfEnd
  BY <1>1, <1>3, <1>7 DEF NetconfEnd, Enter, vars, device, threads, history
<1>8. CASE RestoreRead
  <2>1. PICK v \in ReadOf(boot.chan) :
          boot' = [boot EXCEPT !.pc = "disperse", !.readbuf = v,
                      !.garbled = IF Busy THEN boot.garbled \cup {boot.chan} ELSE boot.garbled]
    BY <1>8 DEF RestoreRead
  <2>2. v \in SUBSET Bits /\ boot.chan \in Chans /\ boot.garbled \in SUBSET Chans
    BY <1>1, <1>3, <2>1 DEF ReadOf
  <2>3. boot' \in BootType
    BY <1>1, <2>1, <2>2
  <2>4. UNCHANGED <<vars, net, resets>>
    BY <1>8 DEF RestoreRead
  <2>5. QED
    BY <1>1, <1>3, <2>3, <2>4 DEF vars, device, threads, history
<1>9. CASE RestoreDisperse
  <2>1. /\ regs' = [regs EXCEPT ![boot.chan] = boot.readbuf]
        /\ boot' = IF boot.chan < Cardinality(Chans)
                   THEN [boot EXCEPT !.pc = "restore", !.chan = boot.chan + 1]
                   ELSE [boot EXCEPT !.pc = "net"]
        /\ UNCHANGED <<flash, wel, wip, driver, pc, chan, qspibuf, begun, saved, cut, alone,
                       dropped, net, resets>>
    BY <1>9 DEF RestoreDisperse, NotTheFlash, device, threads, history
  <2>2. boot.chan \in Chans /\ boot.readbuf \in SUBSET Bits
    BY <1>1
  <2>3. boot.chan < Cardinality(Chans) => boot.chan + 1 \in Chans
    BY <2>2, ChanNumbers
  <2>4. boot' \in BootType
    BY <1>1, <2>1, <2>3
  <2>5. regs' \in [Chans -> SUBSET Bits]
    BY <1>3, <2>1, <2>2
  <2>6. QED
    BY <1>1, <2>1, <2>4, <2>5
<1>10. CASE NetSetup
  BY <1>1, <1>3, <1>10 DEF NetSetup, Enter, vars, device, threads, history
<1>11. CASE Listen
  <2>1. \A label \in {"run", "failed"} : [Cold EXCEPT !.pc = label] \in BootType
    <3>1. 0 \in 0..MaxLines /\ 1 \in Chans
      BY <1>2, ChanNumbers
    <3>2. Cold \in BootType
      BY <3>1 DEF Cold
    <3>3. QED
      BY <3>2
  <2>2. QED
    BY <1>1, <1>3, <1>11, <2>1 DEF Listen, vars, device, threads, history
<1>12. CASE DhcpBound
  BY <1>1, <1>3, <1>12 DEF DhcpBound, vars, device, threads, history
<1>13. QED
  BY <1>4, <1>5, <1>6, <1>7, <1>8, <1>9, <1>10, <1>11, <1>12 DEF BootStep

\* What a reset leaves of flash and registers is typed.
LEMMA ResetTypes ==
    ASSUME BootTypeOK, HasChannel, PowerLoss \/ Reboot
    PROVE  BootTypeOK' /\ HasChannel'
<1>1. TypeOK /\ resets \in 0..MaxResets
  BY DEF BootTypeOK
<1>2. /\ resets < MaxResets /\ resets' = resets + 1
      /\ pc' = [t \in Clients |-> "idle"] /\ chan' = [t \in Clients |-> NoChan]
      /\ qspibuf' = [t \in Clients |-> {}]
      /\ driver' = {} /\ alone' = {} /\ dropped' = {}
      /\ boot' = Cold /\ net' = "down"
      /\ cut' = cut \cup {chan[t] : t \in {u \in Clients : InSave(u)}}
      /\ UNCHANGED <<begun, saved>>
  BY DEF PowerLoss, Reboot, Restart
<1>3. cut' \subseteq Chans
  <2>1. ASSUME NEW t \in Clients, InSave(t) PROVE chan[t] \in Chans
    <3>1. pc[t] # "idle"
      BY <2>1 DEF InSave, Erasing, Writing
    <3>2. QED
      BY <3>1 DEF HasChannel
  <2>2. QED
    BY <1>1, <1>2, <2>1 DEF TypeOK
<1>4. /\ regs' \in [Chans -> SUBSET Bits] /\ flash' \in [Chans -> SUBSET Bits]
      /\ wel' \in BOOLEAN /\ (Busy' => wip'.sector \in Chans)
      /\ wip' \in [op : {"none", "erase", "program"}, sector : Chans \cup {NoChan},
                   data : SUBSET Bits]
  <2>1. CASE PowerLoss
    <3>1. wip' = Ready /\ wel' = FALSE /\ regs' = [c \in Chans |-> {}]
      BY <2>1 DEF PowerLoss
    <3>2. \A old \in SUBSET Bits : Torn(old) \subseteq SUBSET Bits
      BY DEF Torn
    <3>3. flash' \in [Chans -> SUBSET Bits]
      BY <1>1, <2>1, <3>2 DEF PowerLoss, TypeOK, HasChannel
    <3>4. QED
      BY <3>1, <3>3 DEF Ready, Busy
  <2>2. CASE Reboot
    BY <1>1, <2>2 DEF Reboot, device, TypeOK, HasChannel, Busy
  <2>3. QED
    BY <2>1, <2>2
<1>5. TypeOK'
  BY <1>1, <1>2, <1>3, <1>4 DEF TypeOK
<1>6. BootTypeOK'
  <2>1. resets' \in 0..MaxResets /\ 0 \in 0..MaxLines
    BY <1>1, <1>2, BootAssumption DEF BootAssumption
  <2>2. Cold \in [pc : {"init", "card", "netconf", "restore", "disperse", "net",
                        "listen", "run",
             "failed"},
                  card : {0, 1}, lines : 0..MaxLines, use_static : BOOLEAN,
                  chan : Chans, readbuf : SUBSET Bits, garbled : SUBSET Chans]
    BY <2>1, ChanNumbers DEF Cold
  <2>3. QED
    BY <1>2, <1>5, <2>1, <2>2 DEF BootTypeOK
<1>7. HasChannel'
  BY <1>2, <1>4 DEF HasChannel
<1>8. QED
  BY <1>6, <1>7

-----------------------------------------------------------------------------
(* The client that alone uses the flash.                                   *)

\* A client's step leaves the other threads alone.
LEMMA OthersKeep ==
    ASSUME TypeOK, NEW u \in Clients, Step(u) \/ Command(u)
    PROVE  \A v \in Clients : v # u => /\ pc'[v] = pc[v] /\ chan'[v] = chan[v]
                                       /\ qspibuf'[v] = qspibuf[v]
<1>1. CASE Step(u)
  <2>1. CASE Enable(u) \/ Erase(u) \/ QspiGatherData(u) \/ QspiFlashWrite(u)
    BY <2>1 DEF TypeOK, Enable, Erase, QspiGatherData, QspiFlashWrite, Goto
  <2>2. CASE Poll(u) \/ PollBlind(u)
    BY <2>2 DEF TypeOK, Poll, PollBlind, Again, GoOn, Goto
  <2>3. CASE QspiFlashRead(u) \/ QspiDisperseData(u)
    BY <2>3 DEF TypeOK, QspiFlashRead, QspiDisperseData, Goto
  <2>4. CASE Return(u)
    BY <2>4 DEF Return, threads
  <2>5. QED
    BY <1>1, <2>1, <2>2, <2>3, <2>4 DEF Step
<1>2. CASE Command(u)
  BY <1>2 DEF TypeOK, Command, WriteQspi, ReadQspi, Begin, SetRegister, Goto, threads
<1>3. QED
  BY <1>1, <1>2

\* Who is no saver leaves the flash alone and becomes none by a step.
LEMMA LoaderStep ==
    ASSUME TypeOK, NEW u \in Clients, Step(u), ~Saving(u)
    PROVE  UNCHANGED <<flash, wel, wip>> /\ ~Saving(u)'
<1>1. QspiFlashRead(u) \/ QspiDisperseData(u) \/ Return(u)
  BY DEF Step, Enable, Erase, Poll, PollBlind, QspiGatherData, QspiFlashWrite, Calls,
         Saving, Erasing, Writing
<1>2. CASE QspiFlashRead(u) \/ QspiDisperseData(u)
  BY <1>2 DEF QspiFlashRead, QspiDisperseData, device, Goto, TypeOK, Saving
<1>3. CASE Return(u)
  BY <1>3 DEF Return, device, threads, Saving
<1>4. QED
  BY <1>1, <1>2, <1>3

\* A saver that loses no transfer goes from one stage to the next.
LEMMA SaverStep ==
    ASSUME TypeOK, NEW t \in Clients, Step(t), Stage(t), t \notin dropped',
           ~QspiDisperseData(t)
    PROVE  Stage(t)'
<1>1. /\ pc \in [Clients -> {"idle", "erase_enable", "erase", "erase_wait", "erase_poll",
                 "gather", "write_enable", "write", "write_wait", "write_poll", "load",
                 "read", "disperse"}]
      /\ chan \in [Clients -> Chans \cup {NoChan}]
      /\ qspibuf \in [Clients -> SUBSET Bits]
      /\ regs \in [Chans -> SUBSET Bits] /\ flash \in [Chans -> SUBSET Bits]
  BY DEF TypeOK
<1>2. CASE Enable(t)
  <2>1. /\ pc[t] \in {"erase_enable", "write_enable"} /\ ~Refused
        /\ pc'[t] = IF pc[t] = "erase_enable" THEN "erase" ELSE "write"
        /\ wel' = (wel \/ ~Busy)
        /\ UNCHANGED <<flash, wip, chan, qspibuf>>
    BY <1>1, <1>2 DEF Enable, Goto, WriteEnable, Refuse, Calls
  <2>2. ~Busy /\ (pc[t] = "write_enable" => Erased(t))
    BY <2>1 DEF Stage, Erasing, Writing
  <2>3. wel'
    BY <2>1, <2>2
  <2>4. QED
    BY <2>1, <2>2, <2>3 DEF Stage, Erased, Busy, Erasing, Writing
<1>3. CASE Erase(t)
  <2>1. /\ pc[t] = "erase" /\ pc'[t] = "erase_wait" /\ Start("erase", chan[t], {})
        /\ UNCHANGED <<flash, wel, chan, qspibuf>>
    BY <1>1, <1>3 DEF Erase, Goto, Refuse, Calls
  <2>2. ~Busy /\ wel
    BY <2>1 DEF Stage, Erasing, Writing
  <2>3. wip' = [op |-> "erase", sector |-> chan[t], data |-> {}]
    BY <2>1, <2>2 DEF Start
  <2>4. QED
    BY <2>1, <2>3 DEF Stage, EraseWait, Busy, Erasing, Writing
<1>4. CASE Poll(t)
  <2>1. /\ pc[t] \in Erasing \cup Writing
        /\ pc'[t] = IF Busy THEN IF pc[t] \in Erasing THEN "erase_poll" ELSE "write_poll"
                    ELSE IF pc[t] \in Erasing THEN "gather" ELSE "read"
        /\ UNCHANGED <<flash, wel, wip, chan, qspibuf>>
    BY <1>1, <1>4 DEF Poll, Again, GoOn, Goto, Calls, device
  <2>2. /\ pc[t] \in Erasing => EraseWait(t) /\ (~Busy => Erased(t))
        /\ pc[t] \in Writing => WriteWait(t)
    BY DEF Stage
  <2>3. QED
    BY <2>1, <2>2 DEF Stage, Erased, EraseWait, WriteWait, Busy, Erasing, Writing
<1>5. CASE PollBlind(t)
  <2>1. /\ pc[t] \in Erasing \cup Writing
        /\ pc'[t] = IF pc[t] \in Erasing THEN "erase_poll" ELSE "write_poll"
        /\ UNCHANGED <<flash, wel, wip, chan, qspibuf>>
    BY <1>1, <1>5 DEF PollBlind, Again, Goto, Calls, device
  <2>2. /\ pc[t] \in Erasing => EraseWait(t) /\ (~Busy => Erased(t))
        /\ pc[t] \in Writing => WriteWait(t)
    BY DEF Stage
  <2>3. QED
    BY <2>1, <2>2 DEF Stage, Erased, EraseWait, WriteWait, Busy, Erasing, Writing
<1>6. CASE QspiGatherData(t)
  <2>1. /\ pc[t] = "gather" /\ pc'[t] = "write_enable"
        /\ UNCHANGED <<flash, wel, wip, chan>>
    BY <1>1, <1>6 DEF QspiGatherData, Goto, Calls, device
  <2>2. ~Busy /\ Erased(t)
    BY <2>1 DEF Stage, Erasing, Writing
  <2>3. QED
    BY <2>1, <2>2 DEF Stage, Erased, Busy, Erasing, Writing
<1>7. CASE QspiFlashWrite(t)
  <2>1. /\ pc[t] = "write" /\ pc'[t] = "write_wait"
        /\ Start("program", chan[t], qspibuf[t])
        /\ UNCHANGED <<flash, wel, chan, qspibuf>>
    BY <1>1, <1>7 DEF QspiFlashWrite, Goto, Refuse, Calls
  <2>2. ~Busy /\ wel /\ Erased(t)
    BY <2>1 DEF Stage, Erasing, Writing
  <2>3. wip' = [op |-> "program", sector |-> chan[t], data |-> qspibuf[t]]
    BY <2>1, <2>2 DEF Start
  <2>4. QED
    BY <2>1, <2>2, <2>3 DEF Stage, WriteWait, Erased, Busy, Erasing, Writing
<1>8. CASE QspiFlashRead(t)
  <2>1. /\ pc[t] \in {"load", "read"} /\ pc'[t] = "disperse"
        /\ UNCHANGED <<flash, wel, wip>>
    BY <1>1, <1>8 DEF QspiFlashRead, Goto, Calls, device
  <2>2. ~Busy
    BY <2>1 DEF Stage, Erasing, Writing
  <2>3. QED
    BY <2>1, <2>2 DEF Stage, Busy, Erasing, Writing
<1>9. CASE Return(t)
  BY <1>9 DEF Return, device, threads, Stage, Erased, EraseWait, WriteWait, Busy
<1>10. QED
  BY <1>2, <1>3, <1>4, <1>5, <1>6, <1>7, <1>8, <1>9 DEF Step

\* It goes through its stages; nobody else touches the flash.
LEMMA StepAlone ==
    ASSUME TypeOK, HasChannel, AloneInv, NEW u \in Clients, Step(u)
    PROVE  AloneInv'
<1>1. alone' = IF QspiDisperseData(u) THEN alone \ {u} ELSE alone
  BY DEF Step, Enable, Erase, Poll, PollBlind, QspiGatherData, QspiFlashWrite,
         QspiFlashRead, QspiDisperseData, Return, history
<1>2. ASSUME NEW t \in alone, t # u \/ ~QspiDisperseData(u)
      PROVE  /\ t \in dropped' \/ Stage(t)'
             /\ \A v \in Clients : v # t => ~Saving(v)'
  <2>1. /\ t \in Clients /\ (t \in dropped \/ Stage(t))
        /\ \A v \in Clients : v # t => ~Saving(v)
    BY DEF AloneInv, TypeOK
  <2>2. /\ \A v \in Clients : v # u => /\ pc'[v] = pc[v] /\ chan'[v] = chan[v]
                                       /\ qspibuf'[v] = qspibuf[v]
        /\ \A v \in Clients : v # u => (v \in dropped' <=> v \in dropped)
    BY OthersKeep, DriverTypes
  <2>3. CASE u # t
    <3>1. UNCHANGED <<flash, wel, wip>> /\ ~Saving(u)'
      BY <2>1, <2>3, LoaderStep
    <3>2. /\ pc'[t] = pc[t] /\ chan'[t] = chan[t] /\ qspibuf'[t] = qspibuf[t]
          /\ (t \in dropped' <=> t \in dropped)
      BY <2>1, <2>2, <2>3
    <3>3. Stage(t) => Stage(t)'
      BY <3>1, <3>2 DEF Stage, Erased, EraseWait, WriteWait, Busy
    <3>4. \A v \in Clients : v # t => ~Saving(v)'
      BY <2>1, <2>2, <3>1 DEF Saving
    <3>5. QED
      BY <2>1, <3>2, <3>3, <3>4
  <2>4. CASE u = t
    <3>1. \A v \in Clients : v # t => ~Saving(v)'
      BY <2>1, <2>2, <2>4 DEF Saving
    <3>2. t \in dropped => t \in dropped'
      <4>1. dropped' \in {dropped, dropped \cup {t}}
        BY <1>2, <2>4 DEF Step, Enable, Erase, Poll, PollBlind, QspiGatherData,
             QspiFlashWrite, QspiFlashRead, Return, Transfer, Refuse, history
      <4>2. QED
        BY <4>1
    <3>3. t \notin dropped' => Stage(t)'
      BY <1>2, <2>1, <2>4, <3>2, SaverStep
    <3>4. QED
      BY <3>1, <3>3
  <2>5. QED
    BY <2>3, <2>4
<1>3. QED
  BY <1>1, <1>2 DEF AloneInv

\* A save that begins while another is under way ends its being alone.
LEMMA CommandAlone ==
    ASSUME TypeOK, AloneInv, NEW u \in Clients, Command(u)
    PROVE  AloneInv'
<1>1. ASSUME NEW c \in Chans, WriteQspi(u, c) PROVE AloneInv'
  <2>1. /\ pc[u] = "idle" /\ pc' = [pc EXCEPT ![u] = "erase_enable"]
        /\ chan' = [chan EXCEPT ![u] = c]
        /\ alone' = IF Busy \/ \E t \in Clients : Saving(t) THEN {} ELSE {u}
        /\ UNCHANGED <<flash, wel, wip, qspibuf>>
    BY <1>1 DEF WriteQspi, Begin, Calls, Goto, device
  <2>2. CASE Busy \/ \E t \in Clients : Saving(t)
    BY <2>1, <2>2 DEF AloneInv
  <2>3. CASE ~(Busy \/ \E t \in Clients : Saving(t))
    <3>1. alone' = {u} /\ ~Busy' /\ pc'[u] = "erase_enable"
      BY <2>1, <2>3 DEF Busy, TypeOK
    <3>2. \A v \in Clients : v # u => ~Saving(v)'
      BY <2>1, <2>3 DEF Saving, TypeOK
    <3>3. Stage(u)'
      BY <3>1 DEF Stage, Erasing, Writing
    <3>4. QED
      BY <3>1, <3>2, <3>3 DEF AloneInv
  <2>4. QED
    BY <2>2, <2>3
<1>2. ASSUME \E c \in Chans : ReadQspi(u, c) \/ \E v \in {Bits, {}} : SetRegister(u, c, v)
      PROVE  AloneInv'
  <2>1. /\ pc[u] = "idle" /\ pc'[u] \in {"idle", "load"}
        /\ UNCHANGED <<flash, wel, wip, alone, dropped>>
    BY <1>2 DEF ReadQspi, Begin, Calls, SetRegister, Goto, device, threads, history, TypeOK
  <2>2. \A v \in Clients : v # u => /\ pc'[v] = pc[v] /\ chan'[v] = chan[v]
                                    /\ qspibuf'[v] = qspibuf[v]
    BY OthersKeep
  <2>3. ASSUME NEW t \in alone
        PROVE  (t \in dropped' \/ Stage(t)') /\ \A v \in Clients : v # t => ~Saving(v)'
    <3>1. /\ t \in Clients /\ (t \in dropped \/ Stage(t))
          /\ \A v \in Clients : v # t => ~Saving(v)
      BY DEF AloneInv, TypeOK
    <3>2. \A v \in Clients : v # t => ~Saving(v)'
      BY <2>1, <2>2, <3>1 DEF Saving
    <3>3. Stage(t) => Stage(t)'
      <4>1. CASE t = u
        BY <2>1, <4>1 DEF Stage, Busy, Erasing, Writing
      <4>2. CASE t # u
        <5>1. pc'[t] = pc[t] /\ chan'[t] = chan[t] /\ qspibuf'[t] = qspibuf[t]
          BY <2>2, <3>1, <4>2
        <5>2. QED
          BY <2>1, <5>1 DEF Stage, Erased, EraseWait, WriteWait, Busy
      <4>3. QED
        BY <4>1, <4>2
    <3>4. QED
      BY <2>1, <3>1, <3>2, <3>3
  <2>4. QED
    BY <2>1, <2>3 DEF AloneInv
<1>3. QED
  BY <1>1, <1>2, ChanAssumption DEF Command, ChanAssumption

\* The flash finishes the operation of that client.
LEMMA CompleteAlone ==
    ASSUME TypeOK, HasChannel, AloneInv, Complete
    PROVE  AloneInv'
<1>1. /\ Busy /\ flash' = [flash EXCEPT ![wip.sector] = Result(flash[wip.sector])]
      /\ wip' = Ready /\ UNCHANGED <<pc, chan, qspibuf, alone, dropped>>
  BY DEF Complete, threads, history
<1>2. ~Busy'
  BY <1>1 DEF Busy, Ready
<1>3. wip.sector \in Chans
  BY <1>1 DEF HasChannel
<1>4. ASSUME NEW t \in Clients, Stage(t) PROVE Stage(t)'
  <2>1. pc[t] \in Erasing \cup Writing /\ wip.sector = chan[t]
    BY <1>1, <1>4 DEF Stage, EraseWait, WriteWait
  <2>2. flash'[chan[t]] = Result(flash[chan[t]])
    BY <1>1, <1>3, <2>1 DEF TypeOK
  <2>3. CASE pc[t] \in Erasing
    <3>1. Result(flash[chan[t]]) = Bits
      BY <1>1, <1>4, <2>3 DEF Stage, EraseWait, Result
    <3>2. QED
      BY <1>1, <1>2, <2>2, <2>3, <3>1 DEF Stage, EraseWait, Erased, Erasing, Writing
  <2>4. CASE pc[t] \in Writing
    <3>1. /\ wip.op = "program" /\ wip.data = qspibuf[t] /\ flash[chan[t]] = Bits
          /\ qspibuf[t] \in SUBSET Bits
      BY <1>1, <1>4, <2>4 DEF Stage, WriteWait, Erased, TypeOK
    <3>2. Result(flash[chan[t]]) = qspibuf[t]
      BY <3>1 DEF Result
    <3>3. QED
      BY <1>1, <1>2, <2>2, <2>4, <3>2 DEF Stage, WriteWait, Erasing, Writing
  <2>5. QED
    BY <2>1, <2>3, <2>4
<1>5. \A t \in alone : t \in Clients
  BY DEF TypeOK
<1>6. QED
  BY <1>1, <1>4, <1>5 DEF AloneInv, Saving

-----------------------------------------------------------------------------
(* What the sectors hold.                                                  *)

\* Saves that stay in progress keep their channels touched, and the
\* flash's operation accounted for.
LEMMA TouchedKeeps ==
    ASSUME StoredInv, UNCHANGED <<flash, saved, cut>>,
           \A t \in Clients : InSave(t) => InSave(t)' /\ chan'[t] = chan[t]
    PROVE  StoredInv' /\ (BusyInv /\ wip' = wip => BusyInv')
BY DEF StoredInv, Touched, BusyInv, Busy

\* A step of a command changes no sector; a save ends with a new saved value,
\* or with its channel among those that are not accounted for.
LEMMA StepStored ==
    ASSUME TypeOK, HasChannel, BusyInv, StoredInv, NEW u \in Clients, Step(u)
    PROVE  BusyInv' /\ StoredInv'
<1>1. \A v \in Clients : v # u => pc'[v] = pc[v] /\ chan'[v] = chan[v]
  BY OthersKeep
<1>2. /\ pc \in [Clients -> {"idle", "erase_enable", "erase", "erase_wait", "erase_poll",
                 "gather", "write_enable", "write", "write_wait", "write_poll", "load",
                 "read", "disperse"}]
      /\ chan \in [Clients -> Chans \cup {NoChan}]
  BY DEF TypeOK
<1>3. CASE Enable(u) \/ QspiGatherData(u)
  <2>1. /\ pc'[u] \in {"erase", "write", "write_enable"} /\ chan'[u] = chan[u]
        /\ UNCHANGED <<flash, wip, saved, cut>>
    BY <1>2, <1>3 DEF Enable, QspiGatherData, Goto, device, history
  <2>2. \A t \in Clients : InSave(t) => InSave(t)' /\ chan'[t] = chan[t]
    BY <1>1, <2>1 DEF InSave, Erasing, Writing
  <2>3. QED
    BY <2>1, <2>2, TouchedKeeps
<1>4. CASE Erase(u) \/ QspiFlashWrite(u)
  <2>1. /\ pc'[u] \in {"erase_wait", "write_wait"} /\ chan'[u] = chan[u]
        /\ UNCHANGED <<flash, saved, cut>>
        /\ wip' = wip \/ wip'.sector = chan[u]
    BY <1>2, <1>4 DEF Erase, QspiFlashWrite, Goto, Start
  <2>2. InSave(u)' /\ \A t \in Clients : InSave(t) => InSave(t)' /\ chan'[t] = chan[t]
    BY <1>1, <2>1 DEF InSave, Erasing, Writing
  <2>3. wip'.sector = chan[u] => BusyInv'
    BY <2>1, <2>2 DEF BusyInv
  <2>4. QED
    BY <2>1, <2>2, <2>3, TouchedKeeps
<1>5. CASE Poll(u) \/ PollBlind(u)
  <2>1. /\ chan' = chan /\ UNCHANGED <<flash, wip>>
        /\ pc'[u] \in {"erase_poll", "write_poll", "gather", "read"}
        /\ chan[u] \in Chans
    BY <1>2, <1>5 DEF Poll, PollBlind, Again, GoOn, Goto, device, HasChannel, Calls,
                      Erasing, Writing
  <2>2. CASE pc'[u] # "read"
    <3>1. UNCHANGED <<saved, cut>>
      BY <1>2, <1>5, <2>2 DEF Poll, PollBlind, GoOn, Goto, Erasing, Writing
    <3>2. \A t \in Clients : InSave(t) => InSave(t)' /\ chan'[t] = chan[t]
      BY <1>1, <2>1, <2>2 DEF InSave, Erasing, Writing
    <3>3. QED
      BY <2>1, <3>1, <3>2, TouchedKeeps
  <2>3. CASE pc'[u] = "read"
    <3>1. \/ /\ ~Busy /\ saved' = [saved EXCEPT ![chan[u]] = flash[chan[u]]]
             /\ cut' = cut \ {chan[u]}
          \/ saved' = saved /\ cut' = cut \cup {chan[u]}
      BY <1>2, <1>5, <2>3 DEF Poll, PollBlind, Again, GoOn, Goto, Erasing, Writing, Calls
    <3>2. \A t \in Clients : t # u /\ InSave(t) => InSave(t)' /\ chan'[t] = chan[t]
      BY <1>1, <2>1 DEF InSave
    <3>3. CASE saved' = saved /\ cut' = cut \cup {chan[u]}
      BY <2>1, <3>2, <3>3 DEF BusyInv, StoredInv, Touched, Busy
    <3>4. CASE /\ ~Busy /\ saved' = [saved EXCEPT ![chan[u]] = flash[chan[u]]]
               /\ cut' = cut \ {chan[u]}
      <4>1. BusyInv'
        BY <2>1, <3>4 DEF BusyInv, Busy
      <4>2. ASSUME NEW c \in Chans PROVE flash'[c] = saved'[c] \/ Touched(c)'
        <5>1. CASE c = chan[u]
          BY <2>1, <3>4, <5>1 DEF TypeOK
        <5>2. CASE c # chan[u]
          <6>1. saved'[c] = saved[c] /\ flash'[c] = flash[c] /\ (c \in cut => c \in cut')
            BY <2>1, <3>4, <5>2 DEF TypeOK
          <6>2. QED
            BY <3>2, <5>2, <6>1 DEF StoredInv, Touched
        <5>3. QED
          BY <5>1, <5>2
      <4>3. QED
        BY <4>1, <4>2 DEF StoredInv
    <3>5. QED
      BY <3>1, <3>3, <3>4
  <2>4. QED
    BY <2>2, <2>3
<1>6. CASE QspiFlashRead(u) \/ QspiDisperseData(u)
  <2>1. pc[u] \in {"load", "read", "disperse"} /\ UNCHANGED <<flash, wip, saved, cut>>
    BY <1>6 DEF QspiFlashRead, QspiDisperseData, Calls, device
  <2>2. \A t \in Clients : InSave(t) => InSave(t)' /\ chan'[t] = chan[t]
    BY <1>1, <2>1 DEF InSave, Erasing, Writing
  <2>3. QED
    BY <2>1, <2>2, TouchedKeeps
<1>7. CASE Return(u)
  <2>1. UNCHANGED <<flash, wip, pc, chan, saved, cut>>
    BY <1>7 DEF Return, device, threads, history
  <2>2. QED
    BY <2>1, TouchedKeeps DEF InSave
<1>8. QED
  BY <1>3, <1>4, <1>5, <1>6, <1>7 DEF Step

\* A command begins from idle and touches nothing yet.
LEMMA CommandStored ==
    ASSUME TypeOK, BusyInv, StoredInv, NEW u \in Clients, Command(u)
    PROVE  BusyInv' /\ StoredInv'
<1>1. \A v \in Clients : v # u => pc'[v] = pc[v] /\ chan'[v] = chan[v]
  BY OthersKeep
<1>2. pc[u] = "idle" /\ UNCHANGED <<flash, wip, saved, cut>>
  BY DEF Command, WriteQspi, ReadQspi, SetRegister, Begin, Calls, device, history
<1>3. \A t \in Clients : InSave(t) => InSave(t)' /\ chan'[t] = chan[t]
  BY <1>1, <1>2 DEF InSave, Erasing, Writing
<1>4. QED
  BY <1>2, <1>3, TouchedKeeps

\* A busy flash works for a save, or for one that a reset has cut off.
LEMMA BusyTouched ==
    ASSUME BusyInv, Busy
    PROVE  Touched(wip.sector)
BY DEF BusyInv, Touched

\* The flash changes the sector of a save only.
LEMMA CompleteStored ==
    ASSUME TypeOK, HasChannel, BusyInv, StoredInv, Complete
    PROVE  BusyInv' /\ StoredInv'
<1>1. /\ Busy /\ flash' = [flash EXCEPT ![wip.sector] = Result(flash[wip.sector])]
      /\ wip' = Ready /\ UNCHANGED <<pc, chan, saved, cut>>
  BY DEF Complete, threads, history
<1>2. BusyInv'
  BY <1>1 DEF BusyInv, Busy, Ready
<1>3. \A c \in Chans : Touched(c) => Touched(c)'
  BY <1>1 DEF Touched, InSave
<1>4. \A c \in Chans : c # wip.sector => flash'[c] = flash[c]
  BY <1>1 DEF TypeOK
<1>5. StoredInv'
  BY <1>1, <1>3, <1>4, BusyTouched DEF StoredInv
<1>6. QED
  BY <1>2, <1>5

\* A reset remembers the channels that were touched.
LEMMA ResetStored ==
    ASSUME TypeOK, HasChannel, BusyInv, StoredInv, PowerLoss \/ Reboot
    PROVE  BusyInv' /\ StoredInv'
<1>1. /\ cut' = cut \cup {chan[t] : t \in {u \in Clients : InSave(u)}}
      /\ saved' = saved
  BY DEF PowerLoss, Reboot, Restart
<1>2. \A c : Touched(c) => c \in cut'
  BY <1>1 DEF Touched
<1>3. CASE PowerLoss
  <2>1. wip' = Ready /\ \A c \in Chans : flash'[c] # flash[c] => Busy /\ c = wip.sector
    BY <1>3 DEF PowerLoss, TypeOK
  <2>2. BusyInv'
    BY <2>1 DEF BusyInv, Busy, Ready
  <2>3. StoredInv'
    BY <1>1, <1>2, <2>1, BusyTouched DEF StoredInv, Touched
  <2>4. QED
    BY <2>2, <2>3
<1>4. CASE Reboot
  <2>1. UNCHANGED <<flash, wip>>
    BY <1>4 DEF Reboot, device
  <2>2. BusyInv'
    BY <1>2, <2>1, BusyTouched DEF BusyInv, Busy
  <2>3. StoredInv'
    BY <1>1, <1>2, <2>1 DEF StoredInv, Touched
  <2>4. QED
    BY <2>2, <2>3
<1>5. QED
  BY <1>3, <1>4

-----------------------------------------------------------------------------
(* The restore at boot.                                                    *)

\* The main thread restores one channel after the other.
LEMMA BootRestore ==
    ASSUME BootInv, BootStep \/ DhcpBound
    PROVE  IdleInv' /\ RestoreInv'
<1>1. BootTypeOK /\ HasChannel /\ StoredInv /\ IdleInv /\ RestoreInv
  BY DEF BootInv
<1>2. UNCHANGED <<flash, wel, wip, pc, saved, cut>>
  BY <1>1, BootTypes
<1>3. boot.chan \in Chans /\ boot.garbled \in SUBSET Chans
  BY <1>1 DEF BootTypeOK
<1> DEFINE BootPcs == {"init", "card", "netconf", "restore", "disperse", "net", "listen",
                       "run", "failed"}
<1>4. boot \in [pc : BootPcs, card : {0, 1}, lines : 0..MaxLines, use_static : BOOLEAN,
                chan : Chans, readbuf : SUBSET Bits, garbled : SUBSET Chans]
  BY <1>1 DEF BootTypeOK
<1>5. CASE HardwareInit
  <2>1. boot.pc = "init" /\ boot'.pc = "card" /\ boot'.chan = boot.chan
    BY <1>4, <1>5 DEF HardwareInit, At, Enter
  <2>2. QED
    BY <1>1, <1>2, <2>1 DEF IdleInv, RestoreInv, At, Running
<1>6. CASE TryPart \/ NetconfLine \/ NetconfEnd
  <2>1. /\ boot.pc \in {"card", "netconf"} /\ boot'.pc \in {"card", "netconf", "restore"}
        /\ boot'.chan = boot.chan
    BY <1>4, <1>6 DEF TryPart, NetconfLine, NetconfEnd, At, Enter
  <2>2. boot'.chan = 1
    BY <1>1, <2>1 DEF RestoreInv, At
  <2>3. \A c \in Chans : ~(c < 1)
    BY ChanNumbers
  <2>4. IdleInv'
    BY <1>1, <1>2, <2>1 DEF IdleInv, Running
  <2>5. QED
    BY <2>1, <2>2, <2>3, <2>4 DEF RestoreInv, At
<1>7. CASE RestoreRead
  <2>1. PICK v \in ReadOf(boot.chan) :
          boot' = [boot EXCEPT !.pc = "disperse", !.readbuf = v,
                      !.garbled = IF Busy THEN boot.garbled \cup {boot.chan} ELSE boot.garbled]
    BY <1>7 DEF RestoreRead
  <2>2. /\ boot.pc = "restore" /\ boot'.pc = "disperse" /\ boot'.chan = boot.chan
        /\ boot'.readbuf = v /\ regs' = regs
        /\ boot'.garbled = IF Busy THEN boot.garbled \cup {boot.chan} ELSE boot.garbled
    BY <1>4, <1>7, <2>1 DEF RestoreRead, At, vars
  <2>3. IdleInv'
    BY <1>1, <1>2, <2>2 DEF IdleInv, Running
  <2>4. \A c : Excused(c) => Excused(c)'
    BY <1>2, <2>2 DEF Excused
  <2>5. Excused(boot.chan)' \/ v = saved[boot.chan]
    <3>1. CASE Busy
      BY <2>2, <3>1 DEF Excused
    <3>2. CASE ~Busy
      <4>1. v = flash[boot.chan]
        BY <2>1, <3>2 DEF ReadOf
      <4>2. \A t \in Clients : pc[t] = "idle"
        BY <1>1, <2>2 DEF IdleInv, Running
      <4>3. \A t \in Clients : ~InSave(t)
        BY <4>2 DEF InSave, Erasing, Writing
      <4>4. flash[boot.chan] = saved[boot.chan] \/ boot.chan \in cut
        BY <1>1, <1>3, <4>3 DEF StoredInv, Touched
      <4>5. QED
        BY <1>2, <2>2, <4>1, <4>4 DEF Excused
    <3>3. QED
      BY <3>1, <3>2
  <2>6. RestoreInv'
    <3>2. \A c \in Chans : c < boot.chan => Excused(c) \/ regs[c] = saved[c]
      BY <1>1, <2>2 DEF RestoreInv, At
    <3>3. \A c \in Chans : c < boot'.chan => Excused(c)' \/ regs'[c] = saved'[c]
      BY <1>2, <2>2, <2>4, <3>2
    <3>4. (Excused(boot.chan) \/ boot.readbuf = saved[boot.chan])'
      BY <1>2, <2>2, <2>5
    <3>5. QED
      BY <2>2, <3>3, <3>4 DEF RestoreInv, At
  <2>7. QED
    BY <2>3, <2>6
<1>8. CASE RestoreDisperse
  <2>1. /\ boot.pc = "disperse" /\ regs' = [regs EXCEPT ![boot.chan] = boot.readbuf]
        /\ boot' = IF boot.chan < Cardinality(Chans)
                   THEN [boot EXCEPT !.pc = "restore", !.chan = boot.chan + 1]
                   ELSE [boot EXCEPT !.pc = "net"]
    BY <1>8 DEF RestoreDisperse, At
  <2>2. /\ boot'.garbled = boot.garbled
        /\ \/ boot'.pc = "restore" /\ boot'.chan = boot.chan + 1
           \/ boot'.pc = "net" /\ ~(boot.chan < Cardinality(Chans))
    BY <1>4, <2>1
  <2>3. IdleInv'
    BY <1>1, <1>2, <2>1, <2>2 DEF IdleInv, Running
  <2>4. \A c : Excused(c) => Excused(c)'
    BY <1>2, <2>2 DEF Excused
  <2>5. \A c \in Chans : c = boot.chan \/ c < boot.chan => Excused(c)' \/ regs'[c] = saved'[c]
    <3>1. ASSUME NEW c \in Chans, c = boot.chan PROVE Excused(c)' \/ regs'[c] = saved'[c]
      <4>1. regs'[c] = boot.readbuf
        BY <1>1, <2>1, <3>1 DEF BootTypeOK, TypeOK
      <4>2. Excused(c) \/ boot.readbuf = saved[c]
        BY <1>1, <2>1, <3>1 DEF RestoreInv, At
      <4>3. QED
        BY <1>2, <2>4, <4>1, <4>2
    <3>2. ASSUME NEW c \in Chans, c < boot.chan, c # boot.chan
          PROVE  Excused(c)' \/ regs'[c] = saved'[c]
      <4>1. regs'[c] = regs[c]
        BY <1>1, <2>1, <3>2 DEF BootTypeOK, TypeOK
      <4>2. Excused(c) \/ regs[c] = saved[c]
        BY <1>1, <2>1, <3>2 DEF RestoreInv, At
      <4>3. QED
        BY <1>2, <2>4, <4>1, <4>2
    <3>3. QED
      BY <3>1, <3>2
  <2>6. CASE boot'.pc = "restore" /\ boot'.chan = boot.chan + 1
    <3>1. \A c \in Chans : c < boot'.chan => c = boot.chan \/ c < boot.chan
      BY <1>3, <2>6, ChanNumbers
    <3>2. QED
      BY <2>3, <2>5, <2>6, <3>1 DEF RestoreInv, At
  <2>7. CASE boot'.pc = "net" /\ ~(boot.chan < Cardinality(Chans))
    <3>1. \A c \in Chans : c = boot.chan \/ c < boot.chan
      BY <1>3, <2>7, ChanNumbers
    <3>2. QED
      BY <2>3, <2>5, <2>7, <3>1 DEF RestoreInv, At
  <2>8. QED
    BY <2>2, <2>6, <2>7
<1>9. CASE NetSetup
  <2>1. /\ boot.pc = "net" /\ boot'.pc = "listen" /\ boot'.garbled = boot.garbled
        /\ regs' = regs
    BY <1>4, <1>9 DEF NetSetup, At, Enter, vars
  <2>2. \A c \in Chans : Excused(c) \/ regs[c] = saved[c]
    BY <1>1, <2>1 DEF RestoreInv, At
  <2>3. \A c \in Chans : Excused(c)' \/ regs'[c] = saved'[c]
    BY <1>2, <2>1, <2>2 DEF Excused
  <2>4. IdleInv'
    BY <1>1, <1>2, <2>1 DEF IdleInv, Running
  <2>5. QED
    BY <2>1, <2>3, <2>4 DEF RestoreInv, At
<1>10. CASE Listen
  <2>1. boot.pc = "listen" /\ boot'.pc \in {"run", "failed"}
    BY <1>10 DEF Listen, At, Cold
  <2>2. IdleInv'
    BY <1>1, <1>2, <2>1 DEF IdleInv, Running
  <2>3. QED
    BY <2>1, <2>2 DEF RestoreInv, At
<1>11. CASE DhcpBound
  <2>1. UNCHANGED <<boot, regs, saved, cut, pc>>
    BY <1>11 DEF DhcpBound, vars, threads, history
  <2>2. QED
    BY <1>1, <2>1 DEF IdleInv, RestoreInv, Excused, At, Running
<1>12. QED
  BY <1>5, <1>6, <1>7, <1>8, <1>9, <1>10, <1>11 DEF BootStep

\* Commands and the flash do not disturb it: commands need the server.
LEMMA ServerRestore ==
    ASSUME BootInv, Complete \/ Software, UNCHANGED bvars
    PROVE  IdleInv' /\ RestoreInv'
<1>1. boot' = boot /\ IdleInv /\ RestoreInv
  BY DEF bvars, BootInv
<1>2. CASE Complete
  <2>1. UNCHANGED <<regs, saved, cut, pc>>
    BY <1>2 DEF Complete, threads, history
  <2>2. QED
    BY <1>1, <2>1 DEF IdleInv, RestoreInv, Excused, At, Running
<1>3. CASE Software
  <2>1. PICK t \in Clients : Step(t) \/ Served(t)
    BY <1>3 DEF Software
  <2>2. CASE Return(t)
    <3>1. UNCHANGED <<regs, saved, cut, pc>>
      BY <2>2 DEF Return, threads, history
    <3>2. QED
      BY <1>1, <3>1 DEF IdleInv, RestoreInv, Excused, At, Running
  <2>3. CASE ~Return(t)
    <3>1. CASE Served(t)
      BY <1>1, <3>1 DEF Served, IdleInv, RestoreInv, At, Running
    <3>2. CASE Step(t)
      <4>1. pc[t] # "idle"
        BY <2>3, <3>2 DEF Step, Enable, Erase, Poll, PollBlind, QspiGatherData,
               QspiFlashWrite, QspiFlashRead, QspiDisperseData, Calls, Erasing, Writing
      <4>2. Running
        BY <1>1, <4>1 DEF IdleInv
      <4>3. QED
        BY <1>1, <4>2 DEF IdleInv, RestoreInv, At, Running
    <3>3. QED
      BY <2>1, <3>1, <3>2
  <2>4. QED
    BY <2>2, <2>3
<1>4. QED
  BY <1>2, <1>3

-----------------------------------------------------------------------------
\* Every step keeps the invariant.
LEMMA NextBootInv == BootInv /\ [BootNext]_allvars => BootInv'
<1> SUFFICES ASSUME BootInv, [BootNext]_allvars PROVE BootInv'
  OBVIOUS
<1>1. /\ BootTypeOK /\ TypeOK /\ HasChannel /\ AloneInv /\ BusyInv /\ StoredInv
      /\ IdleInv /\ RestoreInv
  BY DEF BootInv, BootTypeOK
<1>2. ASSUME Complete \/ Software, UNCHANGED bvars PROVE BootInv'
  <2>1. TypeOK' /\ HasChannel' /\ AloneInv' /\ BusyInv' /\ StoredInv'
    <3>1. CASE Complete
      BY <1>1, <3>1, CompleteTypes, CompleteAlone, CompleteStored
    <3>2. ASSUME NEW t \in Clients, Step(t)
          PROVE  TypeOK' /\ HasChannel' /\ AloneInv' /\ BusyInv' /\ StoredInv'
      BY <1>1, <3>2, StepTypes, StepAlone, StepStored
    <3>3. ASSUME NEW t \in Clients, Command(t)
          PROVE  TypeOK' /\ HasChannel' /\ AloneInv' /\ BusyInv' /\ StoredInv'
      BY <1>1, <3>3, CommandTypes, CommandAlone, CommandStored
    <3>4. QED
      BY <1>2, <3>1, <3>2, <3>3 DEF Software, Served
  <2>2. BootTypeOK'
    BY <1>1, <1>2, <2>1 DEF BootTypeOK, bvars
  <2>3. QED
    BY <1>2, <2>1, <2>2, ServerRestore DEF BootInv
<1>3. ASSUME BootStep \/ DhcpBound PROVE BootInv'
  <2>1. /\ BootTypeOK' /\ HasChannel'
        /\ UNCHANGED <<flash, wel, wip, driver, pc, chan, qspibuf, begun, saved, cut, alone,
                       dropped>>
    BY <1>1, <1>3, BootTypes
  <2>2. AloneInv'
    BY <1>1, <2>1 DEF AloneInv, Stage, Erased, EraseWait, WriteWait, Saving, Busy, Erasing, Writing
  <2>3. BusyInv' /\ StoredInv'
    BY <1>1, <2>1 DEF BusyInv, StoredInv, Touched, InSave, Busy, Erasing, Writing
  <2>4. QED
    BY <1>3, <2>1, <2>2, <2>3, BootRestore DEF BootInv
<1>4. ASSUME PowerLoss \/ Reboot PROVE BootInv'
  <2>1. BootTypeOK' /\ HasChannel' /\ BusyInv' /\ StoredInv'
    BY <1>1, <1>4, ResetTypes, ResetStored
  <2>2. boot' = Cold /\ alone' = {} /\ pc' = [t \in Clients |-> "idle"]
    BY <1>4 DEF PowerLoss, Reboot, Restart
  <2>3. AloneInv' /\ IdleInv'
    BY <2>2 DEF AloneInv, IdleInv
  <2>4. RestoreInv'
    <3>1. boot'.pc = "init" /\ boot'.chan = 1
      BY <2>2 DEF Cold
    <3>2. QED
      BY <3>1 DEF RestoreInv, At
  <2>5. QED
    BY <2>1, <2>3, <2>4 DEF BootInv
<1>5. CASE UNCHANGED allvars \/ ServerGone
  <2>1. UNCHANGED <<regs, flash, wel, wip, driver, pc, chan, qspibuf, begun, saved, cut,
                    alone, dropped, boot, net, resets>>
    BY <1>5 DEF ServerGone, allvars, vars, bvars, device, threads, history, history
  <2>2. BootTypeOK' /\ HasChannel'
    BY <1>1, <2>1 DEF BootTypeOK, TypeOK, HasChannel, Busy
  <2>3. AloneInv'
    BY <1>1, <2>1 DEF AloneInv, Stage, Erased, EraseWait, WriteWait, Saving, Busy, Erasing, Writing
  <2>4. BusyInv' /\ StoredInv'
    BY <1>1, <2>1 DEF BusyInv, StoredInv, Touched, InSave, Busy, Erasing, Writing
  <2>5. IdleInv' /\ RestoreInv'
    BY <1>1, <2>1 DEF IdleInv, RestoreInv, Excused, At, Running
  <2>6. QED
    BY <2>2, <2>3, <2>4, <2>5 DEF BootInv
<1>6. QED
  BY <1>2, <1>3, <1>4, <1>5 DEF BootNext

(* The invariant holds through every save, load and reset.                 *)
THEOREM SettingsInvariant == BootSpec => []BootInv
BY InitBootInv, NextBootInv, PTL DEF BootSpec

(* Type correctness of the settings in flash and of the boot.              *)
THEOREM BootTypesHold == BootSpec => []BootTypeOK
<1>1. BootInv => BootTypeOK
  BY DEF BootInv
<1>2. QED
  BY <1>1, SettingsInvariant, PTL

(* A save that found the flash ready, that no other save overlaps and that *)
(* lost no transfer to a busy driver leaves in the sector exactly what it  *)
(* gathered, for every number of clients that load settings or write       *)
(* registers meanwhile and are preempted inside the driver or not.         *)
THEOREM SaveExact == BootSpec => SaveIsExact
<1>1. BootInv /\ [BootNext]_allvars =>
        [\A t \in alone : SaveDone(t) /\ t \notin dropped' =>
              flash[chan[t]] = qspibuf[t]]_vars
  <2> SUFFICES ASSUME BootInv, [BootNext]_allvars, ~UNCHANGED vars,
                      NEW t \in alone, SaveDone(t), t \notin dropped'
               PROVE  flash[chan[t]] = qspibuf[t]
    OBVIOUS
  <2>1. /\ t \in Clients /\ (t \in dropped \/ Stage(t)) /\ TypeOK
        /\ pc[t] \in Writing /\ pc'[t] = "read"
    BY DEF BootInv, AloneInv, BootTypeOK, TypeOK, SaveDone
  <2>2. pc'[t] # pc[t]
    BY <2>1 DEF Writing
  <2>3. Poll(t) \/ PollBlind(t)
    <3>1. ASSUME NEW u \in Clients, Step(u) \/ Command(u) PROVE u = t
      BY <2>1, <2>2, <3>1, OthersKeep
    <3>2. ~Command(t)
      <4>1. Command(t) => pc[t] = "idle"
        BY DEF Command, WriteQspi, ReadQspi, SetRegister, Begin, Calls
      <4>2. QED
        BY <2>1, <4>1 DEF Writing
    <3>3. Step(t) => Poll(t) \/ PollBlind(t)
      BY <2>1, <2>2 DEF Step, Enable, Erase, QspiGatherData, QspiFlashWrite,
             QspiFlashRead, QspiDisperseData, Return, Calls, Writing, threads
    <3>4. ~Complete
      BY <2>2 DEF Complete, threads
    <3>5. ~(BootStep \/ DhcpBound)
      BY <2>2, BootTypes DEF BootInv
    <3>6. ~(PowerLoss \/ Reboot)
      BY <2>1 DEF PowerLoss, Reboot, Restart
    <3>7. ~UNCHANGED allvars /\ ~ServerGone
      BY DEF allvars, ServerGone
    <3>8. QED
      BY <3>1, <3>2, <3>3, <3>4, <3>5, <3>6, <3>7 DEF BootNext, Software, Served
  <2>4. Poll(t) /\ ~Busy /\ Stage(t)
    <3>1. CASE PollBlind(t)
      <4>1. pc'[t] = "write_poll" \/ t \in dropped'
        BY <2>1, <3>1 DEF PollBlind, Again, GoOn, Goto, TypeOK, Erasing, Writing
      <4>2. QED
        BY <2>1, <4>1
    <3>2. CASE Poll(t)
      <4>1. dropped' = dropped
        BY <3>2 DEF Poll, Transfer
      <4>2. Busy => pc'[t] \in {"erase_poll", "write_poll"}
        BY <2>1, <3>2 DEF Poll, Again, Goto, TypeOK
      <4>3. QED
        BY <2>1, <3>2, <4>1, <4>2
    <3>3. QED
      BY <2>3, <3>1, <3>2
  <2>5. QED
    BY <2>1, <2>4 DEF Stage, WriteWait
<1>2. QED
  BY <1>1, SettingsInvariant, PTL DEF BootSpec, SaveIsExact

(* When the server starts, every channel has the settings that its last    *)
(* finished save stored, for every number of channels and every sequence   *)
(* of saves and resets, with the two exceptions of BootRestoresSaved.      *)
THEOREM RestoredAtBoot == BootSpec => BootRestoresSaved
<1>1. BootInv /\ [BootNext]_allvars =>
        [~Running /\ Running' =>
           \A c \in Chans \ (cut \cup boot.garbled) : regs'[c] = saved[c]]_allvars
  <2> SUFFICES ASSUME BootInv, [BootNext]_allvars, ~UNCHANGED allvars,
                      ~Running, Running', NEW c \in Chans \ (cut \cup boot.garbled)
               PROVE  regs'[c] = saved[c]
    OBVIOUS
  <2>1. Listen
    <3>1. boot'.pc = "run" /\ boot.pc # "run"
      BY DEF Running
    <3>2. boot' # boot
      BY <3>1
    <3>3. ~(PowerLoss \/ Reboot)
      BY <3>1 DEF PowerLoss, Reboot, Restart, Cold
    <3>4. boot \in [pc : {"init", "card", "netconf", "restore", "disperse", "net",
                          "listen", "run",
             "failed"},
                    card : {0, 1}, lines : 0..MaxLines, use_static : BOOLEAN,
                    chan : Chans, readbuf : SUBSET Bits, garbled : SUBSET Chans]
      BY DEF BootInv, BootTypeOK
    <3>5. ~(HardwareInit \/ TryPart \/ NetconfLine \/ NetconfEnd \/ NetSetup)
      BY <3>1, <3>4 DEF HardwareInit, TryPart, NetconfLine, NetconfEnd, NetSetup, Enter
    <3>6. ~(RestoreRead \/ RestoreDisperse)
      BY <3>1, <3>4 DEF RestoreRead, RestoreDisperse
    <3>7. ~DhcpBound /\ ~UNCHANGED bvars /\ ~ServerGone
      BY <3>2 DEF DhcpBound, bvars, ServerGone, allvars
    <3>8. QED
      BY <3>3, <3>5, <3>6, <3>7 DEF BootNext, BootStep
  <2>2. boot.pc = "listen" /\ regs' = regs
    BY <2>1 DEF Listen, At, vars
  <2>3. QED
    BY <2>2 DEF BootInv, RestoreInv, Excused, At
<1>2. QED
  BY <1>1, SettingsInvariant, PTL DEF BootSpec, BootRestoresSaved
=============================================================================
