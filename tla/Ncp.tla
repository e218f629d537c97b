-------------------------------- MODULE Ncp --------------------------------
(***************************************************************************)
(* The other end of the serial line: the two directions of the UART and    *)
(* the EZSP adapter (NCP) behind it.  None of this is code of the          *)
(* repository; it is modelled from what AshCodec, AshDriver, CEzspDongle   *)
(* and BootloaderPromptDriver send to it and expect from it.  A frame is a *)
(* record; its payload is the command it carries, tagged with the order in *)
(* which the host accepted that command (0: the adapter's own callback).   *)
(***************************************************************************)
EXTENDS Naturals, Sequences

CONSTANTS
  Commands,      \* EZSP commands the host sends (frame IDs)
  Callbacks,     \* EZSP frame IDs the adapter sends unasked (*_HANDLER)
  Launch,        \* EZSP_LAUNCH_STANDALONE_BOOTLOADER
  Env,           \* which misfortunes this instance contains (see Misfortunes)
  FrmMod,        \* ASH frame numbers are counted modulo this (8 in the code)
  LinkCap,       \* bound: with this many frames in transit the adapter only answers
  MaxExecuted,   \* bound: commands executed, those sent twice included
  MaxFaults      \* bound: the misfortunes of one behaviour

Misfortunes == {"write", "noise", "retransmit", "ncpReset", "reset", "early", "slowBoot"}

ASSUME NcpAssumption ==
  /\ FrmMod \in Nat \ {0, 1}
  /\ LinkCap \in Nat
  /\ MaxExecuted \in Nat
  /\ MaxFaults \in Nat
  /\ Env \subseteq Misfortunes
  /\ Commands \cap Callbacks = {}
  /\ Launch \notin Callbacks

VARIABLES
  toNcp,         \* frames written by the host, not yet read by the adapter
  toHost,        \* frames written by the adapter, not yet read by the host
  ncpMode,       \* "ezsp", "bootloader" (its prompt) or "xmodem" (image transfer)
  ncpConnected,  \* the adapter's ASH connection is up
  ncpRx,         \* the frame number the adapter expects next
  ncpTx,         \* the frame number the adapter uses next
  ncpTodo,       \* commands accepted and not answered yet
  ncpUnacked,    \* <<>> or the last DATA frame, until the host acknowledges it
  flaky,         \* what the host writes may get lost on the way
  executed,      \* history: the tags of the commands executed, in order
  faults         \* history: the misfortunes that happened, in order

wireVars == <<toNcp, toHost>>
adapterVars == <<ncpMode, ncpConnected, ncpRx, ncpTx, ncpTodo, ncpUnacked, executed>>
ncpOnlyVars == <<adapterVars, flaky, faults>>

-----------------------------------------------------------------------------
(* Frames.  BAD is a frame whose CRC is wrong; JUNK is a run of bytes with   *)
(* no closing flag, which spoils the frame that follows it.                  *)

FrmNums == 0 .. FrmMod - 1

SuccFrm(n) == (n + 1) % FrmMod

EzspCmds == Commands \cup Callbacks \cup {Launch}
Entries == [tag : Nat, cmd : EzspCmds]

Simple(t) == [type |-> t]
Data(frm, ack, entry) == [type |-> "DATA", frm |-> frm, ack |-> ack, entry |-> entry]

DataFrames == [type : {"DATA"}, frm : FrmNums, ack : FrmNums, entry : Entries]
HostFrames == [type : {"RST", "BAD", "JUNK", "RUN", "UPGRADE"}]
              \cup [type : {"ACK"}, ack : FrmNums] \cup DataFrames
NcpFrames == [type : {"ACK", "BAD"}] \cup [type : {"NAK"}, num : FrmNums]
             \cup [type : {"RSTACK"}, good : BOOLEAN] \cup DataFrames

NcpTypeOK ==
  /\ toNcp \in Seq(HostFrames)
  /\ toHost \in Seq(NcpFrames)
  /\ ncpMode \in {"ezsp", "bootloader", "xmodem"}
  /\ ncpConnected \in BOOLEAN
  /\ ncpRx \in FrmNums
  /\ ncpTx \in FrmNums
  /\ ncpTodo \in Seq(Entries)
  /\ ncpUnacked \in Seq(DataFrames)
  /\ flaky \in BOOLEAN
  /\ executed \in Seq(Nat)
  /\ faults \in Seq(Misfortunes)

(* The adapter is powered: it runs its application, or waits at the prompt   *)
(* of its bootloader.                                                        *)
NcpInit ==
  /\ toNcp = <<>> /\ toHost = <<>>
  /\ ncpMode \in {"ezsp", "bootloader"}
  /\ ncpConnected = FALSE
  /\ ncpRx = 0 /\ ncpTx = 0
  /\ ncpTodo = <<>> /\ ncpUnacked = <<>>
  /\ flaky = FALSE /\ executed = <<>> /\ faults = <<>>

-----------------------------------------------------------------------------
(* Reading one frame from the host.                                          *)

(* An acknowledgement of everything sent so far ends the retransmissions.    *)
Acked(ack) == IF ack = ncpTx THEN <<>> ELSE ncpUnacked

(* A fresh ASH connection: counters at zero, nothing pending, RSTACK sent.   *)
StartAsh(good) ==
  /\ ncpConnected' = TRUE
  /\ ncpRx' = 0 /\ ncpTx' = 0
  /\ ncpTodo' = <<>> /\ ncpUnacked' = <<>>
  /\ toHost' = Append(toHost, [type |-> "RSTACK", good |-> good])

Nak == Append(toHost, [type |-> "NAK", num |-> ncpRx])

NcpReadsReset(f) ==
  /\ f.type = "RST" /\ ncpMode = "ezsp"
  /\ toNcp' = Tail(toNcp)
  /\ StartAsh(TRUE)
  /\ UNCHANGED ncpMode

NcpAcceptsData(f) ==
  /\ f.type = "DATA" /\ ncpMode = "ezsp" /\ ncpConnected /\ f.frm = ncpRx
  /\ Len(executed) + Len(ncpTodo) < MaxExecuted
  /\ toNcp' = Tail(toNcp)
  /\ ncpRx' = SuccFrm(ncpRx)
  /\ ncpTodo' = Append(ncpTodo, f.entry)
  /\ ncpUnacked' = Acked(f.ack)
  /\ toHost' \in {toHost, Append(toHost, Simple("ACK"))}
  /\ UNCHANGED <<ncpMode, ncpConnected, ncpTx>>

NcpRejectsFrame(f) ==
  /\ ncpMode = "ezsp" /\ ncpConnected
  /\ f.type = "BAD" \/ (f.type = "DATA" /\ f.frm # ncpRx)
  /\ toNcp' = Tail(toNcp)
  /\ toHost' = Nak
  /\ UNCHANGED <<ncpMode, ncpConnected, ncpRx, ncpTx, ncpTodo, ncpUnacked>>

NcpReadsAck(f) ==
  /\ f.type = "ACK" /\ ncpMode = "ezsp" /\ ncpConnected
  /\ toNcp' = Tail(toNcp)
  /\ ncpUnacked' = Acked(f.ack)
  /\ UNCHANGED <<toHost, ncpMode, ncpConnected, ncpRx, ncpTx, ncpTodo>>

(* RST is preceded by a cancel byte and survives the junk before it; any     *)
(* other frame is read as one with the junk and fails its CRC.               *)
NcpReadsJunk(f) ==
  /\ f.type = "JUNK" /\ ncpMode = "ezsp" /\ Len(toNcp) > 1
  /\ toNcp' = IF toNcp[2].type \in {"RST", "JUNK"}
              THEN Tail(toNcp)
              ELSE <<Simple("BAD")>> \o Tail(Tail(toNcp))
  /\ UNCHANGED <<toHost, ncpMode, ncpConnected, ncpRx, ncpTx, ncpTodo, ncpUnacked>>

(* Option 2 of the bootloader menu starts the application, option 1 the      *)
(* transfer of an image; nothing else is understood at the prompt.           *)
NcpReadsRun(f) ==
  /\ f.type = "RUN" /\ ncpMode = "bootloader"
  /\ toNcp' = Tail(toNcp)
  /\ ncpMode' = "ezsp"
  /\ StartAsh(TRUE)

NcpReadsUpgrade(f) ==
  /\ f.type = "UPGRADE" /\ ncpMode = "bootloader"
  /\ toNcp' = Tail(toNcp)
  /\ ncpMode' = "xmodem"
  /\ UNCHANGED <<toHost, ncpConnected, ncpRx, ncpTx, ncpTodo, ncpUnacked>>

NcpIgnores(f) ==
  /\ \/ ncpMode = "xmodem"
     \/ ncpMode = "bootloader" /\ f.type \notin {"RUN", "UPGRADE"}
     \/ ncpMode = "ezsp" /\ ~ncpConnected /\ f.type \in {"DATA", "ACK", "BAD"}
  /\ toNcp' = Tail(toNcp)
  /\ UNCHANGED <<toHost, ncpMode, ncpConnected, ncpRx, ncpTx, ncpTodo, ncpUnacked>>

NcpReceives ==
  /\ toNcp # <<>> /\ Len(toHost) < LinkCap
  /\ LET f == Head(toNcp)
     IN \/ NcpReadsReset(f)
        \/ NcpAcceptsData(f)
        \/ NcpRejectsFrame(f)
        \/ NcpReadsAck(f)
        \/ NcpReadsJunk(f)
        \/ NcpReadsRun(f)
        \/ NcpReadsUpgrade(f)
        \/ NcpIgnores(f)
  /\ UNCHANGED <<flaky, executed, faults>>

-----------------------------------------------------------------------------
(* What the adapter does by itself.                                          *)

SendsData(entry) ==
  LET f == Data(ncpTx, ncpRx, entry)
  IN /\ toHost' = Append(toHost, f)
     /\ ncpUnacked' = <<f>>
     /\ ncpTx' = SuccFrm(ncpTx)

(* The response to a command carries the command's frame ID.  After the      *)
(* response to Launch the adapter restarts in its bootloader, and what else  *)
(* it had accepted is lost.                                                  *)
NcpResponds ==
  /\ ncpTodo # <<>> /\ Len(toHost) <= LinkCap
  /\ SendsData(Head(ncpTodo))
  /\ ncpTodo' = IF Head(ncpTodo).cmd = Launch THEN <<>> ELSE Tail(ncpTodo)
  /\ executed' = Append(executed, Head(ncpTodo).tag)
  /\ ncpMode' = IF Head(ncpTodo).cmd = Launch THEN "bootloader" ELSE ncpMode
  /\ ncpConnected' = (Head(ncpTodo).cmd # Launch)
  /\ UNCHANGED <<toNcp, ncpRx, flaky, faults>>

(* Bound: no callback while the line is flaky or the host's frames unread.    *)
NcpCallsBack(c) ==
  /\ ~flaky /\ ncpMode = "ezsp" /\ ncpConnected
  /\ Len(toHost) < LinkCap /\ toNcp = <<>>
  /\ SendsData([tag |-> 0, cmd |-> c])
  /\ UNCHANGED <<toNcp, ncpMode, ncpConnected, ncpRx, ncpTodo, flaky, executed, faults>>

Fault(kind) ==
  /\ kind \in Env /\ Len(faults) < MaxFaults
  /\ faults' = Append(faults, kind)

Happened == {faults[i] : i \in 1 .. Len(faults)}

(* The adapter's own timer: a DATA frame not acknowledged is sent again.     *)
NcpRetransmits ==
  /\ Fault("retransmit")
  /\ ncpMode = "ezsp" /\ ncpConnected /\ ncpUnacked # <<>>
  /\ toHost' = Append(toHost, Head(ncpUnacked))
  /\ UNCHANGED <<toNcp, adapterVars, flaky>>

(* Watchdog or brown-out: the adapter restarts and announces it.             *)
NcpResets ==
  /\ Fault("ncpReset")
  /\ ncpMode = "ezsp"
  /\ \E good \in BOOLEAN : StartAsh(good)
  /\ UNCHANGED <<toNcp, ncpMode, flaky, executed>>

(* Noise spoils the CRC of the frame that is next to be read.                *)
NoiseToNcp ==
  /\ Fault("noise")
  /\ toNcp # <<>> /\ Head(toNcp).type \in {"DATA", "ACK", "RST"}
  /\ toNcp' = <<Simple("BAD")>> \o Tail(toNcp)
  /\ UNCHANGED <<toHost, adapterVars, flaky>>

NoiseToHost ==
  /\ Fault("noise")
  /\ toHost # <<>> /\ Head(toHost).type # "BAD"
  /\ toHost' = <<Simple("BAD")>> \o Tail(toHost)
  /\ UNCHANGED <<toNcp, adapterVars, flaky>>

(* For a while the host's writes may fail, in whole or in part.              *)
LineDegrades ==
  /\ Fault("write") /\ ~flaky
  /\ flaky' = TRUE
  /\ UNCHANGED <<wireVars, adapterVars>>

LineRecovers ==
  /\ flaky /\ flaky' = FALSE
  /\ UNCHANGED <<wireVars, adapterVars, faults>>

NcpNext ==
  \/ NcpReceives
  \/ NcpResponds
  \/ \E c \in Callbacks : NcpCallsBack(c)
  \/ NcpRetransmits
  \/ NcpResets
  \/ NoiseToNcp
  \/ NoiseToHost
  \/ LineDegrades
  \/ LineRecovers

=============================================================================
