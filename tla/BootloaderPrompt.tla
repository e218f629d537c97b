-------------------------- MODULE BootloaderPrompt --------------------------
(***************************************************************************)
(* BootloaderPromptDriver, with the callbacks that CEzspDongle::setMode()  *)
(* gives it, at the prompt of the Gecko bootloader.  Three threads: the    *)
(* caller of setMode(), the serial reader and the timer of the flush.      *)
(***************************************************************************)
EXTENDS Integers, SequencesExt

CONSTANTS
  MaxSetModes,     \* bound: calls of setMode()
  MaxWriteFails,   \* bound: writes that fail
  MaxReadyChars,   \* bound: 'C's of the bootloader before it gives up an upload
  MaxLine          \* bound: characters in transit

ASSUME PromptAssumption ==
  {MaxSetModes, MaxWriteFails, MaxReadyChars, MaxLine} \subseteq Nat

VARIABLES
  lastKnownMode,               \* of CEzspDongle
  enabled, state, accumulatedBytes,
  promptDetectCallback,        \* "none", or which one setMode() registered
  firmwareTransferStartFunc,   \* is there one?
  timer,                       \* armed?
  reader,     \* "idle", or "flush" when it has found RX_FLUSH and dropped its bytes
  bootloader, toBootloader, toHost, readyChars,    \* external
  setModes, writeFails,        \* history: how often
  prompts,    \* history: prompts shown and not answered
  choices     \* history: uploads asked for, for which no transfer was announced

dongleVars == <<lastKnownMode, enabled, promptDetectCallback>>
parserVars == <<state, accumulatedBytes, firmwareTransferStartFunc>>
bootVars == <<bootloader, readyChars>>
vars == <<dongleVars, parserVars, timer, reader, bootVars, toBootloader, toHost,
          setModes, writeFails, prompts, choices>>

-----------------------------------------------------------------------------
Stage == {"RX_FLUSH", "PROBE", "TOPLEVEL_MENU_HEADER", "TOPLEVEL_MENU_CONTENT",
          "TOPLEVEL_MENU_PROMPT", "XMODEM_READY_CHAR_WAIT", "XMODEM_XFR"}

(* Text, as far as the parser tells it apart; the header is cut in two so    *)
(* that it can arrive in two chunks.  The rest of the menu, which holds none *)
(* of these, is left out.                                                    *)
HEADER == <<"Gecko", "Bootloader">>
PROMPT == <<"BL">>
Menu == HEADER \o <<"eol">> \o PROMPT
Menus == {Menu, Append(Menu, "nul")}    \* most adapters send a NUL after the prompt
Characters == ToSet(Menu) \cup {"nul", "C"}

Found(s, text) == {i \in 1 .. Len(s) - Len(text) + 1 : SubSeq(s, i, i + Len(text) - 1) = text}
From(s, i) == SubSeq(s, i, Len(s))

(* After a NUL the characters before it are dropped when the next one comes. *)
Accumulate(bytes, chunk) ==
  LET all == bytes \o chunk
      nul == Last(all) = "nul"
      cuts == {i \in 1 .. Len(all) - 1 : all[i] = "nul"}
      kept == From(all, Max(cuts \cup {0}) + 1)
  IN [bytes |-> IF nul THEN Front(kept) ELSE kept, nul |-> nul]

(* Mutant: a header is only looked for after the probe.                      *)
ParseHeaderInProbe(s) ==
  IF s.state # "PROBE" \/ Found(s.bytes, HEADER) = {} THEN s
  ELSE [s EXCEPT !.state = "TOPLEVEL_MENU_HEADER",
                 !.bytes = From(@, Min(Found(@, HEADER)) + Len(HEADER))]

(* A header is welcome in every stage but the flush.                         *)
ParseHeader(s) ==
  IF Found(s.bytes, HEADER) = {} THEN s
  ELSE [s EXCEPT !.state = "TOPLEVEL_MENU_HEADER",
                 !.bytes = From(@, Min(Found(@, HEADER)) + Len(HEADER))]

ParseVersion(s) ==
  IF s.state # "TOPLEVEL_MENU_HEADER" \/ Found(s.bytes, <<"eol">>) = {} THEN s
  ELSE [s EXCEPT !.state = "TOPLEVEL_MENU_CONTENT", !.bytes = From(@, Min(Found(@, <<"eol">>)))]

(* Mutant: a prompt is answered in whatever stage it is found.               *)
ParsePromptAnytime(s) ==
  IF Found(s.bytes, PROMPT) = {} THEN s
  ELSE [s EXCEPT !.state = "TOPLEVEL_MENU_PROMPT", !.bytes = From(@, Min(Found(@, PROMPT)))]

ParsePrompt(s) ==
  IF s.state \notin {"TOPLEVEL_MENU_HEADER", "TOPLEVEL_MENU_CONTENT"}
       \/ Found(s.bytes, PROMPT) = {}
  THEN s
  ELSE [s EXCEPT !.state = "TOPLEVEL_MENU_PROMPT", !.bytes = From(@, Min(Found(@, PROMPT)))]

(* The 'C' of a bootloader that awaits a file counts only as the last        *)
(* character of what was read.                                               *)
ReadyChar(s, chunk) ==
  IF s.state = "XMODEM_READY_CHAR_WAIT" /\ Last(chunk) = "C" /\ s.func
  THEN [s EXCEPT !.state = "XMODEM_XFR", !.func = FALSE, !.starts = 1]
  ELSE s

-----------------------------------------------------------------------------
TypeOK ==
  /\ lastKnownMode \in {"UNKNOWN", "EZSP_NCP", "BOOTLOADER_EXIT_TO_EZSP_NCP",
                        "BOOTLOADER_FIRMWARE_UPGRADE"}
  /\ enabled \in BOOLEAN /\ state \in Stage
  /\ accumulatedBytes \in Seq(Characters \ {"nul"})
  /\ promptDetectCallback \in {"none", "run", "upgrade"}
  /\ firmwareTransferStartFunc \in BOOLEAN /\ timer \in BOOLEAN
  /\ reader \in {"idle", "flush"}
  /\ bootloader \in {"menu", "upload", "rebooting", "application"}
  /\ toBootloader \in Seq({"LF", "1", "2"}) /\ toHost \in Seq(Characters)
  /\ readyChars \in 0 .. MaxReadyChars
  /\ setModes \in 0 .. MaxSetModes /\ writeFails \in 0 .. MaxWriteFails
  /\ prompts \in Int /\ choices \in Int

(* The adapter does not answer and is found at its prompt or in an upload,   *)
(* or it runs its application.                                               *)
Init ==
  /\ bootloader \in {"menu", "upload", "application"}
  /\ lastKnownMode = IF bootloader = "application" THEN "EZSP_NCP" ELSE "UNKNOWN"
  /\ enabled = FALSE /\ promptDetectCallback = "none"
  /\ state = "RX_FLUSH" /\ accumulatedBytes = <<>> /\ firmwareTransferStartFunc = FALSE
  /\ timer = FALSE /\ reader = "idle"
  /\ toBootloader = <<>> /\ toHost = <<>> /\ readyChars = 0
  /\ setModes = 0 /\ writeFails = 0 /\ prompts = 0 /\ choices = 0

(* setMode(): each of the two combinations it implements ends in             *)
(* blp.reset().  It is called when the adapter did not answer at startup, or *)
(* when the application has launched (external) the bootloader.              *)
SetMode(callback, mode) ==
  /\ setModes < MaxSetModes /\ setModes' = setModes + 1
  /\ lastKnownMode' = mode /\ promptDetectCallback' = callback
  /\ enabled' = TRUE
  /\ state' = "RX_FLUSH" /\ accumulatedBytes' = <<>> /\ firmwareTransferStartFunc' = FALSE
  /\ timer' = TRUE
  /\ bootloader' = IF bootloader = "application" THEN "rebooting" ELSE bootloader
  /\ UNCHANGED <<reader, readyChars, toBootloader, toHost, writeFails, prompts, choices>>

ExitBootloader ==
  /\ lastKnownMode = "UNKNOWN"
  /\ SetMode("run", "BOOTLOADER_EXIT_TO_EZSP_NCP")

FirmwareUpgrade ==
  /\ \/ lastKnownMode = "UNKNOWN"
     \/ lastKnownMode = "EZSP_NCP" /\ bootloader = "application" /\ toBootloader = <<>>
  /\ SetMode("upgrade", "BOOTLOADER_FIRMWARE_UPGRADE")

-----------------------------------------------------------------------------
(* A write reaches the adapter or not; writtenBytes is not set by one that   *)
(* fails, so sendBytes() may call either a success.                          *)
Write(char, reported) ==
  \/ toBootloader' = Append(toBootloader, char) /\ reported /\ UNCHANGED writeFails
  \/ /\ writeFails < MaxWriteFails /\ writeFails' = writeFails + 1
     /\ UNCHANGED toBootloader

(* trigger(), then probe().                                                  *)
Trigger ==
  /\ timer /\ timer' = FALSE
  /\ \/ enabled /\ state' = "PROBE" /\ Write("LF", TRUE)
     \/ ~enabled /\ UNCHANGED <<state, toBootloader, writeFails>>
  /\ UNCHANGED <<dongleVars, accumulatedBytes, firmwareTransferStartFunc, reader, bootVars,
                 toHost, setModes, prompts, choices>>

(* The prompt is answered by the callback: the application is run and the    *)
(* driver disabled, or an upload is asked for; when that could not be        *)
(* written there is nothing to call when it is ready.                        *)
AnswerPrompt(func) ==
  /\ prompts' = prompts - 1
  /\ \/ /\ promptDetectCallback = "run"
        /\ \E reported \in BOOLEAN : Write("2", reported)
        /\ state' = "RX_FLUSH" /\ enabled' = FALSE /\ lastKnownMode' = "EZSP_NCP"
        /\ firmwareTransferStartFunc' = func
     \/ /\ promptDetectCallback = "upgrade"
        /\ \E reported \in BOOLEAN :
             /\ Write("1", reported)
             /\ firmwareTransferStartFunc' = (reported \/ func)
        /\ state' = "XMODEM_READY_CHAR_WAIT"
        /\ lastKnownMode' = "BOOTLOADER_FIRMWARE_UPGRADE" /\ UNCHANGED enabled
  /\ UNCHANGED promptDetectCallback

Ignored == UNCHANGED <<dongleVars, parserVars, reader, toBootloader, writeFails, prompts, choices>>

Flush ==
  /\ reader' = "flush"
  /\ UNCHANGED <<dongleVars, parserVars, toBootloader, writeFails, prompts, choices>>

AppendIncoming(chunk) ==
  LET before == [state |-> state, func |-> firmwareTransferStartFunc, starts |-> 0]
      read == Accumulate(accumulatedBytes, chunk)
  IN \E ready \in {ReadyChar(before, chunk)} :
     \E h \in {ParseHeader([state |-> ready.state, bytes |-> read.bytes])} :
     \E v \in {ParseVersion(h)} : \E s \in {ParsePrompt(v)} :
       LET prompted == s.state = "TOPLEVEL_MENU_PROMPT" /\ ready.state # s.state
       IN /\ accumulatedBytes' = IF read.nul THEN <<>> ELSE s.bytes
          /\ choices' = choices - ready.starts
                         + (IF prompted /\ promptDetectCallback = "upgrade" THEN 1 ELSE 0)
          /\ IF prompted THEN AnswerPrompt(ready.func)
             ELSE /\ state' = s.state /\ firmwareTransferStartFunc' = ready.func
                  /\ UNCHANGED <<dongleVars, toBootloader, writeFails, prompts>>
          /\ UNCHANGED reader

(* The reader delivers the n characters it found.                            *)
HandleInputData(n) ==
  /\ reader = "idle" /\ toHost # <<>>
  /\ toHost' = From(toHost, n + 1)
  /\ IF ~enabled THEN Ignored
     ELSE IF state = "RX_FLUSH" THEN Flush
     ELSE AppendIncoming(SubSeq(toHost, 1, n))
  /\ UNCHANGED <<timer, bootVars, setModes>>

(* The rest of the flush branch; the timer may have fired in between.        *)
RestartTimer ==
  /\ reader = "flush" /\ reader' = "idle"
  /\ timer' = TRUE
  /\ UNCHANGED <<dongleVars, parserVars, bootVars, toBootloader, toHost, setModes, writeFails,
                 prompts, choices>>

-----------------------------------------------------------------------------
(* The bootloader (external): it prints its menu when it starts, for a new   *)
(* line, and when no file comes for an upload; '1' starts an upload, '2' the *)
(* application.  There is a second between its 'C's, so that all was read.   *)
(* What is typed while it restarts is lost.                                  *)
Prints(text) ==
  /\ Len(toHost) + Len(text) <= MaxLine
  /\ toHost' = toHost \o text

BootVarsOnly == UNCHANGED <<dongleVars, parserVars, timer, reader, setModes, writeFails, choices>>

ShowMenu ==
  /\ \E menu \in Menus : Prints(menu)
  /\ prompts' = prompts + 1
  /\ bootloader' = "menu" /\ readyChars' = 0

Boots == bootloader = "rebooting" /\ ShowMenu /\ UNCHANGED toBootloader /\ BootVarsOnly

LineIdle == toHost = <<>> /\ toBootloader = <<>>

SendsReadyChar ==
  /\ bootloader = "upload" /\ readyChars < MaxReadyChars
  /\ readyChars > 0 => LineIdle
  /\ Prints(<<"C">>) /\ readyChars' = readyChars + 1
  /\ UNCHANGED <<bootloader, toBootloader, prompts>> /\ BootVarsOnly

GivesUp ==
  /\ bootloader = "upload" /\ readyChars = MaxReadyChars
  /\ LineIdle /\ ShowMenu
  /\ UNCHANGED toBootloader /\ BootVarsOnly

ReadsChar ==
  /\ toBootloader # <<>> /\ toBootloader' = Tail(toBootloader)
  /\ \/ /\ bootloader = "menu" /\ Head(toBootloader) = "LF" /\ ShowMenu
     \/ /\ bootloader = "menu" /\ Head(toBootloader) = "1"
        /\ bootloader' = "upload"
        /\ UNCHANGED <<readyChars, toHost, prompts>>
     \/ /\ bootloader = "menu" /\ Head(toBootloader) = "2" /\ bootloader' = "application"
        /\ UNCHANGED <<readyChars, toHost, prompts>>
     \/ /\ bootloader # "menu" /\ UNCHANGED <<bootVars, toHost, prompts>>
  /\ BootVarsOnly

-----------------------------------------------------------------------------
Read == \E n \in 1 .. Len(toHost) : HandleInputData(n)
Bootloader == Boots \/ SendsReadyChar \/ GivesUp \/ ReadsChar

Next == ExitBootloader \/ FirmwareUpgrade \/ Trigger \/ Read \/ RestartTimer \/ Bootloader

Spec == Init /\ [][Next]_vars

(* The timer expires, the reader reads what came and goes on, the bootloader *)
(* does what it has to do; nobody has to call setMode().                     *)
FairSpec == Spec /\ WF_vars(Trigger) /\ WF_vars(Read) /\ WF_vars(RestartTimer)
                 /\ WF_vars(Bootloader)

-----------------------------------------------------------------------------
(* Properties.                                                               *)

(* A choice is typed once for each prompt of the bootloader, however the     *)
(* menu is cut into chunks, repeated or flushed in part, and a transfer is   *)
(* announced once for each upload that was asked for: the other 'C's, and    *)
(* those of an upload nobody asked for, announce nothing (appendIncoming(),  *)
(* selectModeUpgradeFw()).                                                   *)
AnswersOnce == prompts >= 0 /\ choices >= 0

(* Unless a write failed, the mode that was asked for is reached: the        *)
(* application runs, or a transfer is announced.  A probe that comes late    *)
(* (the timer fires while the reader is about to restart it) may write over  *)
(* the stage of an upload: then the bootloader gives up and its next menu is *)
(* answered.                                                                 *)
ModeIsReached ==
  /\ (promptDetectCallback = "run" /\ enabled)
       ~> (bootloader = "application" \/ promptDetectCallback = "upgrade" \/ writeFails > 0)
  /\ (promptDetectCallback = "upgrade")
       ~> (state = "XMODEM_XFR" \/ promptDetectCallback = "run" \/ writeFails > 0)

=============================================================================
