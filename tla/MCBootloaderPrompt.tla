------------------------- MODULE MCBootloaderPrompt -------------------------
(* BootloaderPrompt on the instance of Upgrade.cfg.                          *)
EXTENDS BootloaderPrompt
=============================================================================
