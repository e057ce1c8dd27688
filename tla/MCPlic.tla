------------------------------- MODULE MCPlic -------------------------------
(* Small instances of the PLIC driver for TLC.                             *)
EXTENDS Plic

(* Three sources, two of them with a handler installed.                    *)
MCHandlers == {1, 2}

(* K230's S-mode context layout: context 0 (M-mode) and context 1.         *)
MCNrContextTwo == 2

(* A third context, as on a part that lists another target.               *)
MCNrContextThree == 3
=============================================================================
