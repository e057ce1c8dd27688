----------------------------- MODULE MCHwTimer ------------------------------
(* Two signal numbers and one sigval, up to three expiries.  In periodic   *)
(* mode that is enough for a second expiry to come before the workqueue   *)
(* ran the first signal.  In one-shot mode it is not: KdTimerStart models *)
(* a process that re-arms only once the last signal came, so the hwtimer   *)
(* run never meets that case and only hwtimer_periodic does.              *)
EXTENDS HwTimer

CONSTANTS s1, s2, v1

MCSignos  == {s1, s2}
MCSigvals == {v1}
MCOneShot == {"oneshot"}
MCAnyMode == {"oneshot", "period"}

(* The four frequencies the driver has a divider for.                     *)
MCFreqs == {MinFreq, 25 * MHz, 50 * MHz, MaxFreq}

(* minfreq and 40 MHz: HWTIMER_CTRL_FREQ_SET accepts any frequency from   *)
(* minfreq to maxfreq, and kd_timer_ctrl has no divider for 40 MHz.       *)
MCFreqsUnsupported == {MinFreq, 40 * MHz}
=============================================================================
