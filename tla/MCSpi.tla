-------------------------------- MODULE MCSpi --------------------------------
(* Small instances of the SPI bus glue for TLC.                            *)
EXTENDS Spi, TLC

CONSTANTS t1, t2, d1, d2

(* Two application threads; two heap blocks for rt_spi_device, enough    *)
(* for a device still being freed and a new one to be allocated.           *)
MCThreads == {t1, t2}
MCDevs == {d1, d2}

(* The threads, and the heap blocks, are interchangeable.                  *)
MCSymmetry == Permutations(MCThreads) \cup Permutations(MCDevs)
=============================================================================
