------------------------------ MODULE OpmzDef ------------------------------
(* opmz_flag and the analysis levels (xx_opmz/xx_def.h).                    *)
EXTENDS Integers

\* TMP marks what the running analysis consumed, LV1 an instruction that an
\* expansion rewrote, LV2 and above an instruction that is no longer listed.
TMP == 1
LV1 == 10
LV2 == 20
LV3 == 30
LV4 == 40
Levels == {LV2, LV3, LV4}
Flags  == {-1, 0, TMP, LV1} \cup Levels
=============================================================================
