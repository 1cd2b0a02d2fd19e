------------------------------ MODULE SaveRam ------------------------------
(***************************************************************************)
(* The RAM of a cartridge and its .sav file: write_SRAM and read_SRAM of    *)
(* src/core/mmu/mbc.c over the files of src/platforms/standard/files.c.     *)
(*                                                                         *)
(* A bank holds one value.  Memory fresh from malloc holds any.  The disk   *)
(* may fail at any byte; save_SRAM opens the file with "wb", so what was in *)
(* it is gone by then, and write_SRAM ignores the result.                   *)
(***************************************************************************)
EXTENDS Naturals, Sequences

CONSTANTS
    Values,    \* what a bank may hold, 0 among it
    Delay      \* SRAM_WRITE_DELAY

ASSUME SaveRamAssumption == 0 \in Values /\ Delay \in Nat

VARIABLES
    RAM_banks,
    SRAM_cache, SRAM_cache_valid,
    file,        \* the .sav file; <<>> if it is empty or missing, which reads alike
    since,       \* get_time() - time_last_SRAM_write, at most Delay + 1
    file_age,    \* history: time since write_SRAM last went to the file, likewise
    last_save,   \* history: what became of the last call of write_SRAM
    dirty        \* history: written to since the power came on or write_SRAM

sram == <<RAM_banks, SRAM_cache, SRAM_cache_valid, file, since, file_age, last_save, dirty>>

Contents(n) == [1 .. n -> Values]
CutShort(s) == {SubSeq(s, 1, k) : k \in 0 .. Len(s) - 1}

SaveRamTypeOK(n) ==
    /\ RAM_banks \in Contents(n)
    /\ SRAM_cache_valid \in BOOLEAN
    /\ SRAM_cache_valid => SRAM_cache \in Contents(n)
    /\ file \in Seq(Values) /\ Len(file) <= n
    /\ since \in 0 .. Delay + 1 /\ file_age \in 0 .. Delay + 1
    /\ last_save \in {"none", "written", "failed", "too soon", "overdue"}
    /\ dirty \in BOOLEAN

-----------------------------------------------------------------------------

\* read_SRAM of a cartridge of n banks, before the cache is valid: what RAM_banks
\* may hold then.  What was read of a short file is erased.
Loaded(n) ==
    IF file = <<>> THEN Contents(n)
    ELSE IF Len(file) = n THEN {file}
    ELSE {r \in Contents(n) : \A i \in DOMAIN file : r[i] = 0}

\* setup_MBC: RAM from malloc, filled from the file if there is a battery.  The time
\* of the last write is the epoch.
SetupRam(n, battery) ==
    /\ RAM_banks' \in (IF battery THEN Loaded(n) ELSE Contents(n))
    /\ SRAM_cache' = <<>> /\ SRAM_cache_valid' = FALSE
    /\ since' = Delay + 1 /\ dirty' = FALSE /\ last_save' = "none"
    /\ UNCHANGED <<file, file_age>>

\* save_SRAM: the file opened for writing, or not, and written in full or in part.
save_SRAM ==
    /\ \/ file' = RAM_banks /\ last_save' = "written"
       \/ file' \in CutShort(RAM_banks) \cup {file} /\ last_save' = "failed"
    /\ file_age' = 0

\* The file only if the last call is long ago, the cache in any case.
write_SRAM ==
    /\ IF since > Delay
       THEN save_SRAM
       ELSE /\ last_save' = IF file_age > Delay THEN "overdue" ELSE "too soon"
            /\ UNCHANGED <<file, file_age>>
    /\ SRAM_cache' = RAM_banks /\ SRAM_cache_valid' = TRUE
    /\ since' = 0 /\ dirty' = FALSE
    /\ UNCHANGED RAM_banks

\* A write of the game to a bank.
PutMem(bank) ==
    /\ \E d \in Values : RAM_banks' = [RAM_banks EXCEPT ![bank + 1] = d]
    /\ dirty' = TRUE
    /\ UNCHANGED <<SRAM_cache, SRAM_cache_valid, file, since, file_age, last_save>>

Tick ==
    /\ since <= Delay \/ file_age <= Delay
    /\ since' = IF since > Delay THEN since ELSE since + 1
    /\ file_age' = IF file_age > Delay THEN file_age ELSE file_age + 1
    /\ UNCHANGED <<RAM_banks, SRAM_cache, SRAM_cache_valid, file, last_save, dirty>>
=============================================================================
