------------------------------- MODULE TklOta -------------------------------
(***************************************************************************)
(* The default OTA backend (tkl_ota.c): the image arrives in packs, each   *)
(* written to ./tuyadb/ota except for its last KEEP bytes, which the       *)
(* caller presents again at the start of the next pack.  The caller is     *)
(* external: it obeys remain_len, may give up at any point and start over. *)
(* Image bytes are numbered 1..TotalLen.                                   *)
(***************************************************************************)
EXTENDS Integers, Sequences

CONSTANTS
    TotalLen,       \* pack->total_len
    KEEP,           \* bytes of a pack that are not written (100)
    PackLens,       \* lengths of the packs the caller makes, KEEP at least
    MaxSessions     \* bound: downloads started

ASSUME OtaAssumption ==
    /\ TotalLen \in Nat /\ KEEP \in Nat
    /\ \A len \in PackLens : len \in Nat /\ len >= KEEP

VARIABLES
    s_upgrade_fd,   \* "null", "open", or "closed" (points to a closed FILE)
    file,           \* bytes written to the image file
    offset,         \* offset of the caller's next pack
    state,          \* the caller: "idle", "loading", "loaded"
    short,          \* history: an fwrite of this download wrote less
    sessions

ota == <<s_upgrade_fd, file, offset, state, short, sessions>>

OtaInit ==
    /\ s_upgrade_fd = "null" /\ file = <<>> /\ offset = 0 /\ state = "idle"
    /\ short = FALSE /\ sessions = 0

(* tkl_ota_start_notify closes what s_upgrade_fd points to and opens the   *)
(* file anew, which empties it.  After tkl_ota_end_notify it would close a *)
(* FILE that is closed already, which is undefined: no start follows an    *)
(* end here.                                                               *)
tkl_ota_start_notify(opened) ==
    /\ s_upgrade_fd # "closed" /\ sessions < MaxSessions
    /\ sessions' = sessions + 1
    /\ s_upgrade_fd' = IF opened THEN "open" ELSE "null"
    /\ file' = IF opened THEN <<>> ELSE file
    /\ state' = IF opened THEN "loading" ELSE "idle"
    /\ offset' = 0 /\ short' = FALSE

KeepsNothing(len, last) == len

(* The length passed to fwrite. *)
WriteLen(len, last) == IF last THEN len ELSE len - KEEP

(* tkl_ota_data_process on a pack of len bytes.  The result of fwrite is   *)
(* not looked at.                                                          *)
tkl_ota_data_process(len) ==
    LET last == offset + len = TotalLen
        n == WriteLen(len, last)
    IN /\ state = "loading" /\ offset + len <= TotalLen
       /\ \E k \in 0..n : /\ file' = file \o [i \in 1..k |-> offset + i]
                          /\ short' = (short \/ k < n)
       /\ offset' = IF last THEN TotalLen ELSE offset + len - KEEP
       /\ state' = IF last THEN "loaded" ELSE "loading"
       /\ UNCHANGED <<s_upgrade_fd, sessions>>

(* tkl_ota_end_notify without reset, after a whole or an abandoned         *)
(* download; with reset the process exits.                                 *)
tkl_ota_end_notify ==
    /\ state \in {"loading", "loaded"}
    /\ s_upgrade_fd' = "closed" /\ state' = "idle"
    /\ UNCHANGED <<file, offset, short, sessions>>

OtaNext ==
    \/ \E opened \in BOOLEAN : tkl_ota_start_notify(opened)
    \/ \E len \in PackLens : tkl_ota_data_process(len)
    \/ tkl_ota_end_notify

OtaSpec == OtaInit /\ [][OtaNext]_ota

-----------------------------------------------------------------------------
(* Unless the disk was full, the file holds exactly the image up to the    *)
(* offset of the next pack, whatever the pack lengths were and however     *)
(* often a download was abandoned: nothing is missing or doubled where     *)
(* packs overlap.  The file is open while a download runs and never holds  *)
(* more than the image.                                                    *)
FileMatchesProgress ==
    /\ Len(file) <= TotalLen /\ offset \in 0..TotalLen
    /\ state # "idle" => s_upgrade_fd = "open"
    /\ state # "idle" /\ ~short => file = [i \in 1..offset |-> i]
=============================================================================
