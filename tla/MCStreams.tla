------------------------------ MODULE MCStreams -------------------------------
(***************************************************************************)
(* Audio and stored data for TLC.  The parts share no state; a behaviour   *)
(* is in one of five scenarios:                                            *)
(*   kws     keyword spotting, which uses a ring                           *)
(*   vad     voice detection fed with calls of up to a frame               *)
(*   long    voice detection fed with longer calls, some longer than the   *)
(*           buffer                                                        *)
(*   flash   the flash file, used by one thread                            *)
(*   ota     a download                                                    *)
(***************************************************************************)
EXTENDS TklKws, TklVad, TklFlash, TklOta

VARIABLES scenario, long_dropped

audio == <<kwsvars, vadvars, long_dropped>>
stored == <<flashvars, ota>>
all == <<scenario, audio, stored>>

RingLen == {KWS_RING_BUFF_LEN}
CellNumbers == 0..(KWS_RING_BUFF_LEN + 1)
UpToFrame == 1..AEC_VAD_FRAME_SIZE
Long == INSTANCE TklVad WITH
    Calls <- {24, 56, 800, 808}, dropped <- long_dropped
EveryType == [c \in Callers |-> AllTypes]

StreamsInit ==
    /\ scenario \in {"kws", "vad", "long", "flash", "ota"}
    /\ KwsInit /\ VadInit /\ long_dropped = FALSE /\ FlashInit /\ OtaInit

AudioNext ==
    \/ scenario = "kws" /\ KwsNext /\ UNCHANGED <<vadvars, long_dropped>>
    \/ scenario = "vad" /\ VadNext /\ UNCHANGED <<kwsvars, long_dropped>>
    \/ scenario = "long" /\ Long!VadNext /\ UNCHANGED <<kwsvars, dropped>>

StoredNext ==
    \/ scenario = "flash" /\ FlashNext /\ UNCHANGED ota
    \/ scenario = "ota" /\ OtaNext /\ UNCHANGED flashvars

StreamsNext ==
    \/ AudioNext /\ UNCHANGED <<scenario, stored>>
    \/ StoredNext /\ UNCHANGED <<scenario, audio>>

OfKws == scenario = "kws" /\ UNCHANGED <<scenario, vadvars, long_dropped, stored>>
OfVad == scenario = "vad" /\ UNCHANGED <<scenario, kwsvars, long_dropped, stored>>

(* Both threads of the keyword spotting are scheduled, although nobody has *)
(* to call the driver's callback; the driver of the voice detection keeps  *)
(* capturing while its callback is registered.                             *)
StreamsSpec ==
    /\ StreamsInit /\ [][StreamsNext]_all
    /\ WF_all(OfKws /\ Task) /\ WF_all(OfKws /\ Writing)
    /\ WF_all(OfVad /\ tkl_vad_process)

-------------------------------------------------------------------------------
(* A chunk that waits in the ring reaches the keyword module, and voice    *)
(* detection fed with calls of up to a frame looks at them again and again *)
(* while its callback is registered.                                       *)
DetectionContinues ==
    /\ ChunkGetsProcessed
    /\ []<>(busy \/ ~vad_feed \/ scenario # "vad")
===============================================================================
