-------------------------------- MODULE TklVad --------------------------------
(***************************************************************************)
(* Voice activity detection, tuyaos_adapter/src/tkl_audio/tkl_vad.c.  The  *)
(* audio driver's thread feeds three equally long streams (microphone,     *)
(* reference, output); each call may detect speech and takes one frame off *)
(* the three buffers.  Another thread initialises, starts, stops and ends  *)
(* the detection.  Lengths are counted in equal parts of a frame.          *)
(***************************************************************************)
EXTENDS Integers

CONSTANTS AEC_VAD_FRAME_SIZE,
          AEC_VAD_RING_BUFF_LEN,
          Calls                  \* lengths the driver calls back with

ASSUME VadAssumption ==
    /\ AEC_VAD_FRAME_SIZE \in Nat \ {0}
    /\ AEC_VAD_RING_BUFF_LEN \in Nat
    /\ AEC_VAD_RING_BUFF_LEN >= 2 * AEC_VAD_FRAME_SIZE
    /\ Calls \subseteq Nat \ {0}

Handles == {"aec", "vad", "linear"}

VARIABLES handle,   \* the handles that are not NULL
          lens,     \* sg_mic_data_len, sg_ref_data_len, sg_out_data_len
          flag,     \* __s_aec_vad_flag: speech
          vad_feed,     \* __tkl_vad_process is registered with the driver
          busy,     \* the driver is in __tkl_aec_vad_process
          dropped   \* history: the last call discarded its data

vadvars == <<handle, lens, flag, vad_feed, busy, dropped>>

Streams == {"mic", "ref", "out"}

VadInit ==
    /\ handle = {} /\ lens = [s \in Streams |-> 0]
    /\ flag = FALSE /\ vad_feed = FALSE /\ busy = FALSE /\ dropped = FALSE

-------------------------------------------------------------------------------
(* The handles are made in the order aec, vad, linear, those that exist    *)
(* are kept; any may fail, and then tkl_vad_deinit frees them all.  Both   *)
(* outcomes are returned as OPRT_OK.                                       *)
tkl_vad_init ==
    /\ ~busy
    /\ \/ handle' = Handles /\ vad_feed' = TRUE
       \/ handle # Handles /\ handle' = {} /\ vad_feed' = FALSE
    /\ UNCHANGED <<lens, flag, busy, dropped>>

(* Unregistering the callback is taken to wait for the call under way.     *)
tkl_vad_deinit ==
    /\ ~busy
    /\ vad_feed' = FALSE /\ handle' = {}
    /\ UNCHANGED <<lens, flag, busy, dropped>>

tkl_vad_start ==
    /\ flag' = FALSE
    /\ UNCHANGED <<handle, lens, vad_feed, busy, dropped>>

tkl_vad_stop ==
    /\ flag' = FALSE
    /\ UNCHANGED <<handle, lens, vad_feed, busy, dropped>>

DiscardsLate(n) == lens["ref"] + n > AEC_VAD_RING_BUFF_LEN + AEC_VAD_FRAME_SIZE

Discards(n) == \E s \in Streams : lens[s] + n > AEC_VAD_RING_BUFF_LEN

ProcessDiscard(n) ==
    /\ vad_feed /\ ~busy /\ Discards(n)
    /\ dropped' = TRUE
    /\ UNCHANGED <<handle, lens, flag, vad_feed, busy>>

(* __tkl_vad_process up to the call of __tkl_aec_vad_process. *)
ProcessStore(n) ==
    /\ vad_feed /\ ~busy /\ ~Discards(n)
    /\ lens' = [s \in Streams |-> lens[s] + n]
    /\ busy' = (lens["ref"] + n > AEC_VAD_FRAME_SIZE)
    /\ dropped' = FALSE
    /\ UNCHANGED <<handle, flag, vad_feed>>

FrameNotMoved ==
    /\ busy
    /\ busy' = FALSE
    /\ flag' \in IF handle = Handles THEN BOOLEAN ELSE {flag}
    /\ UNCHANGED <<handle, lens, vad_feed, dropped>>

(* __tkl_aec_vad_process sets the flag to what the detector finds; then    *)
(* the buffers move by a frame.                                            *)
aec_vad_process ==
    /\ busy
    /\ busy' = FALSE
    /\ flag' \in IF handle = Handles THEN BOOLEAN ELSE {flag}
    /\ lens' = [s \in Streams |-> lens[s] - AEC_VAD_FRAME_SIZE]
    /\ UNCHANGED <<handle, vad_feed, dropped>>

tkl_vad_process ==
    \/ \E n \in Calls : ProcessDiscard(n) \/ ProcessStore(n)
    \/ aec_vad_process

VadNext ==
    \/ tkl_vad_init \/ tkl_vad_deinit \/ tkl_vad_start \/ tkl_vad_stop
    \/ tkl_vad_process

VadSpec == VadInit /\ [][VadNext]_vadvars

-------------------------------------------------------------------------------
(* Properties *)

(* Type invariant. *)
VadTypeOK ==
    /\ handle \subseteq Handles /\ lens \in [Streams -> Nat]
    /\ flag \in BOOLEAN /\ vad_feed \in BOOLEAN
    /\ busy \in BOOLEAN /\ dropped \in BOOLEAN

(* When no call of the driver is longer than a frame, the buffers never    *)
(* reach the length at which data is discarded, although only one frame    *)
(* is taken off per call and only when more than one is there, and         *)
(* although tkl_vad_deinit leaves old data in them.                        *)
NothingDiscarded == ~dropped

(* Whatever the driver's calls are, the three streams, of which only the   *)
(* reference is tested, stay inside their buffers: nothing is copied past  *)
(* an end and no memmove has a negative length.  The driver never calls    *)
(* back for a detection that does not exist.                               *)
StreamsInsideBuffers ==
    /\ VadTypeOK
    /\ \A s \in Streams :
          /\ lens[s] \in 0..AEC_VAD_RING_BUFF_LEN
          /\ busy => lens[s] > AEC_VAD_FRAME_SIZE
    /\ vad_feed => handle = Handles
===============================================================================
