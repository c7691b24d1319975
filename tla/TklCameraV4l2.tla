--------------------------- MODULE TklCameraV4l2 ----------------------------
(***************************************************************************)
(* The V4L2 camera adapter (tkl_camera_v4l2.c) and the kernel's buffer     *)
(* queue behind it.  One application thread opens a camera, starts and     *)
(* stops it, takes frames and gives them back; every kernel call may fail, *)
(* and tkl_camera_v4l2_start undoes what it did by calling stop.           *)
(***************************************************************************)
EXTENDS Integers

CONSTANTS
    BufferCount    \* cfg->buffer_count

ASSUME CameraAssumption == BufferCount \in Nat

VARIABLES
    ctx,       \* the context: allocated, streaming, buffers (NULL or not), num
    file,      \* the device is open
    mapped,    \* buffers mapped into the process
    kernel,    \* external: streaming, number of buffers, those queued
    held       \* buffers handed to the application and not given back

camera == <<ctx, file, mapped, kernel, held>>

NoCamera == [allocated |-> FALSE, streaming |-> FALSE, buffers |-> FALSE, num |-> 0]

Fresh == [NoCamera EXCEPT !.allocated = TRUE]

Quiet == [streaming |-> FALSE, count |-> 0, queued |-> {}]

CameraInit ==
    /\ ctx = NoCamera /\ file = FALSE /\ mapped = {}
    /\ kernel = Quiet /\ held = {}

(* tkl_camera_v4l2_open; after any failure the file is closed and the      *)
(* context freed.                                                          *)
tkl_camera_v4l2_open ==
    /\ ~ctx.allocated
    /\ ctx' = Fresh /\ file' = TRUE
    /\ UNCHANGED <<mapped, kernel, held>>

(* STREAMOFF takes every buffer back from the driver.                      *)
StreamOff(k) == [k EXCEPT !.streaming = FALSE, !.queued = {}]

(* tkl_camera_v4l2_stop, from a context, kernel state and mappings; frames *)
(* the application still holds are gone.                                   *)
Stop(c, k, m) ==
    /\ ctx' = [c EXCEPT !.streaming = FALSE, !.buffers = FALSE, !.num = 0]
    /\ kernel' = IF c.streaming THEN StreamOff(k) ELSE k
    /\ mapped' = IF c.buffers THEN m \ (0..(c.num - 1)) ELSE m
    /\ held' = {}

tkl_camera_v4l2_stop ==
    /\ ctx.allocated
    /\ Stop(ctx, kernel, mapped)
    /\ UNCHANGED file

(* REQBUFS frees the buffers of an earlier session and allocates up to     *)
(* the number asked for; it is refused while the kernel is streaming.      *)
Requested(n) == [streaming |-> FALSE, count |-> n, queued |-> {}]

(* tkl_camera_v4l2_start stops short: REQBUFS fails, fewer than two        *)
(* buffers are granted, or calloc fails.                                   *)
StartRefused ==
    /\ ctx.allocated /\ ~ctx.streaming
    /\ \/ UNCHANGED kernel
       \/ ~kernel.streaming /\ \E n \in 0..BufferCount : kernel' = Requested(n)
    /\ UNCHANGED <<ctx, file, mapped, held>>

(* tkl_camera_v4l2_start maps and queues buffer after buffer.  It fails at *)
(* buffer i, before or after mapping it, or at STREAMON (i = n), and then  *)
(* calls stop, or it succeeds.                                             *)
tkl_camera_v4l2_start ==
    /\ ctx.allocated /\ ~ctx.streaming       \* otherwise OPRT_OK
    /\ ~kernel.streaming
    /\ UNCHANGED file
    /\ \E n \in 2..BufferCount :
          LET ready == [ctx EXCEPT !.buffers = TRUE, !.num = n]
              queued(i) == [Requested(n) EXCEPT !.queued = 0..(i - 1)]
          IN \/ \E i \in 0..n, more \in {0, 1} :
                   Stop(ready, queued(i), mapped \cup 0..(i - 1 + (IF i < n THEN more ELSE 0)))
             \/ /\ ctx' = [ready EXCEPT !.streaming = TRUE]
                /\ mapped' = mapped \cup 0..(n - 1)
                /\ kernel' = [queued(n) EXCEPT !.streaming = TRUE]
                /\ UNCHANGED held

(* tkl_camera_v4l2_close stops, closes the file and frees the context; the *)
(* kernel frees the buffers with the file.                                 *)
tkl_camera_v4l2_close ==
    /\ ctx.allocated
    /\ ctx' = NoCamera /\ kernel' = Quiet /\ held' = {} /\ file' = FALSE
    /\ mapped' = IF ctx.buffers THEN mapped \ (0..(ctx.num - 1)) ELSE mapped

DequeueAtMost ==
    /\ ctx.streaming
    /\ \E i \in kernel.queued :
          /\ kernel' = [kernel EXCEPT !.queued = @ \ {i}]
          /\ held' = IF i + 1 >= ctx.num THEN held ELSE held \cup {i}
    /\ UNCHANGED <<ctx, file, mapped>>

(* tkl_camera_v4l2_dequeue hands out a filled buffer; a timeout or an      *)
(* error takes none.                                                       *)
tkl_camera_v4l2_dequeue ==
    /\ ctx.streaming
    /\ \E i \in kernel.queued :
          /\ kernel' = [kernel EXCEPT !.queued = @ \ {i}]
          /\ held' = IF i >= ctx.num THEN held ELSE held \cup {i}
    /\ UNCHANGED <<ctx, file, mapped>>

(* tkl_camera_v4l2_queue does not ask whether the camera streams; QBUF     *)
(* refuses a buffer that is queued already.                                *)
tkl_camera_v4l2_queue(i) ==
    /\ ctx.allocated /\ i < ctx.num /\ i \notin kernel.queued
    /\ kernel' = [kernel EXCEPT !.queued = @ \cup {i}]
    /\ held' = held \ {i}
    /\ UNCHANGED <<ctx, file, mapped>>

CameraNext ==
    \/ tkl_camera_v4l2_open
    \/ StartRefused
    \/ tkl_camera_v4l2_start
    \/ tkl_camera_v4l2_stop
    \/ tkl_camera_v4l2_close
    \/ tkl_camera_v4l2_dequeue
    \/ \E i \in 0..BufferCount : tkl_camera_v4l2_queue(i)

CameraSpec == CameraInit /\ [][CameraNext]_camera

-----------------------------------------------------------------------------
(* The context's own fields agree, and the kernel streams exactly when the *)
(* context says so: a start is never refused because a stop was forgotten. *)
CameraTypeOK ==
    /\ file <=> ctx.allocated
    /\ ctx.num \in 0..BufferCount /\ (ctx.buffers <=> ctx.num > 0)
    /\ ctx.streaming <=> kernel.streaming

(* While the camera streams all its buffers are mapped, so that dequeue    *)
(* hands out "pointer to buffer data (mmap'ed)"; otherwise none is: neither*)
(* a start that failed half-way nor a stop or close leaves a mapping.      *)
MappedWhileStreaming == mapped = IF ctx.streaming THEN 0..(ctx.num - 1) ELSE {}

(* While the camera streams, every buffer is either with the driver or     *)
(* with the application, never with both: no frame buffer gets lost and    *)
(* none is overwritten while the application looks at it.                  *)
EachBufferOnce ==
    ctx.streaming =>
        /\ kernel.queued \cup held = 0..(ctx.num - 1)
        /\ kernel.queued \cap held = {}

(* The camera's buffers are mapped exactly while it streams, and then each *)
(* of them is with the driver or with the caller.                          *)
BuffersAccountedFor == CameraTypeOK /\ MappedWhileStreaming /\ EachBufferOnce
=============================================================================
