------------------------------ MODULE BlitEngine -----------------------------
(***************************************************************************)
(* The panel blit engine of src/components/lcd_touch/lcd_touch.c.          *)
(*                                                                         *)
(* A blit creates a binary semaphore and stores its handle in the one      *)
(* global refresh_finish, then for each segment queues an asynchronous     *)
(* esp_lcd_panel_draw_bitmap and blocks in xSemaphoreTake(refresh_finish). *)
(* The panel IO completes queued transfers in order and, for each, the ISR *)
(* LcdTouch_NotifyRefreshReady gives whatever refresh_finish holds then.   *)
(* After the last segment the blit frees its pixel buffer and deletes      *)
(* refresh_finish.  Two callers blit:                                      *)
(*   "fill"  LcdToudh_FillBackground (from LcdTouch_ResetBackground, in   *)
(*           MainTask): FILL_BANDS bands from one buffer, freed, then the *)
(*           semaphore deleted;                                           *)
(*   "glyph" LcdTouch_DrawText (from LcdTouch_DrawString, in LcdTouchTask):*)
(*           LcdTouch_GetFontImageData allocates the glyph's pixels,       *)
(*           LcdToudh_DrawImageData sends one row per segment and deletes *)
(*           the semaphore, then DrawText frees the pixels.               *)
(* Semaphore handles are drawn from a small pool so that the allocator may *)
(* hand out a deleted handle again.                                        *)
(***************************************************************************)
EXTENDS Naturals, Sequences

CONSTANTS
  Clients,     \* the callers that blit: a subset of {"fill", "glyph"}
  FILL_BANDS,  \* LT_LCD_BIT_PER_PIXEL: bands of LcdToudh_FillBackground
  GLYPH_ROWS,  \* height_px of the glyph LcdTouch_DrawText draws
  SemIds,      \* semaphore handles the FreeRTOS heap can return
  ALLOC_CAN_FAIL, \* whether the heap may refuse a semaphore or a buffer
  NULL         \* the NULL handle

ASSUME BlitAssumption ==
  /\ Clients \subseteq {"fill", "glyph"}
  /\ FILL_BANDS \in Nat \ {0}
  /\ GLYPH_ROWS \in Nat \ {0}
  /\ NULL \notin SemIds
  /\ ALLOC_CAN_FAIL \in BOOLEAN

VARIABLES
  refresh,  \* the global refresh_finish
  live,     \* handles created and not yet deleted
  given,    \* given[s]: the binary semaphore s is available to take
  queue,    \* transfers queued in the panel IO, oldest first
  buf,      \* buf[c]: "none", "live" or "null" pixel buffer of caller c
  pc,       \* pc[c]: where caller c is in its blit
  rows,     \* rows[c]: segments caller c has still to send
  waitOn    \* waitOn[c]: the handle caller c read for xSemaphoreTake

vars == <<refresh, live, given, queue, buf, pc, rows, waitOn>>

Init ==
  /\ refresh = NULL
  /\ live = {}
  /\ given = [s \in SemIds |-> FALSE]
  /\ queue = <<>>
  /\ buf = [c \in Clients |-> "none"]
  /\ pc = [c \in Clients |-> "idle"]
  /\ rows = [c \in Clients |-> 0]
  /\ waitOn = [c \in Clients |-> NULL]

-----------------------------------------------------------------------------
(* xSemaphoreCreateBinary into refresh_finish: a free handle, or NULL when *)
(* the heap is exhausted.                                                  *)
CreateResult == (SemIds \ live) \cup (IF ALLOC_CAN_FAIL THEN {NULL} ELSE {})

(* heap_caps_calloc of a pixel buffer. *)
AllocResult == IF ALLOC_CAN_FAIL THEN {"live", "null"} ELSE {"live"}

(* vSemaphoreDelete(refresh_finish): deletes what the global holds now. *)
DeleteRefresh == live' = live \ {refresh}

(* A caller starts a blit.  FillBackground creates the semaphore first;   *)
(* DrawText first gets the glyph's pixels: no glyph image (nothing to     *)
(* draw, zero rows), a failed heap_caps_calloc (rows but a NULL buffer),   *)
(* or a filled buffer.                                                      *)
(* Mutant: xSemaphoreCreateBinary's result never stored in refresh_finish. *)
StartNoStore(c) ==
  /\ pc[c] = "idle"
  /\ IF c = "fill"
       THEN \E s \in SemIds \ live :
              /\ live' = live \cup {s}
              /\ given' = [given EXCEPT ![s] = FALSE]
              /\ pc' = [pc EXCEPT ![c] = "alloc"]
              /\ UNCHANGED <<refresh, buf, rows>>
       ELSE /\ buf' = [buf EXCEPT ![c] = "live"]
            /\ rows' = [rows EXCEPT ![c] = GLYPH_ROWS]
            /\ pc' = [pc EXCEPT ![c] = "create"]
            /\ UNCHANGED <<refresh, live, given>>
  /\ UNCHANGED <<queue, waitOn>>

Start(c) ==
  /\ pc[c] = "idle"
  /\ IF c = "fill"
       THEN \E s \in CreateResult :
              /\ refresh' = s
              /\ live' = live \cup ({s} \ {NULL})
              /\ given' = IF s = NULL THEN given ELSE [given EXCEPT ![s] = FALSE]
              /\ pc' = [pc EXCEPT ![c] = IF s = NULL THEN "idle" ELSE "alloc"]
              /\ UNCHANGED <<buf, rows>>
       ELSE \E g \in {"noglyph"} \cup AllocResult :
              /\ buf' = [buf EXCEPT ![c] = IF g = "live" THEN "live" ELSE "null"]
              /\ rows' = [rows EXCEPT ![c] = IF g = "noglyph" THEN 0 ELSE GLYPH_ROWS]
              /\ pc' = [pc EXCEPT ![c] = "create"]
              /\ UNCHANGED <<refresh, live, given>>
  /\ UNCHANGED <<queue, waitOn>>

(* LcdToudh_FillBackground's heap_caps_calloc of the band buffer: on      *)
(* failure it deletes refresh_finish and returns.                          *)
FillAlloc(c) ==
  /\ pc[c] = "alloc"
  /\ \/ /\ buf' = [buf EXCEPT ![c] = "live"]
        /\ rows' = [rows EXCEPT ![c] = FILL_BANDS]
        /\ pc' = [pc EXCEPT ![c] = "draw"]
        /\ UNCHANGED live
     \/ /\ "null" \in AllocResult
        /\ DeleteRefresh
        /\ pc' = [pc EXCEPT ![c] = "idle"]
        /\ UNCHANGED <<buf, rows>>
  /\ UNCHANGED <<refresh, given, queue, waitOn>>

(* LcdToudh_DrawImageData creates refresh_finish; on NULL it returns and *)
(* DrawText frees the pixels.                                            *)
(* Mutant: DrawImageData's semaphore never stored in refresh_finish. *)
GlyphCreateNoStore(c) ==
  /\ pc[c] = "create"
  /\ \E s \in SemIds \ live :
       /\ live' = live \cup {s}
       /\ given' = [given EXCEPT ![s] = FALSE]
       /\ pc' = [pc EXCEPT ![c] = IF rows[c] = 0 THEN "delete" ELSE "draw"]
  /\ UNCHANGED <<refresh, queue, buf, rows, waitOn>>

GlyphCreate(c) ==
  /\ pc[c] = "create"
  /\ \E s \in CreateResult :
       /\ refresh' = s
       /\ live' = live \cup ({s} \ {NULL})
       /\ given' = IF s = NULL THEN given ELSE [given EXCEPT ![s] = FALSE]
       /\ pc' = [pc EXCEPT ![c] = IF s = NULL THEN "free"
                                    ELSE IF rows[c] = 0 THEN "delete"
                                    ELSE "draw"]
  /\ UNCHANGED <<queue, buf, rows, waitOn>>

(* esp_lcd_panel_draw_bitmap queues one segment from the caller's buffer. *)
(* Mutant: the segment loop queues the next segment without waiting. *)
DrawNoWait(c) ==
  /\ pc[c] = "draw"
  /\ queue' = Append(queue, [owner |-> c, src |-> buf[c]])
  /\ rows' = [rows EXCEPT ![c] = @ - 1]
  /\ pc' = [pc EXCEPT ![c] = IF rows[c] > 1 THEN "draw"
                               ELSE IF c = "fill" THEN "free"
                               ELSE "delete"]
  /\ UNCHANGED <<refresh, live, given, buf, waitOn>>

Draw(c) ==
  /\ pc[c] = "draw"
  /\ queue' = Append(queue, [owner |-> c, src |-> buf[c]])
  /\ pc' = [pc EXCEPT ![c] = "take"]
  /\ UNCHANGED <<refresh, live, given, buf, rows, waitOn>>

(* xSemaphoreTake(refresh_finish, portMAX_DELAY) reads the global ...     *)
TakeCall(c) ==
  /\ pc[c] = "take"
  /\ waitOn' = [waitOn EXCEPT ![c] = refresh]
  /\ pc' = [pc EXCEPT ![c] = "wait"]
  /\ UNCHANGED <<refresh, live, given, queue, buf, rows>>

(* ... and blocks until that semaphore is given.  After the last segment *)
(* FillBackground frees its buffer, DrawImageData deletes the semaphore. *)
(* Mutant: the segment loop runs once more than there are segments. *)
TakeDoneOffByOne(c) ==
  /\ pc[c] = "wait"
  /\ waitOn[c] \in SemIds
  /\ given[waitOn[c]]
  /\ given' = [given EXCEPT ![waitOn[c]] = FALSE]
  /\ rows' = [rows EXCEPT ![c] = @ - 1]
  /\ pc' = [pc EXCEPT ![c] = IF rows[c] > 0 THEN "draw"
                               ELSE IF c = "fill" THEN "free"
                               ELSE "delete"]
  /\ UNCHANGED <<refresh, live, queue, buf, waitOn>>

(* Mutant: the segment index is never advanced. *)
TakeDoneNoAdvance(c) ==
  /\ pc[c] = "wait"
  /\ waitOn[c] \in SemIds
  /\ given[waitOn[c]]
  /\ given' = [given EXCEPT ![waitOn[c]] = FALSE]
  /\ pc' = [pc EXCEPT ![c] = IF rows[c] > 1 THEN "draw"
                               ELSE IF c = "fill" THEN "free"
                               ELSE "delete"]
  /\ UNCHANGED <<refresh, live, queue, buf, rows, waitOn>>

TakeDone(c) ==
  /\ pc[c] = "wait"
  /\ waitOn[c] \in SemIds
  /\ given[waitOn[c]]
  /\ given' = [given EXCEPT ![waitOn[c]] = FALSE]
  /\ rows' = [rows EXCEPT ![c] = @ - 1]
  /\ pc' = [pc EXCEPT ![c] = IF rows[c] > 1 THEN "draw"
                               ELSE IF c = "fill" THEN "free"
                               ELSE "delete"]
  /\ UNCHANGED <<refresh, live, queue, buf, waitOn>>

(* free() of the pixel buffer: FillBackground then deletes the semaphore; *)
(* DrawText has deleted it already and is done.                           *)
Free(c) ==
  /\ pc[c] = "free"
  /\ buf' = [buf EXCEPT ![c] = "none"]
  /\ pc' = [pc EXCEPT ![c] = IF c = "fill" THEN "delete" ELSE "idle"]
  /\ UNCHANGED <<refresh, live, given, queue, rows, waitOn>>

(* vSemaphoreDelete(refresh_finish): FillBackground is done; DrawText    *)
(* goes on to free its pixels.                                           *)
Delete(c) ==
  /\ pc[c] = "delete"
  /\ DeleteRefresh
  /\ pc' = [pc EXCEPT ![c] = IF c = "fill" THEN "idle" ELSE "free"]
  /\ UNCHANGED <<refresh, given, queue, buf, rows, waitOn>>

(* The panel IO finishes the oldest transfer; LcdTouch_NotifyRefreshReady *)
(* gives refresh_finish, a no-op on a binary semaphore already given.     *)
Complete ==
  /\ queue # <<>>
  /\ queue' = Tail(queue)
  /\ given' = IF refresh \in SemIds THEN [given EXCEPT ![refresh] = TRUE]
                                    ELSE given
  /\ UNCHANGED <<refresh, live, buf, pc, rows, waitOn>>

-----------------------------------------------------------------------------
Caller(c) ==
  \/ Start(c) \/ FillAlloc(c) \/ GlyphCreate(c) \/ Draw(c)
  \/ TakeCall(c) \/ TakeDone(c) \/ Free(c) \/ Delete(c)

(* Past Start, a caller's steps are its task running straight-line code, *)
(* so they are weakly fair; so is the SPI hardware finishing transfers.  *)
(* Whether a task starts another blit is up to its caller.               *)
Next == (\E c \in Clients : Caller(c)) \/ Complete

Fairness ==
  /\ \A c \in Clients : WF_vars(Caller(c) /\ pc[c] # "idle")
  /\ WF_vars(Complete)

Spec == Init /\ [][Next]_vars /\ Fairness


-----------------------------------------------------------------------------
(***************************************************************************)
(* Properties.                                                             *)
(***************************************************************************)
TypeOK ==
  /\ refresh \in SemIds \cup {NULL}
  /\ live \subseteq SemIds
  /\ given \in [SemIds -> BOOLEAN]
  /\ queue \in Seq([owner : Clients, src : {"none", "live", "null"}])
  /\ buf \in [Clients -> {"none", "live", "null"}]
  /\ pc \in [Clients -> {"idle", "alloc", "create", "draw", "take", "wait",
                         "free", "delete"}]
  /\ rows \in [Clients -> Nat]
  /\ waitOn \in [Clients -> SemIds \cup {NULL}]

(* The handle in refresh_finish is a live semaphore whenever something    *)
(* uses it: the ISR giving it for a queued transfer, a caller about to    *)
(* take or delete it; and every blocked xSemaphoreTake waits on a live    *)
(* semaphore.  Otherwise the ISR or a task touches a deleted (or NULL)    *)
(* semaphore.                                                             *)
SemaphoreLiveWhenUsed ==
  /\ (queue # <<>> \/ \E c \in Clients : pc[c] \in {"take", "delete"})
       => refresh \in live
  /\ \A c \in Clients : pc[c] = "wait" => waitOn[c] \in live

(* Spec, panel blit engine: one segment in flight keeps DMA buffer reuse  *)
(* safe, so no transfer still queued in the panel IO reads a pixel buffer *)
(* its caller has already freed.                                          *)
BufferNotFreedInFlight ==
  \A i \in 1..Len(queue) :
    queue[i].src = "live" => buf[queue[i].owner] = "live"

(* Spec, glyph rasterizer: a failed allocation draws nothing.  No transfer *)
(* is queued from a NULL pixel buffer.                                     *)
NoTransferFromNull == \A i \in 1..Len(queue) : queue[i].src # "null"

(* Every blit a caller starts returns: its xSemaphoreTake(portMAX_DELAY)  *)
(* calls are all eventually given.                                        *)
BlitCompletes == \A c \in Clients : pc[c] # "idle" ~> pc[c] = "idle"

=============================================================================
