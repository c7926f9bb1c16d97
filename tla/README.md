# TLA+ models of TD-ToothVoca-ESP-ADF

These TLA+ modules model the vocabulary-trainer firmware in `src/`. The device
works like this:

- A touch wakes it from light sleep and starts a countdown of
  `TV_TASK_TIME_MIN:TV_TASK_TIME_SEC`.
- Each minute boundary asks a server for a word and an example sentence, and
  the ILI9341 panel shows them.
- At 00:00 the panel goes off and the chip sleeps again.

The modules cover the parts where concurrency makes the firmware hard to test:

- three FreeRTOS tasks that share state without locks;
- a touch ISR;
- light sleep;
- a panel blit engine whose completion ISR signals through one global
  semaphore handle;
- the word request: an HTTP exchange over lwIP sockets, whose reply is parsed
  into fixed-size C buffers and copied into the screen record.

## The system and its parts

| Part | Source | Module | Status |
|---|---|---|---|
| Task coordinator: TimerTask, MainTask, LcdTouchTask, touch callback, light sleep | `src/main/task.c` | `TaskCoord` | modelled |
| Screen state record `s_wordData` | `src/main/task.c` | `TaskCoord` | modelled (texts abstracted) |
| Touch flag, touch ISR, TurnOn/TurnOff, ResetBackground | `src/components/lcd_touch/lcd_touch.c` | `TaskCoord` | modelled |
| Panel blit engine: `refresh_finish`, FillBackground, DrawImageData, DrawText, `LcdTouch_NotifyRefreshReady` | `lcd_touch.c` | `BlitEngine` | modelled |
| Glyph rasterizer `LcdTouch_GetFontImageData` | `lcd_touch.c` | `BlitEngine` (allocation outcome only) | partly |
| Glyph index `LcdTouch_GetFontIndexOfUnicode` | `lcd_touch.c` | `TextLayout` | modelled |
| Text layout `LcdTouch_DrawString` | `lcd_touch.c` | `TextLayout` | modelled |
| Word request and parse | `src/components/req_word/req_word.c` | `WordFetch` (byte lengths), `TaskCoord` (`Responses`, `MainFetch`, `MainSet*`) | modelled |
| HTTP client | `src/components/http_request/http_req.c` | `WordFetch` | modelled |
| Audio pipeline | `src/components/audioStream/audio_stream.c` | none | not modelled: vendor pipeline, shares no state |
| Boot `app_main` | `src/main/main.c` | none | not modelled: sequential SDK bring-up |

### How the parts interact

The tasks are created with priority 5 and `tskNO_AFFINITY` on a dual-core
ESP32, so any interleaving of their steps is possible.

**TimerTask** runs a 1 s loop:
- While `s_isStartTimer` is set, it formats `min:sec` into `s_wordData.time`
  and sets `isNewTime`.
- It decrements `sec`, a `uint8_t`. On the wrap past 0 it borrows a minute and
  raises `s_isWordRequest`.
- At 00:00 it reloads the countdown, calls `LcdTouch_TurnOff`, and then calls
  `esp_light_sleep_start`.

**MainTask** runs a 50 ms loop. It serves `s_isWordRequest` with
`ReqWord_Requset`. On success it does the following, in order:
1. Clears the panel (`LcdTouch_ResetBackground`, a blit).
2. Copies the word and then the sentence into `s_wordData`, each followed by
   its dirty flag.

It then clears the request flag, whether the request succeeded or not.

**LcdTouchTask** runs a 500 ms loop:
1. It runs the touch callback if the ISR set `isTouchOccurred`. The callback
   sets `s_isStartTimer` and turns the panel on.
2. It then draws each dirty field with `LcdTouch_DrawString`, which performs
   one blit per glyph, and clears that field's flag.

**Blits.** A blit from MainTask (`FillBackground`) and a blit from
LcdTouchTask (`DrawText` → `DrawImageData`) can run at the same time. Both
store their semaphore in the same global `refresh_finish`.

## Modules

`Countdown` is not a model of one part of the code. It is the abstract
session timer that `TaskCoord` is shown to implement (see below).

### `TaskCoord`: the tasks and the screen record

Each task is a program counter. A step is the code between two accesses to
shared state.

**State**
- `minute`, `second`: the locals `min` and `sec`, kept as `uint8_t` with
  `% 256`.
- `isStartTimer`, `isWordRequest`, `isTouchOccurred`: the shared flags.
- `asleep`, `displayOn`: the chip and the panel.
- `text`, `isNew`: the three fields of `s_wordData`.
- `shown`: what the panel shows in each field's region.
- `reqWord`, `reqSentence`: the static buffers in `req_word.c`.

**Actions**

| Task | Actions | Code |
|---|---|---|
| TimerTask | `TimerTick` | one loop pass: format, decrement, borrow, stop and reload, exactly as `task.c:166-188` orders it |
| | `TimerTurnOff`, `TimerSleep` | the two calls at `task.c:191-192`, as separate steps |
| MainTask | `MainFetch` | `ReqWord_Requset` with its four outcomes (`Responses`) |
| | `MainResetBackground` | clearing the panel |
| | `MainSetWord`, `MainSetSentence` | copy, then set the flag |
| | `MainClearRequest` | clear the request flag |
| LcdTouchTask | `LcdTouchPoll`, `LcdTouchClear` | `LcdTouch_Task` with the callback |
| | `UpdateDraw`, `UpdateClear` | the draw of a field, then the flag clear that follows it, per field in `Fields` order |
| Environment | `TouchISR` | the touch ISR |
| | `WakeUp` | the ext0 wake-up; the edge may or may not also reach the ISR |

Texts are model values. A time text is the pair `<<min, sec>>` that `sprintf`
formats; the format is injective for these values. `s_timerTick` is left out
because nothing reads it. `AudioStream_Run` changes no modelled state.

`SEC_RELOAD` is the 59 that `sec` is reloaded with. It is a constant so that
TLC can use short minutes. `CountdownAssumption` allows every value in 1..59,
which includes the firmware's 59.

### `BlitEngine`: the shared completion semaphore

**State**
- `refresh`: the global `refresh_finish`.
- `live`: the handles that exist. They come from a small pool `SemIds`, so a
  deleted handle can be handed out again.
- `given`: the state of each binary semaphore.
- `queue`: the panel IO's in-order transfer queue. Each entry is the owner and
  its buffer.
- Per caller: `buf`, `pc`, `rows`, and `waitOn`, the handle its
  `xSemaphoreTake` read.

**Actions**
- `Start`: semaphore creation for the fill, or the glyph's allocation outcome
  for the glyph.
- `FillAlloc`, `GlyphCreate`.
- `Draw`: `esp_lcd_panel_draw_bitmap`.
- `TakeCall` and `TakeDone`: reading the global, then blocking.
- `Free`, `Delete`.
- `Complete`: the ISR gives whatever `refresh_finish` holds when the oldest
  transfer finishes.

`ALLOC_CAN_FAIL` switches on NULL results from the heap.

### `TextLayout`: the glyph index and the cursor

`GetFontIndexOfUnicode` is an operator that follows `lcd_touch.c:304-322`
exactly, `uint32_t` wrap-around included. TLC's integers are 32-bit signed, so
a `uint32_t` is kept as the pair of its 16-bit halves
(`U32(n) == <<U16(n \div 65536), U16(n)>>`). This is exact, because `\div`
rounds down for negative `n` as well.

The font table `Font.chars` and the decoder `ParserChar_GetUnicode` are not in
the repository. The table's layout is taken from the constants in
`lcd_touch.c:94-102`:
- printable ASCII at 0..94;
- 94 compatibility jamo from 95;
- `CT_COUNT` complete forms from 189.

The Unicode bases `CV_BASE` and `CT_BASE` and the glyph sizes are constants.
The code points a string can decode to are the set `Alphabet`. A read past the
end of the table gives any size in `JunkDims`.

**State:** the cursor `x`, `y` (`uint16_t`), the glyph count `n`, the index
`idx`, and the reported size `w`, `h`. `pc` marks the top of the while loop.

**Actions**
- `DrawGlyph`: decode, resolve and `LcdTouch_DrawText`.
- `Advance`: the cursor step and the wrap at `320 - 20`.
- `Return`: the string ends, and the next call starts at a field origin.

### `WordFetch`: the word request on byte lengths

`WordFetch` follows MainTask through one request, from `ReqWord_Requset`
through `HttpRequest_Req`, `HttpRequest_GetWord`, `ReqWord_ParseResponse` and
the copies into `s_wordData`. Only MainTask runs this path, so its steps are
sequential. `TaskCoord` is where the other tasks interleave with it.

**Abstraction.** A string is its length.
- The server's reply is a `Reply` record: header bytes, whether the blank
  line `\r\n\r\n` is there, word bytes, whether a colon follows, blanks,
  sentence bytes, and whether the server closes the connection.
- What has been received is a byte count `recvIdx`. `BodyFound`,
  `ColonFound` and `SentenceLen` compute what `strstr`, `strchr`, the
  blank-skipping loop and `strncpy` find in the first `k` bytes.
- The addrinfo list and the socket are the flags `resHeld` and `sockOpen`.
- `wordFresh` and `sentFresh` are ghost flags. They record whether this
  request wrote `word[]` and `sentence[]`.

**Actions.** `pc` says where MainTask is.
- `Request` starts the request and picks the reply the server will send.
- `Dns`, `Socket`, `Connect`, `Write` and `SetOpt` are the steps of
  `HttpRequest_Req`. Each either succeeds or takes its failure exit through
  `Fail`, with exactly the `close`/`freeaddrinfo` calls that exit makes.
- `Read` is one `read()`. It returns some size from `ReadSizes` cut to the
  room left (`sizeof - idx - 1`), or 0 at EOF once all is sent and the server
  closed, or -1 at any point (the 5 s timeout or an error).
- `ReadEnd` writes the terminator and closes the socket.
- `Parse` is `HttpRequest_GetWord` (its size check is `GetWordCopies`)
  followed by `ReqWord_ParseResponse`.
- `CopyWord` and `CopySentence` are `ReqWord_GetWord` and
  `ReqWord_GetSentence` into `s_wordData`.

### `Countdown`: the session timer the spec promises

`Countdown` has two variables, `running` and `left`, and three actions:
- `Start`: a touch starts a session.
- `Tick`: a running session loses one second.
- `Expire`: the last second ends the session and rearms `TOTAL`.

`TaskCoord` instantiates it as `Session` with:
- `running <- isStartTimer`;
- `left <- Remaining(minute, second)`;
- `TOTAL <- Remaining(TIME_MIN, TIME_SEC)`.

`CountdownRefined == Session!Spec` is the refinement property.

## Runs

| Run | Cfg | Expect | What it shows |
|---|---|---|---|
| `taskcoord_pass` | `MC_TaskCoord.cfg` | pass | The countdown never underflows (`CountdownInRange`), the time field never reads 00:00 or more than the start (`TimeShownInRange`), a started countdown always ends in sleep (`ActiveEndsAsleep`), and every step is a `Start`, `Tick` or `Expire` of `Countdown` or leaves the countdown alone (`CountdownRefined`). All four hold under every interleaving of the tasks, touches and wake-ups. |
| `taskcoord_redraw_lost` | `MC_TaskCoord_RedrawNotLost.cfg` | violation | LcdTouchTask draws the old word, MainTask stores a new word and sets `isNewWord`, LcdTouchTask clears the flag, and the new word is never drawn. |
| `taskcoord_sleep_display_on` | `MC_TaskCoord_SleepsWithDisplayOff.cfg` | violation | A touch between `LcdTouch_TurnOff` and `esp_light_sleep_start` makes the chip sleep with the panel on. |
| `textlayout_pass` | `MC_TextLayout.cfg` | pass | Strings of up to 40 code points, taken from the edges of the three font ranges, are drawn from each field origin, wrapping included, and every glyph index is inside `Font.chars` (`GlyphIndexInFont`). |
| `blit_fill` | `MC_BlitEngine_Fill.cfg` | pass | FillBackground alone is correct, failing allocations included. |
| `blit_glyph` | `MC_BlitEngine_Glyph.cfg` | pass | DrawText alone only ever uses live semaphores and always returns. |
| `blit_shared_semaphore_buffer` | `MC_BlitEngine_BufferNotFreedInFlight.cfg` | violation | With both callers, one caller is woken by the other's completion and frees a buffer whose transfer is still queued. |
| `blit_shared_semaphore_hang` | `MC_BlitEngine_BlitCompletes.cfg` | violation | With both callers, a caller blocks for ever on a replaced semaphore. This happens even with no allocation failure. |
| `blit_glyph_null_buffer` | `MC_BlitEngine_NoTransferFromNull.cfg` | violation | A failed glyph allocation still sends its rows from NULL. |
| `wordfetch_pass` | `MC_WordFetch.cfg` | pass | The read loop keeps room for the terminator (`RecvTerminatorInBounds`), every exit of `HttpRequest_Req` releases what it holds (`ResourcesReleased`), the sentence fits `ScreenData` (`SentenceFitsScreen`), and every request returns (`RequestReturns`). This holds for any split of the reply into reads and a timeout at any point. |
| `wordfetch_word_overflow` | `MC_WordFetch_WordFitsScreen.cfg` | violation | A 100-byte word passes ParseResponse's `word_len >= 128` check, and `ReqWord_GetWord` writes 101 bytes into `word[100]`. |
| `wordfetch_stale_reply` | `MC_WordFetch_ReplyParsedOnSuccess.cfg` | violation | A reply with no colon, a word too long, or one cut by the timeout still makes `ReqWord_Requset` return true. MainTask then shows the previous sentence as this request's. |

### Findings

- **Word overflow (code bug, `req_word.c:141`).** `ReqWord_GetWord` copies
  `strlen(word) + 1` bytes into `ScreenData.word[100]`, with no bound. Words
  of up to 127 bytes are accepted. From 100 bytes on, the copy runs past
  `word[]`: first into padding, then into `word_x` and `word_y` (see the
  struct at `task.c:50`). The spec says the word is at most 99 characters,
  but nothing enforces it.
- **Success on a failed parse (spec/code divergence, `req_word.c:134`).**
  `ReqWord_Requset` returns true whatever `ReqWord_ParseResponse` found.
- The TaskCoord and BlitEngine findings are shown by the violation runs
  above.
- **A word requested at 2:00 (spec/code divergence, `task.c:173`).** With
  `TV_TASK_TIME_SEC = 0`, the first tick of a session wraps `sec` to 255,
  which is above 60. TimerTask therefore borrows and raises `s_isWordRequest`
  at 2:00 as well as at 1:00. The spec's testable properties expect one
  request, at the 1:00 boundary. The theorem `FirstTickRequestsWord` proves
  this for every start value and minute length. The state it starts from is
  reachable: it is `Init` after a touch, since the wake-up and the touch
  callback leave `min:sec` alone.
- **Control characters index past the font (spec/code divergence,
  `lcd_touch.c:310`).** ParseResponse keeps a line feed the server sends in
  the sentence. `GetFontIndexOfUnicode(10)` then computes `10 - 32` in
  `uint32_t`, and `GetFontImageData` reads `Font.chars[4294967274]`. The
  theorem `ControlCharOutOfFont` proves this for every font.

### Bounds

**TaskCoord**
- `TIME_MIN = 2`, `TIME_SEC = 0`: the firmware's own start value.
- `SEC_RELOAD = 2`: a 3-second minute, so one countdown has 6 ticks and passes
  through both borrows, the stop, the reload and a restart.
- One text value suffices for the type and range properties, which do not
  depend on which word arrives.

The real 60-second minute only lengthens the chain of ticks between borrows.
The proofs below cover every `SEC_RELOAD` in 1..59.

**BlitEngine**
- `FILL_BANDS = GLYPH_ROWS = 3`: enough for a caller to be between two
  segments when the other caller acts.
- Three semaphore handles, so that a handle can be reused while another is
  still live.

**WordFetch**
- Nine replies, each at an edge of a buffer:
  - words of 99, 100 and 130 bytes, on either side of `word[100]` and `word[128]`;
  - a 300-byte sentence, longer than `sentence[256]`;
  - an error page with no colon;
  - a reply with no blank line;
  - a 2200-byte reply, longer than `g_recvBuf`;
  - a normal reply from a server that keeps the connection open.
- Reads of 64 and 1460 bytes, so a reply arrives in one read or in many, and
  a read can end at any of the boundaries.
- The buffer sizes are the code's own: 2048, 128, 256 and 100.

**TextLayout**
- The Unicode bases of the Hangul jamo (U+3131) and syllables (U+AC00), with
  11172 complete forms.
- `MAX_GLYPHS = 40` glyphs of 8 or 16 pixels: enough for several wraps and
  for `y` to reach the panel's bottom.
- The alphabet holds the first and last code point of each range, which is
  where an off-by-one in the resolver shows.

### Fairness

**TaskCoord**
- Each task gets weak fairness on its own steps: an equal-priority FreeRTOS
  task that is ready is eventually scheduled.
- The touch ISR and the wake-up are not fair: the user need never touch.

**BlitEngine**
- A caller that has started a blit gets weak fairness, because it runs
  straight-line code or waits.
- The panel IO gets weak fairness on `Complete`, because the SPI hardware
  finishes queued transfers.
- Starting a new blit is not fair.

**WordFetch**
- The steps of a started request (`FetchStep`) get weak fairness. MainTask
  is always runnable again, and each blocking call returns: DNS and connect
  by lwIP's own timeouts, and `read` by `SO_RCVTIMEO`.
- `Request` is not fair: TimerTask raises the request flag.

**TextLayout** has no fairness; only safety is checked.

## Proofs

### `TaskCoordProofs`

Checked by `tlapm`. All its theorems hold for all constants allowed by
`CountdownAssumption` and `TextsAssumption`.

#### `TypeCorrect`: `Spec => []TypeOK`

- `TypeOKInit` and `TypeOKStep` prove it, with one case per action.
- The lemma `ExceptType` covers the updates to one field of a function.

#### `CountdownSafe`: `Spec => []CountdownInRange`

`CountdownInRange` alone is not inductive. On a borrow, TimerTick computes
`(min + 255) % 256` and resets `min` when that exceeds 60. The step is
therefore safe only when `min <= TIME_MIN <= 60`.

The inductive invariant is:

```
CountdownInv == TypeOK /\ CountdownInRange /\ minute \in 0..TIME_MIN
```

The step proof splits into four cases:
1. A borrow at `sec = 0`, which needs `min >= 1`. That follows from
   `Remaining >= 1`. Lemma `TickBorrow` covers the wrap arithmetic.
2. The stop at `00:01`, which reloads.
3. A plain decrement. Lemma `TickNoBorrow` covers it.
4. Every other action, which leaves `min` and `sec` unchanged.

#### The tick lemmas

`TimerTick` computes its new `min:sec` in a LET with two `% 256` wraps.
`TickCounters` restates that LET as named operators (`TickDec`, `TickWraps`,
`TickSec`, `TickMin0`, `TickMin`, `TickStop`). `TickCountersStep` shows that
`TimerTick` implies it. Three lemmas then give the outcome of one tick:
- `TickBorrowStep` for `sec = 0` and `min >= 1`: the countdown moves to
  `min - 1 : SEC_RELOAD` and the word request is raised;
- `TickStopStep` at `00:01`: the countdown stops and the start value is
  reloaded;
- `TickPlainStep` for any other tick: one second is taken off `sec`.

#### `FirstTickRequestsWord`

Assume `TIME_SEC = 0` and `TIME_MIN >= 1`. From `min:sec = TIME_MIN:00`, a
`TimerTick` raises `s_isWordRequest` and moves to `TIME_MIN - 1 : SEC_RELOAD`.
The proof uses `TickBorrowStep`.

#### `SessionRefined`: `Spec => CountdownRefined`

The refinement is proved from the same `CountdownInv`:
- `SessionInit`: `Init` maps to `Countdown`'s `Init`.
- `SessionStep`: under `CountdownInv`, every step is one of these:
  - a borrow tick, which is a `Tick`, because `left >= SEC_RELOAD + 1 >= 2`;
  - the stop at 00:01, which is an `Expire`;
  - a plain tick, which is a `Tick`;
  - LcdTouchTask seeing a touch, which is a `Start`;
  - any other action, which is a stutter of the abstract variables.

Each tick case uses its tick lemma. The theorem combines these with
`CountdownInit`, `CountdownStep` and PTL.

#### `TimeShownSafe`: `Spec => []TimeShownInRange`

`TimeShownInRange` alone is not inductive. TimerTick writes the current
`min:sec` into the time text, and that text is in range only because the
countdown is. The inductive invariant is therefore
`CountdownInv /\ TimeShownInRange`.

`TimeShownStep` has one case per writer of the two time fields:
- `TimerTick` writes `<<min, sec>>`, which is in range by `TickTextOK`;
- MainTask's ResetBackground blanks the shown text;
- `MainSetWord` and `MainSetSentence` leave the time field alone;
- LcdTouchTask's `UpdateDraw` copies the text to the panel;
- every other action changes neither field.

### `WordFetchProofs`

These hold for every set of replies and read sizes that `ReplyAssumption`
allows.

- **`RecvInBounds`, `FetchReleases`, `SentenceFits`:**
  `Spec => []RecvTerminatorInBounds`, `Spec => []ResourcesReleased` and
  `Spec => []SentenceFitsScreen`.
  - All three rest on one inductive invariant, `FetchInv`, proved by
    `FetchInvInit` and `FetchInvStep`. It is made of:
    - `TypeOK`, in three parts;
    - `Holding`, which says exactly what is held at each `pc`;
    - `Bounded`, which bounds `recvIdx`, `recvLen`, `sentLen` and `scrSentLen`.
  - `ResourcesReleased` alone is not inductive. From `Write`, the invariant
    must already know that the addrinfo list was freed at connect, and only
    the socket is open.
  - The read step uses `Min` against the room `sizeof - idx - 1`.
  - Lemma `SentenceLenBound` bounds what ParseResponse keeps.
- **`FetchTypeOK`:** `Spec => []TypeOK`.

### `TextLayoutProofs`

These hold for every base and table size `FontAssumption` allows: bases above
ASCII and in order, and a table of at most 65536 entries.

- **`ResolverInBounds`.** Every code point of the three ranges resolves to a
  table entry. Lemma `ResolverLinear` shows that the resolver then computes
  `<<0, Linear(cp)>>`, with no wrap. `LinearRanges` places each range in its
  own block of the table.
- **`ResolverInjective`.** No two such code points share a glyph.
- **`ControlCharOutOfFont`.** Every code point in 0..31 resolves to an index
  whose high half is 65535. This is the finding, proved for every font.
- **`LayoutTypeCorrect`: `Spec => []TypeOK`.** `TypeOK` is not inductive,
  because `Advance` increments `n` without a guard. The strengthening is
  `LayoutInv == TypeOK /\ (pc = "advance" => n < MAX_GLYPHS)`.
- **`LayoutIndexSafe`.** Assuming `Alphabet \subseteq ValidCodePoints`,
  `Spec => []GlyphIndexInFont`. `GlyphIndexInFont` is itself inductive, given
  `ResolverInBounds`.

### `BlitEngineProofs`

These hold for every set of callers, semaphore ids and row counts that
`BlitAssumption` allows.

- **`BlitTypeOK`: `Spec => []TypeOK`**, for any set of callers, both
  callers at once included. `TypeOK` alone is not inductive: `TakeDone`
  decrements `rows` with no guard. The strengthening `TypeInv` adds
  `RowsLeft`: a caller inside the segment loop has a segment left.

No safety theorem about `refresh_finish` is stated. The code always runs
two callers at once: MainTask's FillBackground and LcdTouchTask's
DrawImageData. With both, the shared global breaks the protocol, as the
runs `blit_shared_semaphore_buffer` and `blit_shared_semaphore_hang` show.
A proof that assumed a single caller would describe a configuration the
device never runs. What each caller does alone is checked by the runs
`blit_fill` and `blit_glyph`.

The proofs required one correction to the model. `GlyphCreate` and
`TakeDone` first chose the next `pc` with a `CASE` whose arms overlapped. In
TLA+ such a `CASE` picks an arm arbitrarily, while the C code tests its
conditions in order. These are now `IF`/`ELSE` chains in the code's order.
The runs are unchanged.

### Checked by TLC only

- Liveness (`ActiveEndsAsleep`, `BlitCompletes`, `RequestReturns`): the
  provers do not reason about ENABLED or fairness.
- BlitEngine's behaviour with both callers. `BufferNotFreedInFlight` and
  `BlitCompletes` are shown violated there. `SemaphoreLiveWhenUsed` is
  checked only with each caller alone, and so is the delete of the global on
  FillBackground's allocation failure (`lcd_touch.c:177`).

## What is not modelled, and why

- **How the layout fills the panel.** Whether glyphs run off the panel
  depends on the glyph sizes in `Font.h`, which is not in the repository.
- **The request lost while a fetch runs (`task.c:227`).** A request raised by
  TimerTask while MainTask is inside `ReqWord_Requset` is erased afterwards.
  `TaskCoord` allows this interleaving, but no property checks it: a fetch
  ends well within the 60 s between two requests, and the model has no clock.
- **The bit loop of the rasterizer.** This is a pure function, planned as an
  operator checked on bounded inputs.
- **The font table and the UTF-8 decoder.** These are external to the
  repository. They are constants of `TextLayout`.
- **The audio pipeline and boot.** These are vendor or SDK code. Their
  effect on the shared state is covered by `Init`. `AudioStream_Run` reads no
  state of the other parts.
- **Bytes and wording of the HTTP exchange.** The request text and the header
  contents are abstracted to lengths. No property depends on them.

## Plan for later sittings

1. Bounds of the `DrawString` cursor against the field regions, given the
   real glyph sizes.
2. A composition of TaskCoord with BlitEngine, so that MainTask's
   ResetBackground and LcdTouchTask's DrawString share `refresh_finish`.
3. Connecting `WordFetch`'s outcomes to `TaskCoord`'s `Responses` by a
   refinement.
