------------------------------ MODULE TaskCoord ------------------------------
(***************************************************************************)
(* The task/state coordination layer of src/main/task.c together with the *)
(* touch flag of src/components/lcd_touch/lcd_touch.c.                     *)
(*                                                                         *)
(* Three FreeRTOS tasks of equal priority, created without core affinity, *)
(* share the ScreenData record s_wordData and the flags s_isWordRequest   *)
(* and s_isStartTimer with no lock:                                        *)
(*   - TimerTask (1 s): counts min:sec down, writes the time text, raises *)
(*     s_isWordRequest on every minute borrow, stops and sleeps at 00:00;  *)
(*   - MainTask (50 ms): serves s_isWordRequest by fetching a word and a   *)
(*     sentence, clearing the screen and marking both fields dirty;        *)
(*   - LcdTouchTask (500 ms): runs the touch callback when the touch ISR   *)
(*     has set isTouchOccurred, then draws every dirty field and clears    *)
(*     its flag.                                                           *)
(* The touch ISR sets isTouchOccurred; esp_light_sleep_start suspends the *)
(* whole chip until a touch on the wake pin.                               *)
(*                                                                         *)
(* Each task is a program counter; a step is the code between two        *)
(* accesses to shared state, so that every interleaving the two cores can *)
(* produce is a behaviour.  The model is untimed: the tasks' periods make *)
(* some interleavings rare, never impossible.  Texts are model values; a  *)
(* time text is the pair <<min, sec>> that sprintf formats, which is       *)
(* injective for the values the countdown takes.  The audio pipeline is an *)
(* external collaborator: AudioStream_Run changes no modelled state.       *)
(***************************************************************************)
EXTENDS Naturals

CONSTANTS
  TIME_MIN,   \* TV_TASK_TIME_MIN: minutes of the countdown
  TIME_SEC,   \* TV_TASK_TIME_SEC: seconds of the countdown
  SEC_RELOAD, \* the 59 TimerTask reloads sec with on a borrow
  Texts,      \* words and sentences the word server can answer
  Empty       \* the zeroed text buffer; drawn, it leaves the region blank

ASSUME CountdownAssumption ==
  /\ SEC_RELOAD \in 1..59
  /\ TIME_MIN \in 0..60
  /\ TIME_SEC \in 0..SEC_RELOAD
  /\ TIME_MIN + TIME_SEC >= 1

ASSUME TextsAssumption == Empty \notin Texts

VARIABLES
  minute, second,  \* TimerTask's locals min and sec (uint8_t)
  isStartTimer,    \* s_isStartTimer
  isWordRequest,   \* s_isWordRequest
  isTouchOccurred, \* isTouchOccurred, set by LcdTouch_TouchISR
  asleep,          \* the chip is in light sleep
  displayOn,       \* panel display and backlight on (LcdTouch_TurnOn/Off)
  text,            \* s_wordData.word / sentence / time
  isNew,           \* s_wordData.isNewWord / isNewSentence / isNewTime
  shown,           \* what the panel shows in each field's region
  reqWord,         \* req_word.c's static word buffer
  reqSentence,     \* req_word.c's static sentence buffer
  timerPc, mainPc, lcdPc, lcdField

vars == <<minute, second, isStartTimer, isWordRequest, isTouchOccurred,
          asleep, displayOn, text, isNew, shown, reqWord, reqSentence,
          timerPc, mainPc, lcdPc, lcdField>>

(* The fields of ScreenData in the order Task_UpdateScreen visits them. *)
Fields == <<"word", "sentence", "time">>
FieldSet == {"word", "sentence", "time"}

(* The width of the uint8_t countdown locals. *)
Byte == 0..255

(* The seconds a min:sec pair stands for. *)
Remaining(m, s) == m * (SEC_RELOAD + 1) + s

(* What a word request can come back with: ReqWord_Requset failed, or it  *)
(* returned true after ReqWord_ParseResponse found a word and a sentence,  *)
(* found no body or no colon, or found a word of 128 bytes or more.        *)
Responses ==
  {[kind |-> "fail"], [kind |-> "nobody"], [kind |-> "toolong"]}
  \cup [kind : {"ok"}, word : Texts, sentence : Texts]

-----------------------------------------------------------------------------
(* Initial state: app_main has run LcdTouch_Init (panel off, background    *)
(* filled), created the four tasks and put the chip to light sleep.        *)
Init ==
  /\ minute = TIME_MIN
  /\ second = TIME_SEC
  /\ isStartTimer = FALSE
  /\ isWordRequest = FALSE
  /\ isTouchOccurred = FALSE
  /\ asleep = TRUE
  /\ displayOn = FALSE
  /\ text = [f \in FieldSet |-> Empty]
  /\ isNew = [f \in FieldSet |-> FALSE]
  /\ shown = [f \in FieldSet |-> Empty]
  /\ reqWord = Empty
  /\ reqSentence = Empty
  /\ timerPc = "tick"
  /\ mainPc = "poll"
  /\ lcdPc = "touch"
  /\ lcdField = 1

-----------------------------------------------------------------------------
(***************************************************************************)
(* TimerTask.  One pass of the loop while s_isStartTimer is set: write the *)
(* time text and mark it dirty, decrement sec with uint8_t wrap-around,    *)
(* borrow a minute (raising the word request) when sec has wrapped, and    *)
(* on 00:00 clear s_isStartTimer and reload the countdown.  A pass with    *)
(* s_isStartTimer clear only increments s_timerTick, which nothing reads.  *)
(***************************************************************************)
(* Mutants of TimerTick and TimerTurnOff, each a plausible slip in       *)
(* Task_TimerTask: sec decremented as a signed int, min:sec not reloaded *)
(* on stop, the time formatted after the decrement, and the sleep call   *)
(* left out after LcdTouch_TurnOff.                                      *)
TickWith(dec, reload, late) ==
  /\ ~asleep /\ timerPc = "tick" /\ isStartTimer
  /\ LET borrow == dec > 60
         sec1   == IF borrow THEN SEC_RELOAD ELSE dec
         min0   == IF borrow THEN (minute + 255) % 256 ELSE minute
         min1   == IF borrow /\ min0 > 60 THEN TIME_MIN ELSE min0
         stop   == sec1 = 0 /\ min1 = 0
     IN /\ text' = [text EXCEPT !["time"] =
                      IF late THEN <<min1, sec1>> ELSE <<minute, second>>]
        /\ isNew' = [isNew EXCEPT !["time"] = TRUE]
        /\ isWordRequest' = (borrow \/ isWordRequest)
        /\ isStartTimer' = ~stop
        /\ minute' = IF stop /\ reload THEN TIME_MIN ELSE min1
        /\ second' = IF stop /\ reload THEN TIME_SEC ELSE sec1
        /\ timerPc' = IF stop THEN "off" ELSE "tick"
  /\ UNCHANGED <<isTouchOccurred, asleep, displayOn, shown, reqWord,
                 reqSentence, mainPc, lcdPc, lcdField>>
TimerTickSignedSec == TickWith(second - 1, TRUE, FALSE)
TimerTickNoReload == TickWith((second + 255) % 256, FALSE, FALSE)
TimerTickLateFormat == TickWith((second + 255) % 256, TRUE, TRUE)
TimerTurnOffNoSleep ==
  /\ ~asleep /\ timerPc = "off"
  /\ displayOn' = FALSE
  /\ timerPc' = "tick"
  /\ UNCHANGED <<minute, second, isStartTimer, isWordRequest,
                 isTouchOccurred, asleep, text, isNew, shown, reqWord,
                 reqSentence, mainPc, lcdPc, lcdField>>

TimerTick ==
  /\ ~asleep /\ timerPc = "tick" /\ isStartTimer
  /\ LET dec    == (second + 255) % 256
         borrow == dec > 60
         sec1   == IF borrow THEN SEC_RELOAD ELSE dec
         min0   == IF borrow THEN (minute + 255) % 256 ELSE minute
         min1   == IF borrow /\ min0 > 60 THEN TIME_MIN ELSE min0
         stop   == sec1 = 0 /\ min1 = 0
     IN /\ text' = [text EXCEPT !["time"] = <<minute, second>>]
        /\ isNew' = [isNew EXCEPT !["time"] = TRUE]
        /\ isWordRequest' = (borrow \/ isWordRequest)
        /\ isStartTimer' = ~stop
        /\ minute' = IF stop THEN TIME_MIN ELSE min1
        /\ second' = IF stop THEN TIME_SEC ELSE sec1
        /\ timerPc' = IF stop THEN "off" ELSE "tick"
  /\ UNCHANGED <<isTouchOccurred, asleep, displayOn, shown, reqWord,
                 reqSentence, mainPc, lcdPc, lcdField>>

(* LcdTouch_TurnOff, called by TimerTask after the countdown stopped. *)
TimerTurnOff ==
  /\ ~asleep /\ timerPc = "off"
  /\ displayOn' = FALSE
  /\ timerPc' = "sleep"
  /\ UNCHANGED <<minute, second, isStartTimer, isWordRequest,
                 isTouchOccurred, asleep, text, isNew, shown, reqWord,
                 reqSentence, mainPc, lcdPc, lcdField>>

(* esp_light_sleep_start: the whole chip stops until the wake pin is low. *)
TimerSleep ==
  /\ ~asleep /\ timerPc = "sleep"
  /\ asleep' = TRUE
  /\ timerPc' = "tick"
  /\ UNCHANGED <<minute, second, isStartTimer, isWordRequest,
                 isTouchOccurred, displayOn, text, isNew, shown, reqWord,
                 reqSentence, mainPc, lcdPc, lcdField>>

-----------------------------------------------------------------------------
(***************************************************************************)
(* MainTask.  With s_isWordRequest set it calls ReqWord_Requset (the HTTP *)
(* exchange and ReqWord_ParseResponse, which update req_word.c's buffers); *)
(* on true it clears the screen, copies the word and then the sentence    *)
(* into ScreenData, each followed by its dirty flag, and restarts audio;   *)
(* success or not, it then clears s_isWordRequest.                         *)
(***************************************************************************)
MainFetch ==
  /\ ~asleep /\ mainPc = "poll" /\ isWordRequest
  /\ \E r \in Responses :
       /\ reqWord' = CASE r.kind = "ok"      -> r.word
                       [] r.kind = "toolong" -> Empty
                       [] OTHER              -> reqWord
       /\ reqSentence' = IF r.kind = "ok" THEN r.sentence ELSE reqSentence
       /\ mainPc' = IF r.kind = "fail" THEN "clear" ELSE "reset"
  /\ UNCHANGED <<minute, second, isStartTimer, isWordRequest,
                 isTouchOccurred, asleep, displayOn, text, isNew, shown,
                 timerPc, lcdPc, lcdField>>

(* LcdTouch_ResetBackground: the whole panel is filled with the background. *)
MainResetBackground ==
  /\ ~asleep /\ mainPc = "reset"
  /\ shown' = [f \in FieldSet |-> Empty]
  /\ mainPc' = "word"
  /\ UNCHANGED <<minute, second, isStartTimer, isWordRequest,
                 isTouchOccurred, asleep, displayOn, text, isNew, reqWord,
                 reqSentence, timerPc, lcdPc, lcdField>>

(* ReqWord_GetWord into s_wordData.word, then isNewWord = true. *)
MainSetWord ==
  /\ ~asleep /\ mainPc = "word"
  /\ text' = [text EXCEPT !["word"] = reqWord]
  /\ isNew' = [isNew EXCEPT !["word"] = TRUE]
  /\ mainPc' = "sentence"
  /\ UNCHANGED <<minute, second, isStartTimer, isWordRequest,
                 isTouchOccurred, asleep, displayOn, shown, reqWord,
                 reqSentence, timerPc, lcdPc, lcdField>>

(* ReqWord_GetSentence into s_wordData.sentence, then isNewSentence = true; *)
(* AudioStream_Run follows.                                                 *)
MainSetSentence ==
  /\ ~asleep /\ mainPc = "sentence"
  /\ text' = [text EXCEPT !["sentence"] = reqSentence]
  /\ isNew' = [isNew EXCEPT !["sentence"] = TRUE]
  /\ mainPc' = "clear"
  /\ UNCHANGED <<minute, second, isStartTimer, isWordRequest,
                 isTouchOccurred, asleep, displayOn, shown, reqWord,
                 reqSentence, timerPc, lcdPc, lcdField>>

(* s_isWordRequest = false, whatever the request came back with. *)
MainClearRequest ==
  /\ ~asleep /\ mainPc = "clear"
  /\ isWordRequest' = FALSE
  /\ mainPc' = "poll"
  /\ UNCHANGED <<minute, second, isStartTimer, isTouchOccurred, asleep,
                 displayOn, text, isNew, shown, reqWord, reqSentence,
                 timerPc, lcdPc, lcdField>>

-----------------------------------------------------------------------------
(***************************************************************************)
(* LcdTouchTask.  LcdTouch_Task runs the registered Task_TouchCallback if  *)
(* isTouchOccurred is set (s_isStartTimer = true, LcdTouch_TurnOn) and     *)
(* then clears the flag; Task_UpdateScreen draws each dirty field with    *)
(* LcdTouch_DrawString and then clears its dirty flag.                     *)
(***************************************************************************)
LcdTouchPoll ==
  /\ ~asleep /\ lcdPc = "touch"
  /\ IF isTouchOccurred
       THEN /\ isStartTimer' = TRUE
            /\ displayOn' = TRUE
            /\ lcdPc' = "cb"
       ELSE /\ lcdPc' = "draw"
            /\ UNCHANGED <<isStartTimer, displayOn>>
  /\ UNCHANGED <<minute, second, isWordRequest, isTouchOccurred, asleep,
                 text, isNew, shown, reqWord, reqSentence, timerPc, mainPc,
                 lcdField>>

LcdTouchClear ==
  /\ ~asleep /\ lcdPc = "cb"
  /\ isTouchOccurred' = FALSE
  /\ lcdPc' = "draw"
  /\ UNCHANGED <<minute, second, isStartTimer, isWordRequest, asleep,
                 displayOn, text, isNew, shown, reqWord, reqSentence,
                 timerPc, mainPc, lcdField>>

(* Move Task_UpdateScreen on past field i; after the time field the task *)
(* sleeps 500 ms and starts over with LcdTouch_Task.                     *)
NextField(i) ==
  IF i < 3 THEN lcdPc' = "draw" /\ lcdField' = i + 1
           ELSE lcdPc' = "touch" /\ lcdField' = 1

(* if(isNew...) LcdTouch_DrawString(...) for the field at lcdField. *)
UpdateDraw ==
  /\ ~asleep /\ lcdPc = "draw"
  /\ LET f == Fields[lcdField] IN
       IF isNew[f]
         THEN /\ shown' = [shown EXCEPT ![f] = text[f]]
              /\ lcdPc' = "clear"
              /\ UNCHANGED lcdField
         ELSE /\ NextField(lcdField)
              /\ UNCHANGED shown
  /\ UNCHANGED <<minute, second, isStartTimer, isWordRequest,
                 isTouchOccurred, asleep, displayOn, text, isNew, reqWord,
                 reqSentence, timerPc, mainPc>>

(* isNew... = false after the draw. *)
UpdateClear ==
  /\ ~asleep /\ lcdPc = "clear"
  /\ isNew' = [isNew EXCEPT ![Fields[lcdField]] = FALSE]
  /\ NextField(lcdField)
  /\ UNCHANGED <<minute, second, isStartTimer, isWordRequest,
                 isTouchOccurred, asleep, displayOn, text, shown, reqWord,
                 reqSentence, timerPc, mainPc>>

-----------------------------------------------------------------------------
(* LcdTouch_TouchISR: a touch edge while the chip runs. *)
TouchISR ==
  /\ ~asleep
  /\ isTouchOccurred' = TRUE
  /\ UNCHANGED <<minute, second, isStartTimer, isWordRequest, asleep,
                 displayOn, text, isNew, shown, reqWord, reqSentence,
                 timerPc, mainPc, lcdPc, lcdField>>

(* A touch pulls the ext0 wake pin low and ends light sleep.  Whether the *)
(* edge also reaches LcdTouch_TouchISR after wake-up depends on the GPIO  *)
(* hardware, so both outcomes are allowed.                                *)
WakeUp ==
  /\ asleep
  /\ asleep' = FALSE
  /\ isTouchOccurred' \in {isTouchOccurred, TRUE}
  /\ UNCHANGED <<minute, second, isStartTimer, isWordRequest, displayOn,
                 text, isNew, shown, reqWord, reqSentence, timerPc, mainPc,
                 lcdPc, lcdField>>

-----------------------------------------------------------------------------
TimerStep == TimerTick \/ TimerTurnOff \/ TimerSleep
MainStep == MainFetch \/ MainResetBackground \/ MainSetWord
            \/ MainSetSentence \/ MainClearRequest
LcdStep == LcdTouchPoll \/ LcdTouchClear \/ UpdateDraw \/ UpdateClear

Next == TimerStep \/ MainStep \/ LcdStep \/ TouchISR \/ WakeUp

(* The three tasks are always runnable again after their delay, so each *)
(* is weakly fair; the user's touches are not.                           *)
Fairness == WF_vars(TimerStep) /\ WF_vars(MainStep) /\ WF_vars(LcdStep)

Spec == Init /\ [][Next]_vars /\ Fairness


-----------------------------------------------------------------------------
(***************************************************************************)
(* Properties.                                                             *)
(***************************************************************************)
TextValue == Texts \cup {Empty} \cup (Byte \X Byte)

TypeOK ==
  /\ minute \in Byte /\ second \in Byte
  /\ isStartTimer \in BOOLEAN /\ isWordRequest \in BOOLEAN
  /\ isTouchOccurred \in BOOLEAN /\ asleep \in BOOLEAN
  /\ displayOn \in BOOLEAN
  /\ text \in [FieldSet -> TextValue]
  /\ isNew \in [FieldSet -> BOOLEAN]
  /\ shown \in [FieldSet -> TextValue]
  /\ reqWord \in Texts \cup {Empty}
  /\ reqSentence \in Texts \cup {Empty}
  /\ timerPc \in {"tick", "off", "sleep"}
  /\ mainPc \in {"poll", "reset", "word", "sentence", "clear"}
  /\ lcdPc \in {"touch", "cb", "draw", "clear"}
  /\ lcdField \in 1..3

(* TimerTask's uint8_t countdown never underflows: however touches and   *)
(* sleeps interleave with the ticks, min:sec stays between 00:01 and the *)
(* configured start, with sec a valid second, so the borrow on sec's     *)
(* wrap-around always has a minute to take.                              *)
CountdownInRange ==
  /\ second \in 0..SEC_RELOAD
  /\ Remaining(minute, second) \in 1..Remaining(TIME_MIN, TIME_SEC)

(* The time field, as written by sprintf in TimerTask and as drawn on the *)
(* panel by LcdTouchTask, never reads 00:00 nor more than the start: the *)
(* text is formatted before the decrement and the stop reloads min:sec.  *)
TimeShownInRange ==
  \A v \in {text["time"], shown["time"]} :
    v # Empty => v \in Byte \X Byte
                 /\ Remaining(v[1], v[2]) \in 1..Remaining(TIME_MIN, TIME_SEC)

(* Once a touch has started the countdown, the device eventually goes    *)
(* back to light sleep: TimerTask reaches 00:00 whatever touches do, and *)
(* nothing between the stop and esp_light_sleep_start can block it.      *)
ActiveEndsAsleep == isStartTimer ~> asleep

(* Spec, Screen State Record: a field's dirty flag is cleared only after *)
(* a complete draw, so once MainTask has finished with a request, the    *)
(* word and the sentence are either still dirty or shown as stored.      *)
(* Task_UpdateScreen clears isNewWord after drawing without re-checking. *)
RedrawNotLost ==
  mainPc \in {"poll", "clear"} =>
    \A f \in {"word", "sentence"} : isNew[f] \/ shown[f] = text[f]

(* Spec, state transitions: the device is Idle (display off) when it     *)
(* sleeps.  Task_TouchCallback may turn the panel on between TimerTask's *)
(* LcdTouch_TurnOff and esp_light_sleep_start.                           *)
SleepsWithDisplayOff == asleep => ~displayOn

(* The countdown TaskCoord keeps, seen through the abstract session timer: *)
(* s_isStartTimer is the running flag and min:sec the seconds left.        *)
Session == INSTANCE Countdown WITH running <- isStartTimer,
                                   left <- Remaining(minute, second),
                                   TOTAL <- Remaining(TIME_MIN, TIME_SEC)

(* Spec, Timer activity: TimerTask implements a session timer.  Every     *)
(* TimerTick takes exactly one second off min:sec (the uint8_t wrap of sec *)
(* and the minute borrow included), the tick at 00:01 ends the session and *)
(* reloads the full start value, and only the touch callback starts one;   *)
(* no other step of any task moves the countdown.                          *)
CountdownRefined == Session!Spec

=============================================================================
